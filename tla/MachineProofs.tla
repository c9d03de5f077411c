---------------------------- MODULE MachineProofs ----------------------------
(***************************************************************************)
(* The properties of module Machine for every byte code, gas limit, stack  *)
(* limit and cost.  The steps of a running frame are reduced to one shape, *)
(* FrameStep: it proceeds with a memory that is counted and paid for, it   *)
(* fails, or the process panics.  That the decoder reads code and not data *)
(* is a second induction, on what it has read.  The two recursive          *)
(* functions, ArgWord and IsCode, are shown to satisfy their recursion by  *)
(* an induction on membership in a set, which needs no operator parameter. *)
(***************************************************************************)
EXTENDS Machine, SequenceTheorems, WellFoundedInduction, TLAPS

-----------------------------------------------------------------------------
(* Numbers *)

LEMMA LeastElement ==
  ASSUME NEW I, I \subseteq Nat, I # {}
  PROVE  \E i \in I : \A j \in I : i <= j
<1> DEFINE R == OpToRel(<, Nat)
<1>1. IsWellFoundedOn(R, Nat)
  BY NatLessThanWellFounded
<1>2. PICK i \in I : \A j \in I : ~(<<j, i>> \in R)
  <2> HIDE DEF R
  <2> QED BY <1>1, WFMin, Zenon
<1>3. ASSUME NEW j \in I
      PROVE  i <= j
  <2>1. ~(j < i)
    BY <1>2 DEF OpToRel
  <2> QED BY <2>1
<1> QED BY <1>3

\* Induction, on membership in a set.
LEMMA SetInduction ==
  ASSUME NEW S, 0 \in S, \A n \in Nat : n \in S => n + 1 \in S
  PROVE  Nat \subseteq S
<1> SUFFICES ASSUME Nat \ S # {}
             PROVE  FALSE
  OBVIOUS
<1>1. PICK m \in Nat \ S : \A j \in Nat \ S : m <= j
  BY LeastElement
<1>2. m # 0 /\ m - 1 \in Nat
  BY <1>1
<1>3. m - 1 \in S
  BY <1>1, <1>2
<1> QED BY <1>1, <1>2, <1>3

-----------------------------------------------------------------------------
(* The opcode table *)

Special == {"PUSH", "DUP", "SWAP", "JUMPDEST"}

\* No row names one of the opcodes with a number, and one entry names JUMPDEST.
LEMMA RowNames ==
  /\ \A i \in 1..12 : Row0[i] \notin Special
  /\ \A i \in 1..15 : Row1[i] \notin Special
  /\ \A i \in 1..16 : Row3[i] \notin Special
  /\ \A i \in 1..11 : Row4[i] \notin Special
  /\ \A i \in 1..16 : IF i = 12 THEN Row5[i] = "JUMPDEST" ELSE Row5[i] \notin Special
  /\ \A i \in 1..6 : RowF[i] \notin Special
<1>1. \A i \in 1..12 : Row0[i] \notin Special
  BY SMTT(30) DEF Row0, Special
<1>2. \A i \in 1..15 : Row1[i] \notin Special
  BY SMTT(30) DEF Row1, Special
<1>3. \A i \in 1..16 : Row3[i] \notin Special
  BY SMTT(30) DEF Row3, Special
<1>4. \A i \in 1..11 : Row4[i] \notin Special
  BY SMTT(30) DEF Row4, Special
<1>5. \A i \in 1..16 : IF i = 12 THEN Row5[i] = "JUMPDEST" ELSE Row5[i] \notin Special
  BY SMTT(30) DEF Row5, Special
<1>6. \A i \in 1..6 : RowF[i] \notin Special
  BY SMTT(30) DEF RowF, Special
<1> QED BY <1>1, <1>2, <1>3, <1>4, <1>5, <1>6

\* What the opcode table says of a byte.
LEMMA OpcodeFacts ==
  ASSUME NEW b \in Byte
  PROVE  /\ Opcodes[b].n \in 0..32
         /\ Opcodes[b].name \in {"PUSH", "DUP", "SWAP"} => Opcodes[b].n \in 1..32
         /\ Opcodes[b].name = "JUMPDEST" <=> b = 91
<1>1. CASE b \in 0..11
  <2>1. Opcodes[b] = [name |-> Row0[b + 1], n |-> 0]
    BY SMTT(60), <1>1 DEF Opcodes, Byte
  <2> QED BY <1>1, <2>1, RowNames DEF Special
<1>2. CASE b \in 16..30
  <2>1. Opcodes[b] = [name |-> Row1[b - 15], n |-> 0]
    BY SMTT(60), <1>2 DEF Opcodes, Byte
  <2> QED BY <1>2, <2>1, RowNames DEF Special
<1>3. CASE b \in 48..63
  <2>1. Opcodes[b] = [name |-> Row3[b - 47], n |-> 0]
    BY SMTT(60), <1>3 DEF Opcodes, Byte
  <2> QED BY <1>3, <2>1, RowNames DEF Special
<1>4. CASE b \in 64..74
  <2>1. Opcodes[b] = [name |-> Row4[b - 63], n |-> 0]
    BY SMTT(60), <1>4 DEF Opcodes, Byte
  <2> QED BY <1>4, <2>1, RowNames DEF Special
<1>5. CASE b \in 80..95
  <2>1. Opcodes[b] = [name |-> Row5[b - 79], n |-> 0]
    BY SMTT(60), <1>5 DEF Opcodes, Byte
  <2> QED BY <1>5, <2>1, RowNames DEF Special
<1>6. CASE b \in 240..245
  <2>1. Opcodes[b] = [name |-> RowF[b - 239], n |-> 0]
    BY SMTT(60), <1>6 DEF Opcodes, Byte
  <2> QED BY <1>6, <2>1, RowNames DEF Special
<1>7. CASE b \in 96..127
  <2>1. Opcodes[b] = [name |-> "PUSH", n |-> b - 95]
    BY SMTT(60), <1>7 DEF Opcodes, Byte
  <2> QED BY <1>7, <2>1
<1>8. CASE b \in 128..143
  <2>1. Opcodes[b] = [name |-> "DUP", n |-> b - 127]
    BY SMTT(60), <1>8 DEF Opcodes, Byte
  <2> QED BY <1>8, <2>1
<1>9. CASE b \in 144..159
  <2>1. Opcodes[b] = [name |-> "SWAP", n |-> b - 143]
    BY SMTT(60), <1>9 DEF Opcodes, Byte
  <2> QED BY <1>9, <2>1
<1>10. CASE b \in 160..164
  <2>1. Opcodes[b] = [name |-> "LOG", n |-> b - 160]
    BY SMTT(60), <1>10 DEF Opcodes, Byte
  <2> QED BY <1>10, <2>1
<1>11. CASE b \notin 0..11 \cup 16..30 \cup 48..63 \cup 64..74 \cup 80..95 \cup 96..127
                    \cup 128..143 \cup 144..159 \cup 160..164 \cup 240..245
  <2>1. \/ Opcodes[b] = [name |-> "SHA3", n |-> 0]
        \/ Opcodes[b] = [name |-> "STATICCALL", n |-> 0]
        \/ Opcodes[b] = [name |-> "REVERT", n |-> 0]
        \/ Opcodes[b] = [name |-> "SELFDESTRUCT", n |-> 0]
        \/ Opcodes[b] = [name |-> "INVALID", n |-> 0]
    <3>1. CASE b = 32
      BY SMTT(60), <3>1 DEF Opcodes, Byte
    <3>2. CASE b = 250
      BY SMTT(60), <3>2 DEF Opcodes, Byte
    <3>3. CASE b = 253
      BY SMTT(60), <3>3 DEF Opcodes, Byte
    <3>4. CASE b = 255
      BY SMTT(60), <3>4 DEF Opcodes, Byte
    <3>5. CASE b \notin {32, 250, 253, 255}
      <4>1. /\ b \notin 0..11 /\ b \notin 16..30 /\ b # 32 /\ b \notin 48..63 /\ b \notin 64..74
            /\ b \notin 80..95 /\ b \notin 96..127 /\ b \notin 128..143 /\ b \notin 144..159
            /\ b \notin 160..164 /\ b \notin 240..245 /\ b # 250 /\ b # 253 /\ b # 255
        BY <1>11, <3>5
      <4>2. Opcodes[b] = [name |-> "INVALID", n |-> 0]
        BY SMTT(60), <4>1 DEF Opcodes
      <4> QED BY <4>2
    <3> QED BY <3>1, <3>2, <3>3, <3>4, <3>5
  <2>2. b # 91
    BY <1>11
  <2> QED BY <2>1, <2>2
<1> QED
  BY <1>1, <1>2, <1>3, <1>4, <1>5, <1>6, <1>7, <1>8, <1>9, <1>10, <1>11 DEF Byte
-----------------------------------------------------------------------------
(* The argument of a PUSH *)

LEMMA ArgWordType ==
  ASSUME NEW arg \in Seq(Byte)
  PROVE  ArgWord(arg) \in Nat
<1> DEFINE Digits(f, i) == IF i = 0 THEN 0 ELSE 256 * f[i - 1] + arg[i]
           Defined == {n \in Nat : \E f : f = [i \in 0..n |-> Digits(f, i)]}
           word == CHOOSE f : f = [i \in 0..Len(arg) |-> Digits(f, i)]
           Whole == {n \in Nat : n <= Len(arg) => word[n] \in Nat}
<1>1. 0 \in Defined
  <2> DEFINE f == [i \in 0..0 |-> 0]
  <2>1. f = [i \in 0..0 |-> Digits(f, i)]
    OBVIOUS
  <2> QED BY <2>1
<1>2. ASSUME NEW n \in Nat, n \in Defined
      PROVE  n + 1 \in Defined
  <2>1. PICK g : g = [i \in 0..n |-> Digits(g, i)]
    BY <1>2
  <2> DEFINE h == [i \in 0..(n + 1) |-> IF i <= n THEN g[i] ELSE Digits(g, i)]
  <2>2. ASSUME NEW i \in 0..(n + 1)
        PROVE  h[i] = Digits(h, i)
    <3>1. i # 0 => i - 1 \in 0..n /\ h[i - 1] = g[i - 1]
      OBVIOUS
    <3>2. h[i] = Digits(g, i)
      BY <2>1
    <3> QED BY <3>1, <3>2
  <2>3. h = [i \in 0..(n + 1) |-> h[i]]
    OBVIOUS
  <2>4. h = [i \in 0..(n + 1) |-> Digits(h, i)]
    <3> HIDE DEF h, Digits
    <3> QED BY <2>2, <2>3
  <2> HIDE DEF h, Digits
  <2>5. n + 1 \in Nat
    OBVIOUS
  <2> QED BY <2>4, <2>5, Zenon
<1>3. Len(arg) \in Defined
  <2> HIDE DEF Defined
  <2> QED BY <1>1, <1>2, SetInduction
<1>4. word = [i \in 0..Len(arg) |-> Digits(word, i)]
  BY <1>3
<1>5. 0 \in Whole
  <2> HIDE DEF word
  <2> QED BY <1>4
<1>6. ASSUME NEW n \in Nat, n \in Whole
      PROVE  n + 1 \in Whole
  <2> HIDE DEF word
  <2> SUFFICES ASSUME n + 1 <= Len(arg) PROVE word[n + 1] \in Nat
    OBVIOUS
  <2>1. word[n + 1] = 256 * word[n] + arg[n + 1]
    BY <1>4
  <2>2. n <= Len(arg)
    OBVIOUS
  <2>3. word[n] \in Nat
    BY <1>6, <2>2
  <2>4. arg[n + 1] \in Byte
    OBVIOUS
  <2>5. ASSUME NEW a \in Nat, NEW b \in Byte
        PROVE  256 * a + b \in Nat
    BY DEF Byte
  <2>6. 256 * word[n] + arg[n + 1] \in Nat
    BY <2>3, <2>4, <2>5, Zenon
  <2> QED BY <2>1, <2>6, Zenon
<1>7. Len(arg) \in Whole
  <2> HIDE DEF Whole
  <2> QED BY <1>5, <1>6, SetInduction
<1>8. word[Len(arg)] \in Nat
  BY <1>7
<1> QED BY <1>8 DEF ArgWord
-----------------------------------------------------------------------------
(* Memory *)

LEMMA Words32Type ==
  ASSUME NEW n \in Nat
  PROVE  Words32(n) \in Nat
  BY DEF Words32

\* More memory costs no less.
LEMMA MemCostMonotone ==
  ASSUME NEW m \in Nat, NEW n \in Nat, m <= n
  PROVE  MemCost(m) \in Nat /\ MemCost(n) \in Nat /\ MemCost(m) <= MemCost(n)
<1> DEFINE v == Words32(m)
           w == Words32(n)
<1>1. v \in Nat /\ w \in Nat /\ v <= w
  BY DEF Words32
<1> HIDE DEF v, w
<1>2. v * v \in Nat /\ w * w \in Nat /\ v * v <= w * w
  <2>1. v * v \in Nat /\ w * w \in Nat
    BY <1>1
  <2>2. v * v <= v * w
    BY <1>1
  <2>3. v * w <= w * w
    BY <1>1
  <2>4. v * w \in Nat
    BY <1>1
  <2> QED BY <2>1, <2>2, <2>3, <2>4
<1>3. \A p, q \in Nat : p <= q => p \div 512 \in Nat /\ p \div 512 <= q \div 512
  OBVIOUS
<1>4. /\ (v * v) \div 512 \in Nat /\ (w * w) \div 512 \in Nat
      /\ (v * v) \div 512 <= (w * w) \div 512
  BY <1>2, <1>3
<1>5. MemCost(m) = (v * v) \div 512 + 3 * v /\ MemCost(n) = (w * w) \div 512 + 3 * w
  BY DEF MemCost, v, w
<1> QED BY <1>1, <1>4, <1>5

\* The memory grows in whole words, never shrinks, and reaches the end it is grown to.
LEMMA GrownFacts ==
  ASSUME evm.memory \in Nat, NEW end \in Nat
  PROVE  /\ Grown(end) \in Nat
         /\ Grown(end) >= evm.memory
         /\ evm.memory % 32 = 0 => Grown(end) % 32 = 0
<1> DEFINE padded == end + ((32 - (end % 32)) % 32)
<1>1. padded \in Nat /\ padded >= end /\ padded % 32 = 0
  OBVIOUS
<1> QED BY <1>1 DEF Grown

LEMMA ExpansionFacts ==
  ASSUME evm.memory \in Nat, evm.mem_cost = MemCost(evm.memory), NEW end \in Nat
  PROVE  /\ Expansion(Grown(end)) \in Nat
         /\ Expansion(Grown(end)) = MemCost(Grown(end)) - MemCost(evm.memory)
         /\ MemCost(Grown(end)) \in Nat /\ MemCost(evm.memory) \in Nat
<1>1. Grown(end) \in Nat /\ Grown(end) >= evm.memory
  BY GrownFacts
<1>2. /\ MemCost(evm.memory) \in Nat /\ MemCost(Grown(end)) \in Nat
      /\ MemCost(evm.memory) <= MemCost(Grown(end))
  BY <1>1, MemCostMonotone
<1> QED BY <1>2 DEF Expansion

-----------------------------------------------------------------------------
(* The shape of a step *)

EvmType ==
  [ status: {"decoding", "running", "stopped", "reverted", "panicked"},
    pc: Nat, stack: Seq(Nat), memory: Nat, mem_cost: Nat, used: Nat, limit: Nat,
    callType: CallTypes ]

RetType == [size: Nat, from: {"self", "callee"}]

\* The memory is whole, counted and paid within the limit unless the frame has failed.
Counted(e) ==
  /\ e.used <= e.limit
  /\ e.status \in {"decoding", "running", "stopped"} =>
       e.memory % 32 = 0 /\ e.mem_cost = MemCost(e.memory)

\* What TypeOK and MemoryCounted say of the frame.
FrameOK ==
  /\ evm \in EvmType /\ ret \in RetType
  /\ Len(evm.stack) <= StackLimit
  /\ evm.pc <= Len(instructions)
  /\ Counted(evm)

\* Where an opcode goes on.
Landing(pc) ==
  \/ pc = evm.pc + 1
  \/ IsJumpdest(pc) /\ instructions[pc + 1].offset = Arg(1)
  \/ pc = 0 /\ Arg(1) = 0 /\ Instruction.op.name = "JUMPI"

\* A step of a frame that does not fail.
Proceeds ==
  /\ evm' \in EvmType /\ ret' \in RetType
  /\ Len(evm'.stack) <= StackLimit
  /\ evm'.pc <= Len(instructions)
  /\ Counted(evm')
  /\ MemCost(evm'.memory) - MemCost(evm.memory) <= evm'.used - evm.used
  /\ evm'.status = "running" => Landing(evm'.pc)
  /\ evm'.status # "decoding"

\* A step of a frame is one that proceeds, a failure or a panic.
FrameStep == Proceeds \/ (\E m \in Nat : Fail(m)) \/ Panic

LEMMA AdvanceProceeds ==
  ASSUME FrameOK, Running,
         NEW stack \in Seq(Nat), Len(stack) <= StackLimit,
         NEW pc \in Nat, pc <= Len(instructions),
         NEW m \in Nat, m % 32 = 0,
         NEW cost \in Nat, MemCost(m) - MemCost(evm.memory) <= cost, cost <= Remaining,
         MemCost(m) \in Nat, MemCost(evm.memory) \in Nat,
         NEW status \in {"running", "stopped", "reverted"},
         status = "running" => Landing(pc),
         evm' = [evm EXCEPT !.stack = stack, !.pc = pc, !.memory = m, !.mem_cost = MemCost(m),
                            !.used = @ + cost, !.status = status],
         ret' \in RetType
  PROVE  Proceeds
<1>1. /\ evm'.stack = stack /\ evm'.pc = pc /\ evm'.memory = m /\ evm'.mem_cost = MemCost(m)
      /\ evm'.used = evm.used + cost /\ evm'.status = status /\ evm'.limit = evm.limit
  BY DEF FrameOK, EvmType
<1>2. evm' \in EvmType
  <2>1. evm' = [status |-> status, pc |-> pc, stack |-> stack, memory |-> m,
                mem_cost |-> MemCost(m), used |-> evm.used + cost, limit |-> evm.limit,
                callType |-> evm.callType]
    BY DEF FrameOK, EvmType
  <2>2. evm.used + cost \in Nat /\ evm.limit \in Nat /\ evm.callType \in CallTypes
    BY DEF FrameOK, EvmType
  <2>3. status \in {"decoding", "running", "stopped", "reverted", "panicked"}
    OBVIOUS
  <2> QED BY <2>1, <2>2, <2>3 DEF EvmType
<1>3. evm.used + cost <= evm.limit
  BY DEF FrameOK, EvmType, Remaining
<1>4. Counted(evm')
  BY <1>1, <1>3 DEF Counted
<1>5. evm'.used - evm.used = cost
  BY <1>1 DEF FrameOK, EvmType
<1>6. evm'.status # "decoding"
  BY <1>1
<1> QED BY <1>1, <1>2, <1>4, <1>5, <1>6 DEF Proceeds

LEMMA ContinueSteps ==
  ASSUME FrameOK, Running,
         NEW stack \in Seq(Nat), Len(stack) <= StackLimit,
         NEW pc \in Nat, pc <= Len(instructions), Landing(pc),
         NEW cost \in Nat,
         Continue(stack, pc, cost)
  PROVE  FrameStep
<1>1. CASE cost <= Remaining
  <2>1. evm.memory \in Nat /\ evm.memory % 32 = 0 /\ evm.mem_cost = MemCost(evm.memory)
    BY DEF FrameOK, EvmType, Counted, Running
  <2>2. MemCost(evm.memory) \in Nat
    <3>1. evm.memory <= evm.memory
      BY <2>1
    <3> QED BY <2>1, <3>1, MemCostMonotone
  <2>3. evm' = [evm EXCEPT !.stack = stack, !.pc = pc, !.memory = evm.memory,
                           !.mem_cost = MemCost(evm.memory), !.used = @ + cost,
                           !.status = "running"]
    BY <1>1, <2>1 DEF Continue, Charge, FrameOK, EvmType, Running
  <2>4. ret' \in RetType
    BY <1>1 DEF Continue, FrameOK
  <2>5. MemCost(evm.memory) - MemCost(evm.memory) <= cost
    BY <2>2
  <2>6. Proceeds
    BY <1>1, <2>1, <2>2, <2>3, <2>4, <2>5, AdvanceProceeds
  <2> QED BY <2>6 DEF FrameStep
<1>2. CASE ~(cost <= Remaining)
  BY <1>2 DEF Continue, FrameStep, FrameOK, EvmType
<1> QED BY <1>1, <1>2

\* An opcode that pays at least for the memory it grows, and is done or goes on.
LEMMA GrownProceeds ==
  ASSUME FrameOK, Running,
         NEW stack \in Seq(Nat), Len(stack) <= StackLimit,
         NEW end \in Nat,
         NEW total \in Nat, Expansion(Grown(end)) <= total, total <= Remaining,
         NEW status \in {"running", "stopped", "reverted"},
         evm' = Charge([Resized(Grown(end)) EXCEPT !.stack = stack, !.pc = @ + 1,
                                                   !.status = status], total),
         ret' \in RetType
  PROVE  Proceeds
<1> DEFINE m == Grown(end)
<1>1. evm.memory \in Nat /\ evm.memory % 32 = 0 /\ evm.mem_cost = MemCost(evm.memory)
  BY DEF FrameOK, EvmType, Counted, Running
<1>2. /\ Expansion(m) = MemCost(m) - MemCost(evm.memory)
      /\ MemCost(m) \in Nat /\ MemCost(evm.memory) \in Nat
  BY <1>1, ExpansionFacts
<1>3. m \in Nat /\ m % 32 = 0
  BY <1>1, GrownFacts
<1> HIDE DEF m
<1>4. evm' = [evm EXCEPT !.stack = stack, !.pc = evm.pc + 1, !.memory = m,
                         !.mem_cost = MemCost(m), !.used = @ + total, !.status = status]
  BY DEF Charge, Resized, FrameOK, EvmType, m
<1>5. evm.pc + 1 \in Nat /\ evm.pc + 1 <= Len(instructions)
  BY DEF FrameOK, EvmType, Running
<1>6. Landing(evm.pc + 1)
  BY DEF Landing
<1>7. MemCost(m) - MemCost(evm.memory) <= total
  BY <1>2 DEF m
<1> QED BY <1>2, <1>3, <1>4, <1>5, <1>6, <1>7, AdvanceProceeds

LEMMA ContinueGrownSteps ==
  ASSUME FrameOK, Running,
         NEW stack \in Seq(Nat), Len(stack) <= StackLimit,
         NEW end \in Nat, NEW cost \in Nat,
         ContinueGrown(stack, Grown(end), cost)
  PROVE  FrameStep
<1>1. evm.memory \in Nat /\ evm.mem_cost = MemCost(evm.memory)
  BY DEF FrameOK, EvmType, Counted, Running
<1>2. Expansion(Grown(end)) \in Nat /\ Grown(end) \in Nat
  BY <1>1, ExpansionFacts, GrownFacts
<1> DEFINE total == cost + Expansion(Grown(end))
<1>3. total \in Nat /\ Expansion(Grown(end)) <= total
  BY <1>2
<1>4. CASE total <= Remaining
  <2>1. evm' = Charge([Resized(Grown(end)) EXCEPT !.stack = stack, !.pc = @ + 1], total)
    BY <1>4 DEF ContinueGrown
  <2>2. evm' = Charge([Resized(Grown(end)) EXCEPT !.stack = stack, !.pc = @ + 1,
                                                  !.status = "running"], total)
    BY <2>1 DEF Charge, Resized, FrameOK, EvmType, Running
  <2>3. ret' \in RetType
    BY <1>4 DEF ContinueGrown, FrameOK
  <2>4. Proceeds
    <3> HIDE DEF total
    <3> QED BY <1>3, <1>4, <2>2, <2>3, GrownProceeds
  <2> QED BY <2>4 DEF FrameStep
<1>5. CASE ~(total <= Remaining)
  <2>1. Fail(Grown(end))
    BY <1>5 DEF ContinueGrown
  <2> QED BY <2>1, <1>2 DEF FrameStep
<1> QED BY <1>4, <1>5

\* The words an opcode takes from the stack are there, and so is the rest of it.
LEMMA Operand ==
  ASSUME FrameOK, NEW n \in Nat, HasArgs(n)
  PROVE  /\ \A i \in 1..n : Arg(i) \in Nat
         /\ Drop(n) \in Seq(Nat) /\ Len(Drop(n)) = Len(evm.stack) - n
         /\ \A w \in Nat : /\ Append(Drop(n), w) \in Seq(Nat)
                           /\ Len(Append(Drop(n), w)) = Len(evm.stack) - n + 1
<1>1. evm.stack \in Seq(Nat) /\ Len(evm.stack) \in Nat
  BY DEF FrameOK, EvmType
<1>2. ASSUME NEW i \in 1..n
      PROVE  Arg(i) \in Nat
  <2>1. Len(evm.stack) + 1 - i \in 1..Len(evm.stack)
    BY <1>1 DEF HasArgs
  <2> QED BY <1>1, <2>1 DEF Arg
<1>3. Len(evm.stack) - n \in 0..Len(evm.stack)
  BY <1>1 DEF HasArgs
<1>4. Drop(n) \in Seq(Nat) /\ Len(Drop(n)) = Len(evm.stack) - n
  BY <1>1, <1>3 DEF Drop
<1>5. ASSUME NEW w \in Nat
      PROVE  /\ Append(Drop(n), w) \in Seq(Nat)
             /\ Len(Append(Drop(n), w)) = Len(evm.stack) - n + 1
  <2> HIDE DEF Drop
  <2> QED BY <1>4
<1> QED BY <1>2, <1>4, <1>5

LEMMA FailSteps ==
  ASSUME FrameOK
  PROVE  /\ Fail(evm.memory) => FrameStep
         /\ \A end \in Nat : Fail(Grown(end)) => FrameStep
         /\ Panic => FrameStep
<1>1. evm.memory \in Nat
  BY DEF FrameOK, EvmType
<1>2. \A end \in Nat : Grown(end) \in Nat
  BY <1>1, GrownFacts
<1> QED BY <1>1, <1>2, Zenon DEF FrameStep

-----------------------------------------------------------------------------
(* The opcodes *)

InstructionType == [op: Opcode, offset: Nat, arg: Seq(Byte)]

DecoderType ==
  /\ bytecode \in Seq(Byte)
  /\ pos \in 0..Len(bytecode)
  /\ instructions \in Seq(InstructionType)
  /\ jumptable \in Seq(Nat \X Nat)

LEMMA InstructionFacts ==
  ASSUME FrameOK, DecoderType, Running
  PROVE  /\ Instruction \in InstructionType
         /\ Instruction.op.n \in 0..32
         /\ Instruction.op.name \in {"PUSH", "DUP", "SWAP"} => Instruction.op.n \in 1..32
         /\ evm.pc \in Nat /\ evm.pc + 1 \in Nat /\ evm.pc + 1 <= Len(instructions)
         /\ Landing(evm.pc + 1)
<1>1. evm.pc \in Nat /\ evm.pc + 1 \in 1..Len(instructions)
  BY DEF FrameOK, EvmType, Running, DecoderType
<1>2. Instruction \in InstructionType
  BY <1>1 DEF Instruction, DecoderType
<1>3. PICK b \in Byte : Instruction.op = Opcodes[b]
  BY <1>2 DEF InstructionType, Opcode
<1> QED BY <1>1, <1>2, <1>3, OpcodeFacts DEF Landing

Simple == Nullary \cup Unary \cup Binary \cup Ternary \cup Silent

LEMMA TakenType ==
  ASSUME NEW name \in Simple
  PROVE  Taken(name) \in 0..3
<1>1. CASE name \in Nullary
  BY <1>1 DEF Taken
<1>2. CASE name \in Unary \cup {"POP"}
  BY <1>2 DEF Taken, Unary, Nullary
<1>3. CASE name \in Binary \cup {"TSTORE", "SSTORE"}
  BY <1>3 DEF Taken, Binary, Unary, Nullary
<1>4. CASE name \in Ternary
  BY <1>4 DEF Taken, Ternary, Binary, Unary, Nullary
<1> QED BY <1>1, <1>2, <1>3, <1>4 DEF Simple, Silent

LEMMA CostsType ==
  ASSUME NEW name
  PROVE  Costs(name) \subseteq Nat /\ Costs("GAS") = {2}
<1>1. AccessCosts \subseteq Nat
  BY AmountsAssumption
<1>2. {10 + 50 * n : n \in 0..32} \subseteq Nat
  OBVIOUS
<1>3. Costs(name) \subseteq Nat
  BY <1>1, <1>2 DEF Costs
<1>4. Costs("GAS") = {2}
  BY DEF Costs, Nullary, Ternary
<1> QED BY <1>3, <1>4

LEMMA ComputeSteps ==
  ASSUME FrameOK, DecoderType, NEW word \in Words, Compute(word)
  PROVE  FrameStep
<1> DEFINE name == Instruction.op.name
           rest == Drop(Taken(name))
           result == IF name \in Silent THEN rest ELSE Append(rest, Result(name, word))
<1>1. Running /\ name \in Simple
  BY DEF Compute, At, Simple
<1>2. PICK cost \in Costs(name) :
           IF ~ (HasArgs(Taken(name)) /\ (name \notin Silent => HasRoom(rest)))
           THEN Fail(evm.memory)
           ELSE IF Undefined(name) /\ cost <= Remaining
           THEN Panic
           ELSE Continue(result, evm.pc + 1, cost)
  BY DEF Compute
<1>3. Taken(name) \in 0..3 /\ Taken(name) \in Nat
  BY <1>1, TakenType
<1>4. cost \in Nat
  BY <1>2, CostsType
<1>5. CASE ~ (HasArgs(Taken(name)) /\ (name \notin Silent => HasRoom(rest)))
  BY <1>2, <1>5, FailSteps
<1>6. CASE Panic
  BY <1>6, FailSteps
<1>7. ASSUME HasArgs(Taken(name)), name \notin Silent => HasRoom(rest),
             Continue(result, evm.pc + 1, cost)
      PROVE  FrameStep
  <2>1. CASE ~(cost <= Remaining)
    <3>1. Fail(evm.memory)
      BY <1>7, <2>1 DEF Continue
    <3> QED BY <3>1, FailSteps
  <2>2. CASE cost <= Remaining
    <3>1. rest \in Seq(Nat) /\ Len(rest) = Len(evm.stack) - Taken(name)
      BY <1>3, <1>7, Operand
    <3>2. Result(name, word) \in Nat
      <4>1. /\ Instruction.offset \in Nat /\ evm.memory \in Nat /\ Len(bytecode) \in Nat
            /\ ret.size \in Nat /\ word \in Nat
        <5>1. Instruction.offset \in Nat
          BY <1>1, InstructionFacts DEF InstructionType
        <5>2. evm.memory \in Nat /\ ret.size \in Nat
          BY DEF FrameOK, EvmType, RetType
        <5>3. Len(bytecode) \in Nat
          BY DEF DecoderType
        <5>4. word \in Nat
          BY AmountsAssumption
        <5> QED BY <5>1, <5>2, <5>3, <5>4
      <4>2. name = "GAS" => Remaining - 2 \in Nat
        <5> SUFFICES ASSUME name = "GAS" PROVE Remaining - 2 \in Nat
          OBVIOUS
        <5>1. cost = 2
          BY <1>2, CostsType
        <5>2. Remaining \in Int
          BY DEF Remaining, FrameOK, EvmType
        <5> QED BY <5>1, <5>2, <2>2
      <4> HIDE DEF name
      <4> QED BY <4>1, <4>2 DEF Result
    <3>3. result \in Seq(Nat) /\ Len(result) <= StackLimit
      <4> HIDE DEF name, rest
      <4>1. Len(evm.stack) \in Nat /\ Len(evm.stack) <= StackLimit /\ StackLimit \in Nat
        BY AmountsAssumption DEF FrameOK, EvmType
      <4>2. CASE name \in Silent
        BY <4>1, <4>2, <3>1, <1>3
      <4>3. CASE name \notin Silent
        <5>1. Len(rest) < StackLimit
          BY <4>3, <1>7 DEF HasRoom, rest
        <5> QED BY <4>1, <4>3, <5>1, <3>1, <3>2
      <4> QED BY <4>2, <4>3
    <3> HIDE DEF result
    <3> QED BY <1>1, <1>4, <1>7, <3>3, InstructionFacts, ContinueSteps
  <2> QED BY <2>1, <2>2
<1> QED BY <1>2, <1>5, <1>6, <1>7

LEMMA RefusedSteps ==
  ASSUME FrameOK, Refused \/ INVALID
  PROVE  FrameStep
  BY FailSteps DEF Refused, INVALID

LEMMA PUSHSteps ==
  ASSUME FrameOK, DecoderType, PUSH
  PROVE  FrameStep
<1>1. Running
  BY DEF PUSH, At
<1>2. CASE HasRoom(evm.stack)
  <2>1. ArgWord(Instruction.arg) \in Nat
    BY <1>1, InstructionFacts, ArgWordType DEF InstructionType
  <2> DEFINE stack == Append(evm.stack, ArgWord(Instruction.arg))
  <2>2. stack \in Seq(Nat) /\ Len(stack) <= StackLimit
    BY <1>2, <2>1, AmountsAssumption DEF HasRoom, FrameOK, EvmType
  <2>3. Continue(stack, evm.pc + 1, 3)
    BY <1>2 DEF PUSH
  <2> HIDE DEF stack
  <2> QED BY <1>1, <2>2, <2>3, InstructionFacts, ContinueSteps
<1>3. CASE ~HasRoom(evm.stack)
  BY <1>3, FailSteps DEF PUSH
<1> QED BY <1>2, <1>3

LEMMA StackFacts ==
  ASSUME FrameOK
  PROVE  /\ evm.stack \in Seq(Nat) /\ Len(evm.stack) \in Nat
         /\ Len(evm.stack) <= StackLimit /\ StackLimit \in Nat
  BY AmountsAssumption DEF FrameOK, EvmType

LEMMA DUPSteps ==
  ASSUME FrameOK, DecoderType, DUP
  PROVE  FrameStep
<1> DEFINE n == Instruction.op.n
           stack == Append(evm.stack, Arg(n))
<1>1. Running /\ n \in 1..32
  BY InstructionFacts DEF DUP, At
<1>2. CASE HasArgs(n) /\ HasRoom(evm.stack)
  <2>1. Arg(n) \in Nat
    <3> HIDE DEF n
    <3>1. n \in Nat /\ n \in 1..n
      BY <1>1
    <3> QED BY <3>1, <1>2, Operand
  <2>2. stack \in Seq(Nat) /\ Len(stack) <= StackLimit
    BY <1>2, <2>1, StackFacts DEF HasRoom
  <2>3. Continue(stack, evm.pc + 1, 3)
    BY <1>2 DEF DUP
  <2> HIDE DEF stack
  <2> QED BY <1>1, <2>2, <2>3, InstructionFacts, ContinueSteps
<1>3. CASE ~(HasArgs(n) /\ HasRoom(evm.stack))
  BY <1>3, FailSteps DEF DUP
<1> QED BY <1>2, <1>3

LEMMA SWAPSteps ==
  ASSUME FrameOK, DecoderType, SWAP
  PROVE  FrameStep
<1> DEFINE n == Instruction.op.n
           top == Len(evm.stack)
           stack == [evm.stack EXCEPT ![top] = Arg(n + 1), ![top - n] = Arg(1)]
<1>1. Running /\ n \in 1..32
  BY InstructionFacts DEF SWAP, At
<1>2. CASE HasArgs(n + 1)
  <2>1. Arg(n + 1) \in Nat /\ Arg(1) \in Nat
    <3> HIDE DEF n
    <3>1. n + 1 \in Nat /\ n + 1 \in 1..(n + 1) /\ 1 \in 1..(n + 1)
      BY <1>1
    <3> QED BY <3>1, <1>2, Operand
  <2>2. stack \in Seq(Nat) /\ Len(stack) = Len(evm.stack)
    <3> DEFINE half == [evm.stack EXCEPT ![top] = Arg(n + 1)]
    <3>1. top \in 1..Len(evm.stack) /\ top - n \in 1..Len(evm.stack)
      <4> HIDE DEF n
      <4>1. Len(evm.stack) \in Nat /\ Len(evm.stack) >= n + 1
        BY <1>2, StackFacts DEF HasArgs
      <4> QED BY <1>1, <4>1
    <3>2. half \in Seq(Nat) /\ Len(half) = Len(evm.stack)
      BY <2>1, <3>1, StackFacts, ExceptSeq
    <3>3. stack = [half EXCEPT ![top - n] = Arg(1)]
      OBVIOUS
    <3> HIDE DEF half, stack
    <3> QED BY <2>1, <3>1, <3>2, <3>3, ExceptSeq
  <2>3. Len(stack) <= StackLimit
    BY <2>2, StackFacts
  <2>4. Continue(stack, evm.pc + 1, 3)
    BY <1>2 DEF SWAP
  <2> HIDE DEF stack
  <2> QED BY <1>1, <2>2, <2>3, <2>4, InstructionFacts, ContinueSteps
<1>3. CASE ~HasArgs(n + 1)
  BY <1>3, FailSteps DEF SWAP
<1> QED BY <1>2, <1>3

LEMMA JUMPDESTSteps ==
  ASSUME FrameOK, DecoderType, JUMPDEST
  PROVE  FrameStep
<1>1. Running /\ Continue(evm.stack, evm.pc + 1, 1)
  BY DEF JUMPDEST, At
<1> QED BY <1>1, StackFacts, InstructionFacts, ContinueSteps

\* A resolved jump leads to the first instruction or to the JUMPDEST at its offset.
LEMMA Resolved ==
  ASSUME DecoderType, JumpTable, NEW offset \in Nat, ResolveJump(offset) # NoTarget
  PROVE  /\ ResolveJump(offset) \in Nat
         /\ \/ /\ IsJumpdest(ResolveJump(offset))
               /\ instructions[ResolveJump(offset) + 1].offset = offset
            \/ ResolveJump(offset) = 0 /\ offset = 0
<1>1. CASE offset = 0
  BY <1>1 DEF ResolveJump
<1>2. CASE offset # 0
  <2> DEFINE i == CHOOSE i \in DOMAIN jumptable : jumptable[i][1] = offset
  <2>1. \E k \in DOMAIN jumptable : jumptable[k][1] = offset
    BY <1>2 DEF ResolveJump
  <2>2. i \in DOMAIN jumptable /\ jumptable[i][1] = offset
    BY <2>1
  <2>3. ResolveJump(offset) = jumptable[i][2]
    BY <1>2, <2>1 DEF ResolveJump
  <2> HIDE DEF i
  <2>4. jumptable[i] \in Nat \X Nat
    BY <2>2 DEF DecoderType
  <2>5. jumptable[i][2] \in Nat
    BY <2>4
  <2>6. /\ jumptable[i][2] + 1 \in DOMAIN instructions
        /\ instructions[jumptable[i][2] + 1].offset = offset
        /\ instructions[jumptable[i][2] + 1].op.name = "JUMPDEST"
    BY <2>2 DEF JumpTable
  <2>7. jumptable[i][2] < Len(instructions)
    BY <2>5, <2>6 DEF DecoderType
  <2> QED BY <2>3, <2>5, <2>6, <2>7 DEF IsJumpdest
<1> QED BY <1>1, <1>2

\* The decoder starts at the first byte.
FirstAtZero ==
  IF instructions = <<>> THEN pos = 0 ELSE instructions[1].offset = 0

LEMMA JUMPSteps ==
  ASSUME FrameOK, DecoderType, JumpTable, FirstAtZero, JUMP
  PROVE  FrameStep
<1> DEFINE dest == ResolveJump(Arg(1))
<1>1. Running
  BY DEF JUMP, At
<1>2. CASE HasArgs(1) /\ dest # NoTarget /\ IsJumpdest(dest)
  <2>1. Arg(1) \in Nat
    BY <1>2, Operand
  <2>2. Drop(1) \in Seq(Nat) /\ Len(Drop(1)) <= StackLimit
    BY <1>2, Operand, StackFacts
  <2>3. dest \in Nat
    BY <1>2, <2>1, Resolved
  <2>4. dest <= Len(instructions)
    BY <1>2, <2>3 DEF IsJumpdest, DecoderType
  <2>5. Landing(dest)
    <3>1. CASE Arg(1) # 0
      BY <1>2, <2>1, <3>1, Resolved DEF Landing
    <3>2. CASE Arg(1) = 0
      <4>1. dest = 0
        BY <3>2 DEF ResolveJump
      <4>2. instructions[dest + 1].offset = 0
        BY <4>1, <1>2 DEF FirstAtZero, IsJumpdest, DecoderType
      <4> QED BY <3>2, <4>2, <1>2 DEF Landing
    <3> QED BY <3>1, <3>2
  <2>6. Continue(Drop(1), dest, 8)
    BY <1>2 DEF JUMP
  <2> HIDE DEF dest
  <2> QED BY <1>1, <2>2, <2>3, <2>4, <2>5, <2>6, ContinueSteps
<1>3. CASE ~(HasArgs(1) /\ dest # NoTarget /\ IsJumpdest(dest))
  BY <1>3, FailSteps DEF JUMP
<1> QED BY <1>2, <1>3

LEMMA JUMPISteps ==
  ASSUME FrameOK, DecoderType, JumpTable, FirstAtZero, JUMPI
  PROVE  FrameStep
<1> DEFINE dest == ResolveJump(Arg(1))
           taken == Arg(2) # 0
           pc == IF taken THEN dest ELSE evm.pc + 1
<1>1. Running /\ Instruction.op.name = "JUMPI"
  BY DEF JUMPI, At
<1>2. CASE HasArgs(2) /\ (taken => dest # NoTarget /\ (IsJumpdest(dest) \/ dest = 0))
  <2>1. Arg(1) \in Nat
    BY <1>2, Operand
  <2>2. Drop(2) \in Seq(Nat) /\ Len(Drop(2)) <= StackLimit
    BY <1>2, Operand, StackFacts
  <2>3. pc \in Nat /\ pc <= Len(instructions) /\ Landing(pc)
    <3>1. CASE ~taken
      BY <1>1, <3>1, InstructionFacts
    <3>2. CASE taken
      <4>1. /\ dest \in Nat
            /\ \/ IsJumpdest(dest) /\ instructions[dest + 1].offset = Arg(1)
               \/ dest = 0 /\ Arg(1) = 0
        BY <1>2, <2>1, <3>2, Resolved
      <4>2. dest <= Len(instructions)
        BY <1>2, <3>2, <4>1 DEF IsJumpdest, DecoderType
      <4>3. Landing(dest)
        BY <1>1, <4>1 DEF Landing
      <4> HIDE DEF dest
      <4> QED BY <3>2, <4>1, <4>2, <4>3
    <3> QED BY <3>1, <3>2
  <2>4. Continue(Drop(2), pc, 10)
    BY <1>2 DEF JUMPI
  <2> HIDE DEF pc
  <2> QED BY <1>1, <2>2, <2>3, <2>4, ContinueSteps
<1>3. CASE ~(HasArgs(2) /\ (taken => dest # NoTarget /\ (IsJumpdest(dest) \/ dest = 0)))
  BY <1>3, FailSteps DEF JUMPI
<1> QED BY <1>2, <1>3

LEMMA MLOADSteps ==
  ASSUME FrameOK, DecoderType, NEW word \in Words, MLOAD(word)
  PROVE  FrameStep
<1> DEFINE end == Arg(1) + 32
           stack == Append(Drop(1), word)
<1>1. Running
  BY DEF MLOAD, At
<1>2. CASE HasArgs(1) /\ CanGrow(end)
  <2>1. end \in Nat
    BY <1>2, Operand
  <2>2. stack \in Seq(Nat) /\ Len(stack) <= StackLimit
    BY <1>2, Operand, StackFacts, AmountsAssumption
  <2>3. ContinueGrown(stack, Grown(end), 3)
    BY <1>2 DEF MLOAD
  <2> HIDE DEF stack, end
  <2> QED BY <1>1, <2>1, <2>2, <2>3, ContinueGrownSteps
<1>3. CASE ~(HasArgs(1) /\ CanGrow(end))
  BY <1>3, FailSteps DEF MLOAD
<1> QED BY <1>2, <1>3

LEMMA MSTORESteps ==
  ASSUME FrameOK, DecoderType, MSTORE
  PROVE  FrameStep
<1> DEFINE end == Arg(1) + (IF Instruction.op.name = "MSTORE" THEN 32 ELSE 1)
<1>1. Running
  BY DEF MSTORE, At
<1>2. CASE HasArgs(2) /\ CanGrow(end)
  <2>1. end \in Nat
    BY <1>2, Operand
  <2>2. Drop(2) \in Seq(Nat) /\ Len(Drop(2)) <= StackLimit
    BY <1>2, Operand, StackFacts
  <2>3. ContinueGrown(Drop(2), Grown(end), 3)
    BY <1>2 DEF MSTORE
  <2> HIDE DEF end
  <2> QED BY <1>1, <2>1, <2>2, <2>3, ContinueGrownSteps
<1>3. CASE ~(HasArgs(2) /\ CanGrow(end))
  BY <1>3, FailSteps DEF MSTORE
<1> QED BY <1>2, <1>3

LEMMA CopySteps ==
  ASSUME FrameOK, DecoderType, NEW access \in AccessCosts, Copy(access)
  PROVE  FrameStep
<1> DEFINE name == Instruction.op.name
           first == IF name = "EXTCODECOPY" THEN 2 ELSE 1
           end == Arg(first) + Arg(first + 2)
           source == Arg(first + 1) + Arg(first + 2)
           base == IF name = "EXTCODECOPY" THEN access ELSE 3
           cost == base + 3 * Words32(Arg(first + 2))
<1>1. Running
  BY DEF Copy, At
<1>2. first + 2 \in Nat /\ first \in 1..(first + 2) /\ first + 2 \in 1..(first + 2)
  OBVIOUS
<1>3. CASE HasArgs(first + 2) /\ CanGrow(end)
  <2> HIDE DEF first
  <2>1. Arg(first) \in Nat /\ Arg(first + 2) \in Nat
    BY <1>2, <1>3, Operand
  <2>2. Drop(first + 2) \in Seq(Nat) /\ Len(Drop(first + 2)) <= StackLimit
    BY <1>2, <1>3, Operand, StackFacts
  <2>3. end \in Nat /\ cost \in Nat
    <3>1. access \in Nat
      BY AmountsAssumption
    <3>2. Words32(Arg(first + 2)) \in Nat
      BY <2>1, Words32Type
    <3> QED BY <2>1, <3>1, <3>2
  <2>4. ContinueGrown(Drop(first + 2), Grown(end), cost) \/ Fail(Grown(end))
    BY <1>3 DEF Copy, first
  <2> HIDE DEF end, cost
  <2> QED BY <1>1, <2>2, <2>3, <2>4, ContinueGrownSteps, FailSteps
<1>4. CASE ~(HasArgs(first + 2) /\ CanGrow(end))
  BY <1>4, FailSteps DEF Copy
<1> QED BY <1>3, <1>4

LEMMA EndType ==
  ASSUME NEW offset \in Nat, NEW size \in Nat
  PROVE  End(offset, size) \in Nat
  BY DEF End

LEMMA CALLDATACOPYSteps ==
  ASSUME FrameOK, DecoderType, CALLDATACOPY
  PROVE  FrameStep
<1> DEFINE end == End(Arg(1), Arg(3))
           cost == 3 + 3 * Words32(Arg(3))
<1>1. Running
  BY DEF CALLDATACOPY, At
<1>2. CASE HasArgs(3) /\ CanGrow(end)
  <2>1. end \in Nat /\ cost \in Nat
    <3>1. Arg(1) \in Nat /\ Arg(3) \in Nat
      BY <1>2, Operand
    <3>2. Words32(Arg(3)) \in Nat
      BY <3>1, Words32Type
    <3>3. End(Arg(1), Arg(3)) \in Nat
      BY <3>1, EndType
    <3> QED BY <3>2, <3>3
  <2>2. Drop(3) \in Seq(Nat) /\ Len(Drop(3)) <= StackLimit
    BY <1>2, Operand, StackFacts
  <2>3. ContinueGrown(Drop(3), Grown(end), cost) \/ Fail(Grown(end))
    BY <1>2 DEF CALLDATACOPY
  <2> HIDE DEF end, cost
  <2> QED BY <1>1, <2>1, <2>2, <2>3, ContinueGrownSteps, FailSteps
<1>3. CASE ~(HasArgs(3) /\ CanGrow(end))
  BY <1>3, FailSteps DEF CALLDATACOPY
<1> QED BY <1>2, <1>3

LEMMA MCOPYSteps ==
  ASSUME FrameOK, DecoderType, MCOPY
  PROVE  FrameStep
<1> DEFINE end == Most(End(Arg(1), Arg(3)), End(Arg(2), Arg(3)))
           cost == 3 + 3 * Words32(Arg(3))
           able == HasArgs(3) /\ cost <= Remaining
                   /\ (end > evm.memory => End(Arg(1), Arg(3)) <= AllocLimit)
<1>1. Running
  BY DEF MCOPY, At
<1>2. CASE able
  <2>1. end \in Nat /\ cost \in Nat
    <3>1. Arg(1) \in Nat /\ Arg(2) \in Nat /\ Arg(3) \in Nat
      BY <1>2, Operand
    <3>2. Words32(Arg(3)) \in Nat
      BY <3>1, Words32Type
    <3>3. End(Arg(1), Arg(3)) \in Nat /\ End(Arg(2), Arg(3)) \in Nat
      BY <3>1, EndType
    <3> QED BY <3>2, <3>3 DEF Most
  <2>2. Drop(3) \in Seq(Nat) /\ Len(Drop(3)) <= StackLimit
    BY <1>2, Operand, StackFacts
  <2>3. ContinueGrown(Drop(3), Grown(end), cost)
    BY <1>2 DEF MCOPY
  <2> HIDE DEF end, cost
  <2> QED BY <1>1, <2>1, <2>2, <2>3, ContinueGrownSteps
<1>3. CASE ~able
  BY <1>3, FailSteps DEF MCOPY
<1> QED BY <1>2, <1>3

LEMMA SHA3Steps ==
  ASSUME FrameOK, DecoderType, NEW word \in Words, SHA3(word)
  PROVE  FrameStep
<1> DEFINE stack == Append(Drop(2), word)
           cost == 30 + 6 * Words32(Arg(2))
<1>1. Running
  BY DEF SHA3, At
<1>2. CASE HasArgs(2) /\ Arg(2) <= AllocLimit
  <2>1. cost \in Nat
    <3>1. Arg(2) \in Nat
      BY <1>2, Operand
    <3> QED BY <3>1, Words32Type
  <2>2. stack \in Seq(Nat) /\ Len(stack) <= StackLimit
    BY <1>2, Operand, StackFacts, AmountsAssumption
  <2>3. Continue(stack, evm.pc + 1, cost)
    BY <1>2 DEF SHA3
  <2> HIDE DEF stack, cost
  <2> QED BY <1>1, <2>1, <2>2, <2>3, InstructionFacts, ContinueSteps
<1>3. CASE ~(HasArgs(2) /\ Arg(2) <= AllocLimit)
  BY <1>3, FailSteps DEF SHA3
<1> QED BY <1>2, <1>3

LEMMA LOGSteps ==
  ASSUME FrameOK, DecoderType, LOG
  PROVE  FrameStep
<1> DEFINE n == Instruction.op.n
           cost == 375 + 375 * n + 8 * Arg(2)
<1>1. Running /\ n \in Nat
  <2>1. Running
    BY DEF LOG, At
  <2>2. n \in 0..32
    BY <2>1, InstructionFacts
  <2> QED BY <2>1, <2>2
<1>2. CASE HasArgs(2 + n) /\ CanGrow(Arg(1) + Arg(2))
  <2> HIDE DEF n
  <2>1. 2 + n \in Nat /\ 2 \in 1..(2 + n)
    BY <1>1
  <2>2. cost \in Nat
    <3>1. Arg(2) \in Nat
      BY <1>2, <2>1, Operand
    <3> QED BY <1>1, <3>1
  <2>3. Drop(2 + n) \in Seq(Nat) /\ Len(Drop(2 + n)) <= StackLimit
    BY <1>2, <2>1, Operand, StackFacts
  <2>4. Continue(Drop(2 + n), evm.pc + 1, cost)
    BY <1>2 DEF LOG, n
  <2> HIDE DEF cost
  <2> QED BY <1>1, <2>2, <2>3, <2>4, InstructionFacts, ContinueSteps
<1>3. CASE ~(HasArgs(2 + n) /\ CanGrow(Arg(1) + Arg(2)))
  BY <1>3, FailSteps DEF LOG
<1> QED BY <1>2, <1>3

\* What a call needs, where its operands are on the stack.
LEMMA CallFacts ==
  ASSUME FrameOK, Running, NEW access \in AccessCosts, HasArgs(Operands)
  PROVE  /\ Operands \in {6, 7}
         /\ CallEnd \in Nat
         /\ Expansion(Grown(CallEnd)) \in Nat
         /\ access \in Nat /\ access >= 1
         /\ Arg(1) \in Nat
         /\ Stipend \in {0, 2300}
         /\ BaseCost(access) \in Nat
         /\ BaseCost(access) >= Expansion(Grown(CallEnd)) + Stipend + 1
         /\ \A flag \in Nat : /\ Append(Drop(Operands), flag) \in Seq(Nat)
                              /\ Len(Append(Drop(Operands), flag)) <= StackLimit
<1>1. Operands \in {6, 7}
  BY DEF Operands
<1>2. Operands \in Nat
  BY <1>1
<1>3. \A i \in 1..Operands : Arg(i) \in Nat
  BY <1>2, Operand
<1>4. /\ Arg(1) \in Nat /\ Arg(Operands - 3) \in Nat /\ Arg(Operands - 2) \in Nat
      /\ Arg(Operands - 1) \in Nat /\ Arg(Operands) \in Nat
  BY <1>1, <1>3
<1>5. CallEnd \in Nat
  BY <1>4, EndType DEF CallEnd, Most
<1>6. evm.memory \in Nat /\ evm.mem_cost = MemCost(evm.memory)
  BY DEF FrameOK, EvmType, Counted, Running
<1>7. Expansion(Grown(CallEnd)) \in Nat
  BY <1>5, <1>6, ExpansionFacts
<1>8. access \in Nat /\ access >= 1
  BY AmountsAssumption
<1>9. /\ Stipend \in {0, 2300}
      /\ BaseCost(access) \in Nat
      /\ BaseCost(access) >= Expansion(Grown(CallEnd)) + Stipend + 1
  BY <1>7, <1>8 DEF Stipend, BaseCost
<1>10. \A flag \in Nat : /\ Append(Drop(Operands), flag) \in Seq(Nat)
                         /\ Len(Append(Drop(Operands), flag)) <= StackLimit
  BY <1>1, <1>2, Operand, StackFacts
<1> QED BY <1>1, <1>4, <1>5, <1>7, <1>8, <1>9, <1>10

LEMMA CalledProceeds ==
  ASSUME FrameOK, Running, NEW access \in AccessCosts, HasArgs(Operands),
         NEW cost \in Nat, Expansion(Grown(CallEnd)) <= cost, cost <= Remaining,
         NEW flag \in {0, 1}, Called(cost, flag), ret' \in RetType
  PROVE  FrameStep
<1> DEFINE stack == Append(Drop(Operands), flag)
<1>1. stack \in Seq(Nat) /\ Len(stack) <= StackLimit /\ CallEnd \in Nat
  BY CallFacts
<1>2. evm' = Charge([Resized(Grown(CallEnd)) EXCEPT !.stack = stack, !.pc = @ + 1], cost)
  BY DEF Called
<1> HIDE DEF stack
<1>3. evm' = Charge([Resized(Grown(CallEnd)) EXCEPT !.stack = stack, !.pc = @ + 1,
                                                    !.status = "running"], cost)
  BY <1>2 DEF Charge, Resized, FrameOK, EvmType, Running
<1>4. Proceeds
  BY <1>1, <1>3, GrownProceeds
<1> QED BY <1>4 DEF FrameStep

LEMMA CallFailsSteps ==
  ASSUME FrameOK, NEW access \in AccessCosts, CallFails(access)
  PROVE  FrameStep
<1>1. Running
  BY DEF CallFails, At
<1>2. CASE HasArgs(Operands) /\ CanGrow(CallEnd)
  <2>1. Fail(Grown(CallEnd)) /\ CallEnd \in Nat
    BY <1>1, <1>2, CallFacts DEF CallFails
  <2> QED BY <2>1, FailSteps
<1>3. CASE ~(HasArgs(Operands) /\ CanGrow(CallEnd))
  BY <1>3, FailSteps DEF CallFails
<1> QED BY <1>2, <1>3

LEMMA CallReturnsSteps ==
  ASSUME FrameOK, NEW access \in AccessCosts, NEW callee \in CalleeCosts, NEW flag \in {0, 1},
         NEW size \in ReturnSizes, CallReturns(access, callee, flag, size)
  PROVE  FrameStep
<1> DEFINE base == BaseCost(access)
           cost == base + callee - Stipend
<1>1. Running /\ HasArgs(Operands) /\ base <= Remaining
  BY DEF CallReturns, At, CanCall
<1>2. /\ base \in Nat /\ base >= Expansion(Grown(CallEnd)) + Stipend + 1
      /\ Expansion(Grown(CallEnd)) \in Nat /\ Arg(1) \in Nat /\ Stipend \in {0, 2300}
  BY <1>1, CallFacts
<1>3. callee \in Nat /\ size \in Nat
  BY AmountsAssumption
<1>4. Remaining \in Int
  BY DEF Remaining, FrameOK, EvmType
<1>5. callee <= Least(Arg(1), AllButOne64th(Remaining - base)) + Stipend
  BY DEF CallReturns
<1> HIDE DEF base
<1>6. AllButOne64th(Remaining - base) \in Nat /\ AllButOne64th(Remaining - base) <= Remaining - base
  <2>1. \A g \in Nat : g - g \div 64 \in Nat /\ g - g \div 64 <= g
    OBVIOUS
  <2>2. Remaining - base \in Nat
    BY <1>1, <1>2, <1>4
  <2> QED BY <2>1, <2>2 DEF AllButOne64th
<1>7. callee <= Remaining - base + Stipend
  <2>1. Least(Arg(1), AllButOne64th(Remaining - base)) <= AllButOne64th(Remaining - base)
    BY <1>2, <1>6 DEF Least
  <2>2. Least(Arg(1), AllButOne64th(Remaining - base)) \in Nat
    BY <1>2, <1>6 DEF Least
  <2> QED BY <1>2, <1>3, <1>4, <1>5, <1>6, <2>1, <2>2
<1>8. cost \in Nat /\ Expansion(Grown(CallEnd)) <= cost /\ cost <= Remaining
  BY <1>2, <1>3, <1>4, <1>7
<1>9. Called(cost, flag) /\ ret' \in RetType
  BY <1>3 DEF CallReturns, RetType, base
<1> HIDE DEF cost
<1> QED BY <1>1, <1>8, <1>9, CalledProceeds

LEMMA CallPrecompileSteps ==
  ASSUME FrameOK, NEW access \in AccessCosts, NEW cost \in CalleeCosts \cup {-1},
         NEW ok \in BOOLEAN, NEW size \in ReturnSizes, CallPrecompile(access, cost, ok, size)
  PROVE  FrameStep
<1> DEFINE base == BaseCost(access)
           total == base + cost
           flag == IF ok THEN 1 ELSE 0
<1>1. Running /\ HasArgs(Operands) /\ base <= Remaining
  BY DEF CallPrecompile, At, CanCall
<1>2. /\ base \in Nat /\ base >= Expansion(Grown(CallEnd)) + Stipend + 1
      /\ Expansion(Grown(CallEnd)) \in Nat /\ CallEnd \in Nat /\ Stipend \in {0, 2300}
  BY <1>1, CallFacts
<1>3. cost \in Int /\ cost >= -1 /\ size \in Nat
  BY AmountsAssumption
<1>4. Remaining \in Int
  BY DEF Remaining, FrameOK, EvmType
<1>5. CASE Panic
  BY <1>5, FailSteps
<1>6. CASE Fail(Grown(CallEnd))
  BY <1>2, <1>6, FailSteps
<1>7. ASSUME ~(total > Remaining), Called(total, flag),
             ret' = IF ok THEN [size |-> size, from |-> "callee"] ELSE ret
      PROVE  FrameStep
  <2> HIDE DEF base
  <2>1. total \in Nat /\ Expansion(Grown(CallEnd)) <= total /\ total <= Remaining
    BY <1>2, <1>3, <1>4, <1>7
  <2>2. ret' \in RetType
    BY <1>3, <1>7 DEF FrameOK, RetType
  <2>3. flag \in {0, 1}
    OBVIOUS
  <2> HIDE DEF total, flag
  <2> QED BY <1>1, <1>7, <2>1, <2>2, <2>3, CalledProceeds
<1> QED BY <1>5, <1>6, <1>7 DEF CallPrecompile

LEMMA CREATESteps ==
  ASSUME FrameOK, NEW callee \in CalleeCosts, NEW word \in Words, CREATE(callee, word)
  PROVE  FrameStep
<1> DEFINE type == IF Instruction.op.name = "CREATE2" THEN "Create2" ELSE evm.callType
           n == IF type = "Create2" THEN 4 ELSE 3
           end == End(Arg(2), Arg(3))
           m == Grown(end)
           paid == Expansion(m) + 32000 + (IF n = 4 THEN 8 ELSE 2) * Words32(Arg(3))
           stack == Append(Drop(n), word)
           total == paid + callee
<1>1. Running /\ n \in {3, 4}
  BY DEF CREATE, At
<1>2. CASE ~(HasArgs(n) /\ CanGrow(end))
  BY <1>2, FailSteps DEF CREATE
<1>3. CASE Panic
  BY <1>3, FailSteps
<1>4. ASSUME HasArgs(n), paid < Remaining, callee <= AllButOne64th(Remaining - paid),
             evm' = Charge([Resized(m) EXCEPT !.stack = stack, !.pc = @ + 1], total),
             UNCHANGED ret
      PROVE  FrameStep
  <2> HIDE DEF n
  <2>1. n \in Nat /\ 2 \in 1..n /\ 3 \in 1..n /\ n >= 3
    BY <1>1
  <2>2. Arg(2) \in Nat /\ Arg(3) \in Nat
    <3>1. HasArgs(n)
      BY <1>4
    <3> HIDE DEF end, m, paid, stack, total
    <3> QED BY <3>1, <2>1, Operand
  <2>3. end \in Nat /\ Words32(Arg(3)) \in Nat
    BY <2>2, EndType, Words32Type
  <2>4. word \in Nat /\ callee \in Nat
    BY AmountsAssumption
  <2>5. stack \in Seq(Nat) /\ Len(stack) <= StackLimit
    BY <1>4, <2>1, <2>4, Operand, StackFacts
  <2>6. evm.memory \in Nat /\ evm.mem_cost = MemCost(evm.memory)
    BY <1>1 DEF FrameOK, EvmType, Counted, Running
  <2> HIDE DEF end, stack
  <2>7. Expansion(m) \in Nat
    BY <2>3, <2>6, ExpansionFacts
  <2> HIDE DEF m
  <2>8. paid \in Nat /\ Expansion(m) <= paid
    BY <2>3, <2>7
  <2> HIDE DEF paid
  <2>9. Remaining \in Int
    BY DEF Remaining, FrameOK, EvmType
  <2>10. total \in Nat /\ Expansion(m) <= total /\ total <= Remaining
    <3>1. \A g \in Nat : g - g \div 64 \in Nat /\ g - g \div 64 <= g
      OBVIOUS
    <3>2. Remaining - paid \in Nat
      BY <1>4, <2>8, <2>9
    <3>3. callee <= Remaining - paid
      BY <1>4, <2>4, <3>1, <3>2 DEF AllButOne64th
    <3> QED BY <2>4, <2>7, <2>8, <2>9, <3>3
  <2> HIDE DEF total
  <2>11. evm' = Charge([Resized(Grown(end)) EXCEPT !.stack = stack, !.pc = @ + 1,
                                                   !.status = "running"], total)
    BY <1>1, <1>4 DEF Charge, Resized, FrameOK, EvmType, Running, m
  <2>12. ret' \in RetType
    BY <1>4 DEF FrameOK
  <2>13. Proceeds
    BY <1>1, <2>3, <2>5, <2>10, <2>11, <2>12, GrownProceeds DEF m
  <2> QED BY <2>13 DEF FrameStep
<1>5. CASE HasArgs(n) /\ CanGrow(end)
  <2>1. CASE ~ Sliceable(Arg(2), Arg(3), m) \/ paid >= Remaining
    BY <1>3, <1>5, <2>1 DEF CREATE
  <2>2. CASE ~(~ Sliceable(Arg(2), Arg(3), m) \/ paid >= Remaining)
    <3>1. /\ callee <= AllButOne64th(Remaining - paid)
          /\ evm' = Charge([Resized(m) EXCEPT !.stack = stack, !.pc = @ + 1], total)
          /\ UNCHANGED ret
      BY <1>5, <2>2 DEF CREATE
    <3>2. paid < Remaining
      <4>1. n \in Nat /\ 2 \in 1..n /\ 3 \in 1..n
        BY <1>1
      <4>2. Arg(2) \in Nat /\ Arg(3) \in Nat
        <5>1. HasArgs(n)
          BY <1>5
        <5> HIDE DEF n, end, m, paid, stack, total
        <5> QED BY <5>1, <4>1, Operand
      <4>3. end \in Nat /\ Words32(Arg(3)) \in Nat
        BY <4>2, EndType, Words32Type
      <4>4. evm.memory \in Nat /\ evm.mem_cost = MemCost(evm.memory)
        BY <1>1 DEF FrameOK, EvmType, Counted, Running
      <4>5. Expansion(m) \in Nat
        BY <4>3, <4>4, ExpansionFacts
      <4> HIDE DEF m, end, n
      <4>6. Remaining \in Int
        BY DEF Remaining, FrameOK, EvmType
      <4> QED BY <2>2, <4>3, <4>5, <4>6
    <3> QED BY <1>4, <1>5, <3>1, <3>2
  <2> QED BY <2>1, <2>2
<1> QED BY <1>2, <1>5

LEMMA STOPSteps ==
  ASSUME FrameOK, DecoderType, STOP
  PROVE  FrameStep
<1>1. /\ evm.status = "running" /\ ret' = NoData
      /\ evm' = [evm EXCEPT !.status = "stopped", !.pc = Len(instructions)]
  BY DEF STOP, At, Running
<1>2. Len(instructions) \in Nat
  BY DEF DecoderType
<1>3. /\ evm'.stack = evm.stack /\ evm'.memory = evm.memory /\ evm'.mem_cost = evm.mem_cost
      /\ evm'.used = evm.used /\ evm'.limit = evm.limit /\ evm'.status = "stopped"
      /\ evm'.pc = Len(instructions) /\ evm' \in EvmType
  BY <1>1, <1>2 DEF FrameOK, EvmType
<1>4. ret' \in RetType
  BY <1>1 DEF NoData, RetType
<1>5. Counted(evm')
  BY <1>1, <1>3 DEF Counted, FrameOK
<1>6. MemCost(evm.memory) \in Nat /\ evm.used \in Nat
  <2>1. evm.memory \in Nat /\ evm.memory <= evm.memory /\ evm.used \in Nat
    BY DEF FrameOK, EvmType
  <2> QED BY <2>1, MemCostMonotone
<1>7. MemCost(evm'.memory) - MemCost(evm.memory) <= evm'.used - evm.used
  BY <1>3, <1>6
<1>8. Proceeds
  BY <1>2, <1>3, <1>4, <1>5, <1>7 DEF Proceeds, FrameOK
<1> QED BY <1>8 DEF FrameStep

LEMMA RETURNSteps ==
  ASSUME FrameOK, RETURN
  PROVE  FrameStep
<1> DEFINE size == Arg(2)
           end == End(Arg(1), size)
           m == Grown(end)
           status == IF Instruction.op.name = "REVERT" THEN "reverted" ELSE "stopped"
<1>1. Running
  BY DEF RETURN, At
<1>2. CASE ~(HasArgs(2) /\ CanGrow(end))
  BY <1>2, FailSteps DEF RETURN
<1>3. CASE HasArgs(2) /\ CanGrow(end)
  <2>1. Arg(1) \in Nat /\ size \in Nat
    BY <1>3, Operand
  <2>2. end \in Nat
    BY <2>1, EndType
  <2>3. CASE Expansion(m) <= Remaining
    <3>1. /\ evm' = Charge([Resized(m) EXCEPT !.stack = Drop(2), !.pc = @ + 1,
                                              !.status = status], Expansion(m))
          /\ ret' = [size |-> size, from |-> "self"]
      BY <1>3, <2>3 DEF RETURN
    <3>2. evm.memory \in Nat /\ evm.mem_cost = MemCost(evm.memory)
      BY <1>1 DEF FrameOK, EvmType, Counted, Running
    <3> HIDE DEF end
    <3>3. Expansion(m) \in Nat /\ Expansion(m) <= Expansion(m)
      BY <2>2, <3>2, ExpansionFacts
    <3>4. Drop(2) \in Seq(Nat) /\ Len(Drop(2)) <= StackLimit
      BY <1>3, Operand, StackFacts
    <3>5. ret' \in RetType
      BY <2>1, <3>1 DEF RetType
    <3>6. status \in {"running", "stopped", "reverted"}
      OBVIOUS
    <3> HIDE DEF status
    <3>7. Proceeds
      BY <1>1, <2>2, <2>3, <3>1, <3>3, <3>4, <3>5, <3>6, GrownProceeds
    <3> QED BY <3>7 DEF FrameStep
  <2>4. CASE ~(Expansion(m) <= Remaining)
    <3>1. Fail(m)
      BY <1>3, <2>4 DEF RETURN
    <3> QED BY <2>2, <3>1, FailSteps
  <2> QED BY <2>3, <2>4
<1> QED BY <1>2, <1>3

LEMMA SELFDESTRUCTSteps ==
  ASSUME FrameOK, NEW cost \in Nat, SELFDESTRUCT(cost)
  PROVE  FrameStep
<1>1. Running
  BY DEF SELFDESTRUCT, At
<1>2. CASE ~(HasArgs(1) /\ cost <= Remaining)
  BY <1>2, FailSteps DEF SELFDESTRUCT
<1>3. CASE HasArgs(1) /\ cost <= Remaining
  <2>1. /\ evm' = Charge([evm EXCEPT !.stack = Drop(1), !.pc = @ + 1, !.status = "stopped"], cost)
        /\ ret' = NoData
    BY <1>3 DEF SELFDESTRUCT
  <2>2. evm.memory \in Nat /\ evm.memory % 32 = 0 /\ evm.mem_cost = MemCost(evm.memory)
    BY <1>1 DEF FrameOK, EvmType, Counted, Running
  <2>3. MemCost(evm.memory) \in Nat
    <3>1. evm.memory <= evm.memory
      BY <2>2
    <3> QED BY <2>2, <3>1, MemCostMonotone
  <2>4. Drop(1) \in Seq(Nat) /\ Len(Drop(1)) <= StackLimit
    BY <1>3, Operand, StackFacts
  <2>5. evm.pc + 1 \in Nat /\ evm.pc + 1 <= Len(instructions)
    BY <1>1 DEF FrameOK, EvmType, Running
  <2>6. evm' = [evm EXCEPT !.stack = Drop(1), !.pc = evm.pc + 1, !.memory = evm.memory,
                           !.mem_cost = MemCost(evm.memory), !.used = @ + cost,
                           !.status = "stopped"]
    <3>1. evm \in EvmType /\ evm.status = "running"
      BY <1>1 DEF FrameOK, Running
    <3> HIDE DEF Drop
    <3> QED BY <2>1, <2>2, <3>1 DEF Charge, EvmType
  <2>7. ret' \in RetType
    BY <2>1 DEF NoData, RetType
  <2>8. cost \in Nat /\ MemCost(evm.memory) - MemCost(evm.memory) <= cost
    BY <2>3
  <2>9. /\ "stopped" \in {"running", "stopped", "reverted"}
        /\ "stopped" = "running" => Landing(evm.pc + 1)
    OBVIOUS
  <2>10. Proceeds
    BY <1>1, <1>3, <2>2, <2>3, <2>4, <2>5, <2>6, <2>7, <2>8, <2>9, AdvanceProceeds
  <2> QED BY <2>10 DEF FrameStep
<1> QED BY <1>2, <1>3

-----------------------------------------------------------------------------
(* The steps of a machine *)

\* A running frame takes a FrameStep; the decoder is done.
Executes == evm.status = "running" /\ FrameStep /\ UNCHANGED decoder

LEMMA NextCases ==
  ASSUME FrameOK, DecoderType, JumpTable, FirstAtZero, Next
  PROVE  Decode \/ Start \/ Executes \/ RunOff \/ Ended
<1> USE DEF Executes, At, Running
<1>1. ASSUME NEW word \in Words, Compute(word) PROVE Executes
  BY <1>1, ComputeSteps DEF Compute
<1>2. CASE Refused \/ INVALID
  BY <1>2, RefusedSteps DEF Refused, INVALID
<1>3. CASE PUSH
  BY <1>3, PUSHSteps DEF PUSH
<1>4. CASE DUP
  BY <1>4, DUPSteps DEF DUP
<1>5. CASE SWAP
  BY <1>5, SWAPSteps DEF SWAP
<1>6. CASE JUMPDEST
  BY <1>6, JUMPDESTSteps DEF JUMPDEST
<1>7. CASE JUMP
  BY <1>7, JUMPSteps DEF JUMP
<1>8. CASE JUMPI
  BY <1>8, JUMPISteps DEF JUMPI
<1>9. ASSUME NEW word \in Words, MLOAD(word) \/ SHA3(word) PROVE Executes
  BY <1>9, MLOADSteps, SHA3Steps DEF MLOAD, SHA3
<1>10. CASE MSTORE
  BY <1>10, MSTORESteps DEF MSTORE
<1>11. ASSUME NEW access \in AccessCosts, Copy(access) PROVE Executes
  BY <1>11, CopySteps DEF Copy
<1>12. CASE CALLDATACOPY
  BY <1>12, CALLDATACOPYSteps DEF CALLDATACOPY
<1>13. CASE MCOPY
  BY <1>13, MCOPYSteps DEF MCOPY
<1>14. CASE LOG
  BY <1>14, LOGSteps DEF LOG
<1>15. ASSUME NEW access \in AccessCosts, CallFails(access) PROVE Executes
  BY <1>15, CallFailsSteps DEF CallFails
<1>16. ASSUME NEW access \in AccessCosts, NEW callee \in CalleeCosts, NEW flag \in {0, 1},
              NEW size \in ReturnSizes, CallReturns(access, callee, flag, size)
       PROVE  Executes
  BY <1>16, CallReturnsSteps DEF CallReturns
<1>17. ASSUME NEW access \in AccessCosts, NEW cost \in CalleeCosts \cup {-1}, NEW ok \in BOOLEAN,
              NEW size \in ReturnSizes, CallPrecompile(access, cost, ok, size)
       PROVE  Executes
  BY <1>17, CallPrecompileSteps DEF CallPrecompile
<1>18. ASSUME NEW callee \in CalleeCosts, NEW word \in Words, CREATE(callee, word) PROVE Executes
  <2>1. FrameStep
    BY <1>18, CREATESteps
  <2>2. evm.status = "running" /\ UNCHANGED decoder
    BY <1>18 DEF CREATE
  <2> QED BY <2>1, <2>2
<1>19. CASE STOP
  BY <1>19, STOPSteps DEF STOP
<1>20. CASE RETURN
  BY <1>20, RETURNSteps DEF RETURN
<1>21. ASSUME NEW cost \in {5000, 7600, 30000, 32600}, SELFDESTRUCT(cost) PROVE Executes
  BY <1>21, SELFDESTRUCTSteps DEF SELFDESTRUCT
<1> HIDE DEF Executes, At, Running
<1> QED
  BY <1>1, <1>2, <1>3, <1>4, <1>5, <1>6, <1>7, <1>8, <1>9, <1>10, <1>11, <1>12, <1>13, <1>14,
     <1>15, <1>16, <1>17, <1>18, <1>19, <1>20, <1>21 DEF Next

-----------------------------------------------------------------------------
(* The invariant *)

\* The decoder has read what lies before pos, and nothing runs before it is done.
Decoded ==
  /\ \A k \in DOMAIN instructions : instructions[k].offset < pos
  /\ evm.status = "decoding" => evm.pc = 0 /\ evm.memory = 0

\* TypeOK and MemoryCounted rest on each other (the cost of an opcode is a number
\* because the memory is counted), and the jump table on where the decoder is.
Inv == FrameOK /\ DecoderType /\ JumpTable /\ FirstAtZero /\ Decoded

LEMMA TypeOKSplit == TypeOK <=> /\ DecoderType
                               /\ evm \in EvmType /\ ret \in RetType
                               /\ Len(evm.stack) <= StackLimit /\ evm.pc <= Len(instructions)
  BY DEF TypeOK, DecoderType, InstructionType, EvmType, RetType

LEMMA InitInv == Init => Inv
<1> SUFFICES ASSUME Init PROVE Inv
  OBVIOUS
<1>1. PICK s \in Starts :
        /\ bytecode = s.code /\ pos = 0 /\ instructions = <<>> /\ jumptable = <<>>
        /\ evm = [status |-> "decoding", pc |-> 0, stack |-> <<>>, memory |-> 0, mem_cost |-> 0,
                  used |-> 0, limit |-> s.gas, callType |-> s.callType]
        /\ ret = NoData
  BY DEF Init
<1>2. s.code \in Seq(Byte) /\ s.gas \in Nat /\ s.callType \in CallTypes
  BY StartAssumption
<1>3. MemCost(0) = 0
  BY DEF MemCost, Words32
<1>4. evm \in EvmType /\ ret \in RetType
  BY <1>1, <1>2 DEF EvmType, RetType, NoData
<1>5. Counted(evm)
  BY <1>1, <1>2, <1>3 DEF Counted
<1>6. FrameOK
  BY <1>1, <1>4, <1>5, AmountsAssumption DEF FrameOK
<1>7. DecoderType
  BY <1>1, <1>2 DEF DecoderType
<1>8. JumpTable /\ FirstAtZero /\ Decoded
  BY <1>1 DEF JumpTable, FirstAtZero, Decoded
<1> QED BY <1>6, <1>7, <1>8 DEF Inv

\* What the decoder appends: an instruction at pos, which is in the table if it is
\* a JUMPDEST.
LEMMA DecodeStep ==
  ASSUME Inv, Decode
  PROVE  Inv'
<1> DEFINE b == bytecode[pos + 1]
           op == Opcodes[b]
           arg == [i \in 1..PushLen(op) |-> ByteAt(pos + i)]
           new == [op |-> op, offset |-> pos, arg |-> arg]
<1>1. /\ evm.status = "decoding" /\ pos < Len(bytecode)
      /\ instructions' = Append(instructions, new)
      /\ jumptable' = IF op.name = "JUMPDEST"
                      THEN Append(jumptable, <<pos, Len(instructions)>>) ELSE jumptable
      /\ pos' = Least(pos + 1 + PushLen(op), Len(bytecode))
      /\ bytecode' = bytecode /\ evm' = evm /\ ret' = ret
  BY DEF Decode
<1>2. pos \in Nat /\ Len(bytecode) \in Nat /\ b \in Byte
  BY <1>1 DEF Inv, DecoderType
<1>3. op \in Opcode /\ PushLen(op) \in 0..32
  BY <1>2, OpcodeFacts DEF Opcode, PushLen
<1> HIDE DEF b, op
<1>4. pos' \in Nat /\ pos < pos' /\ pos' <= Len(bytecode)
  <2>1. pos' = Least(pos + 1 + PushLen(op), Len(bytecode))
    BY <1>1
  <2>2. ASSUME NEW p \in 0..32
        PROVE  LET q == Least(pos + 1 + p, Len(bytecode))
               IN  q \in Nat /\ pos < q /\ q <= Len(bytecode)
    <3>1. pos < Len(bytecode)
      BY <1>1
    <3> QED BY <1>2, <3>1 DEF Least
  <2> QED BY <1>3, <2>1, <2>2
<1>5. arg \in Seq(Byte)
  <2>1. ASSUME NEW i \in 1..PushLen(op)
        PROVE  ByteAt(pos + i) \in Byte
    <3>1. bytecode \in Seq(Byte) /\ pos + i + 1 \in Nat /\ pos + i + 1 >= 1
      BY <1>2, <1>3 DEF Inv, DecoderType
    <3>2. CASE pos + i < Len(bytecode)
      <4>1. pos + i + 1 \in 1..Len(bytecode)
        BY <1>2, <3>1, <3>2
      <4> QED BY <3>1, <3>2, <4>1 DEF ByteAt
    <3>3. CASE ~(pos + i < Len(bytecode))
      BY <3>3 DEF ByteAt, Byte
    <3> QED BY <3>2, <3>3
  <2> HIDE DEF ByteAt
  <2>2. PushLen(op) \in Nat
    BY <1>3
  <2> QED BY <2>1, <2>2
<1>6. new \in InstructionType
  BY <1>2, <1>3, <1>5 DEF InstructionType
<1>7. new.op = op /\ new.offset = pos
  OBVIOUS
<1> HIDE DEF new, arg
<1>8. instructions \in Seq(InstructionType) /\ jumptable \in Seq(Nat \X Nat)
  BY DEF Inv, DecoderType
<1>9. /\ Len(instructions) \in Nat
      /\ instructions' \in Seq(InstructionType) /\ Len(instructions') = Len(instructions) + 1
      /\ DOMAIN instructions = 1..Len(instructions)
      /\ DOMAIN instructions' = 1..(Len(instructions) + 1)
      /\ \A k \in 1..Len(instructions) : instructions'[k] = instructions[k]
      /\ instructions'[Len(instructions) + 1] = new
  BY <1>1, <1>6, <1>8
<1>10. DecoderType'
  <2>1. jumptable' \in Seq(Nat \X Nat)
    <3>1. <<pos, Len(instructions)>> \in Nat \X Nat
      BY <1>2, <1>9
    <3>2. Append(jumptable, <<pos, Len(instructions)>>) \in Seq(Nat \X Nat)
      BY <1>8, <3>1, AppendProperties
    <3> QED BY <1>1, <1>8, <3>2
  <2> QED BY <1>1, <1>4, <1>9, <2>1 DEF DecoderType, Inv
<1>11. FrameOK'
  BY <1>1, <1>9 DEF Inv, FrameOK, EvmType, Counted
<1>12. FirstAtZero'
  <2>1. instructions' # <<>>
    BY <1>9
  <2>2. CASE instructions = <<>>
    BY <2>1, <2>2, <1>7, <1>9 DEF FirstAtZero, Inv
  <2>3. CASE instructions # <<>>
    <3>1. 1 \in 1..Len(instructions)
      BY <1>8, <2>3, EmptySeq
    <3> QED BY <2>1, <2>3, <3>1, <1>9 DEF FirstAtZero, Inv
  <2> QED BY <2>2, <2>3
<1>13. Decoded'
  <2>1. ASSUME NEW k \in DOMAIN instructions'
        PROVE  instructions'[k].offset < pos'
    <3>1. CASE k \in 1..Len(instructions)
      <4>1. instructions[k].offset < pos /\ instructions[k].offset \in Nat
        <5>1. k \in DOMAIN instructions
          BY <1>9, <3>1
        <5>2. instructions[k] \in InstructionType
          BY <1>8, <5>1
        <5> QED BY <5>1, <5>2 DEF Inv, Decoded, InstructionType
      <4> QED BY <1>2, <1>4, <1>9, <3>1, <4>1
    <3>2. CASE k = Len(instructions) + 1
      BY <1>4, <1>7, <1>9, <3>2
    <3> QED BY <1>9, <2>1, <3>1, <3>2
  <2> QED BY <1>1, <2>1 DEF Inv, Decoded
<1>14. JumpTable'
  <2> DEFINE entry == <<pos, Len(instructions)>>
  <2>1. JumpTable /\ Decoded
    BY DEF Inv
  <2>2. \A i \in DOMAIN jumptable : jumptable[i][1] < pos
    BY <1>9, <2>1 DEF JumpTable, Decoded
  <2>3. \A i \in DOMAIN jumptable : /\ jumptable[i] \in Nat \X Nat
                                     /\ jumptable[i][2] + 1 \in 1..Len(instructions)
    BY <1>8, <1>9, <2>1 DEF JumpTable
  <2>4. CASE op.name # "JUMPDEST"
    <3>1. jumptable' = jumptable
      BY <1>1, <2>4
    <3>2. ASSUME NEW i \in DOMAIN jumptable'
          PROVE  LET at == jumptable'[i][2] + 1
                 IN  /\ at \in DOMAIN instructions'
                     /\ instructions'[at].offset = jumptable'[i][1]
                     /\ instructions'[at].op.name = "JUMPDEST"
      BY <1>9, <2>1, <2>3, <3>1 DEF JumpTable
    <3>3. ASSUME NEW at \in DOMAIN instructions', instructions'[at].op.name = "JUMPDEST"
          PROVE  \E i \in DOMAIN jumptable' : jumptable'[i] = <<instructions'[at].offset, at - 1>>
      <4>1. at \in 1..Len(instructions)
        BY <1>7, <1>9, <2>4, <3>3
      <4> QED BY <1>9, <2>1, <3>1, <3>3, <4>1 DEF JumpTable
    <3> QED BY <2>1, <3>1, <3>2, <3>3 DEF JumpTable
  <2>5. CASE op.name = "JUMPDEST"
    <3>1. /\ Len(jumptable) \in Nat /\ DOMAIN jumptable = 1..Len(jumptable)
          /\ DOMAIN jumptable' = 1..(Len(jumptable) + 1)
          /\ \A i \in 1..Len(jumptable) : jumptable'[i] = jumptable[i]
          /\ jumptable'[Len(jumptable) + 1] = entry
      <4>1. jumptable' = Append(jumptable, entry)
        BY <1>1, <2>5
      <4> HIDE DEF entry
      <4> QED BY <1>8, <4>1
    <3>2. ASSUME NEW i \in DOMAIN jumptable', NEW j \in DOMAIN jumptable', i < j
          PROVE  jumptable'[i][1] < jumptable'[j][1]
      <4>1. i \in 1..Len(jumptable)
        BY <3>1, <3>2
      <4>2. CASE j \in 1..Len(jumptable)
        BY <2>1, <3>1, <3>2, <4>1, <4>2 DEF JumpTable
      <4>3. CASE j = Len(jumptable) + 1
        BY <2>2, <3>1, <4>1, <4>3
      <4> QED BY <3>1, <4>2, <4>3
    <3>3. ASSUME NEW i \in DOMAIN jumptable'
          PROVE  LET at == jumptable'[i][2] + 1
                 IN  /\ at \in DOMAIN instructions'
                     /\ instructions'[at].offset = jumptable'[i][1]
                     /\ instructions'[at].op.name = "JUMPDEST"
      <4>1. CASE i \in 1..Len(jumptable)
        BY <1>9, <2>1, <2>3, <3>1, <4>1 DEF JumpTable
      <4>2. CASE i = Len(jumptable) + 1
        BY <1>7, <1>9, <2>5, <3>1, <4>2
      <4> QED BY <3>1, <4>1, <4>2
    <3>4. ASSUME NEW at \in DOMAIN instructions', instructions'[at].op.name = "JUMPDEST"
          PROVE  \E i \in DOMAIN jumptable' : jumptable'[i] = <<instructions'[at].offset, at - 1>>
      <4>1. CASE at \in 1..Len(instructions)
        <5>1. PICK i \in DOMAIN jumptable : jumptable[i] = <<instructions[at].offset, at - 1>>
          BY <1>9, <2>1, <3>4, <4>1 DEF JumpTable
        <5> QED BY <1>9, <3>1, <4>1, <5>1
      <4>2. CASE at = Len(instructions) + 1
        <5>1. jumptable'[Len(jumptable) + 1] = <<instructions'[at].offset, at - 1>>
          BY <1>7, <1>9, <3>1, <4>2
        <5> QED BY <3>1, <5>1
      <4> QED BY <1>9, <4>1, <4>2
    <3> QED BY <3>2, <3>3, <3>4 DEF JumpTable
  <2> QED BY <2>4, <2>5
<1> QED BY <1>10, <1>11, <1>12, <1>13, <1>14 DEF Inv

LEMMA NextInv == Inv /\ [Next]_vars => Inv'
<1> SUFFICES ASSUME Inv, [Next]_vars PROVE Inv'
  OBVIOUS
<1>1. CASE Decode
  BY <1>1, DecodeStep
<1>2. CASE Start
  <2>1. /\ evm.status = "decoding" /\ evm' = [evm EXCEPT !.status = "running"]
        /\ bytecode' = bytecode /\ pos' = pos /\ instructions' = instructions
        /\ jumptable' = jumptable /\ ret' = ret
    BY <1>2 DEF Start, decoder
  <2>2. /\ evm' \in EvmType /\ evm'.status = "running" /\ evm'.stack = evm.stack
        /\ evm'.pc = evm.pc /\ evm'.memory = evm.memory /\ evm'.mem_cost = evm.mem_cost
        /\ evm'.used = evm.used /\ evm'.limit = evm.limit
    BY <2>1 DEF Inv, FrameOK, EvmType
  <2>3. Counted(evm')
    BY <2>1, <2>2 DEF Inv, FrameOK, Counted
  <2>4. FrameOK'
    BY <2>1, <2>2, <2>3 DEF Inv, FrameOK, Counted
  <2> QED BY <2>1, <2>2, <2>4 DEF Inv, DecoderType, JumpTable, FirstAtZero, Decoded
<1>3. CASE Executes
  <2>1. /\ evm.status = "running" /\ FrameStep
        /\ bytecode' = bytecode /\ pos' = pos /\ instructions' = instructions
        /\ jumptable' = jumptable
    BY <1>3 DEF Executes, decoder
  <2>2. FrameOK' /\ evm'.status # "decoding"
    <3>1. CASE Proceeds
      BY <2>1, <3>1 DEF Proceeds, FrameOK, Counted
    <3>2. ASSUME NEW m \in Nat, Fail(m)
          PROVE  FrameOK' /\ evm'.status # "decoding"
      <4>1. evm' = [evm EXCEPT !.status = "reverted", !.used = evm.limit, !.memory = m]
            /\ ret' = NoData
        BY <3>2 DEF Fail
      <4>2. evm \in EvmType
        BY DEF Inv, FrameOK
      <4>3. /\ evm' \in EvmType /\ evm'.status = "reverted" /\ evm'.stack = evm.stack
            /\ evm'.pc = evm.pc /\ evm'.used = evm.limit /\ evm'.limit = evm.limit
            /\ evm.limit \in Nat
        BY <4>1, <4>2 DEF EvmType
      <4>4. ret' \in RetType
        BY <4>1 DEF NoData, RetType
      <4>5. Counted(evm')
        BY <4>3 DEF Counted
      <4>6. /\ Len(evm'.stack) <= StackLimit /\ evm'.pc <= Len(instructions')
        BY <2>1, <4>3 DEF Inv, FrameOK
      <4> QED BY <4>3, <4>4, <4>5, <4>6 DEF FrameOK, Counted
    <3>3. CASE Panic
      <4>1. evm' = [evm EXCEPT !.status = "panicked"] /\ ret' = ret
        BY <3>3 DEF Panic
      <4>2. evm \in EvmType /\ Counted(evm)
        BY DEF Inv, FrameOK
      <4>3. /\ evm' \in EvmType /\ evm'.status = "panicked" /\ evm'.stack = evm.stack
            /\ evm'.pc = evm.pc /\ evm'.used = evm.used /\ evm'.limit = evm.limit
        BY <4>1, <4>2 DEF EvmType
      <4>4. Counted(evm')
        BY <4>2, <4>3 DEF Counted
      <4> QED BY <2>1, <4>1, <4>3, <4>4 DEF Inv, FrameOK, Counted
    <3> QED BY <2>1, <3>1, <3>2, <3>3 DEF FrameStep
  <2> QED BY <2>1, <2>2 DEF Inv, DecoderType, JumpTable, FirstAtZero, Decoded
<1>4. CASE RunOff
  <2>1. /\ evm.status = "running" /\ evm' = [evm EXCEPT !.status = "stopped"]
        /\ bytecode' = bytecode /\ pos' = pos /\ instructions' = instructions
        /\ jumptable' = jumptable /\ ret' = ret
    BY <1>4 DEF RunOff, decoder
  <2>2. /\ evm' \in EvmType /\ evm'.status = "stopped" /\ evm'.stack = evm.stack
        /\ evm'.pc = evm.pc /\ evm'.memory = evm.memory /\ evm'.mem_cost = evm.mem_cost
        /\ evm'.used = evm.used /\ evm'.limit = evm.limit
    BY <2>1 DEF Inv, FrameOK, EvmType
  <2>3. Counted(evm')
    BY <2>1, <2>2 DEF Inv, FrameOK, Counted
  <2>4. FrameOK'
    BY <2>1, <2>2, <2>3 DEF Inv, FrameOK, Counted
  <2> QED BY <2>1, <2>2, <2>4 DEF Inv, DecoderType, JumpTable, FirstAtZero, Decoded
<1>5. CASE Ended \/ UNCHANGED vars
  <2>1. /\ evm' = evm /\ ret' = ret /\ bytecode' = bytecode /\ pos' = pos
        /\ instructions' = instructions /\ jumptable' = jumptable
    BY <1>5 DEF Ended, vars, decoder
  <2> QED BY <2>1 DEF Inv, FrameOK, Counted, DecoderType, JumpTable, FirstAtZero, Decoded
<1> QED BY <1>1, <1>2, <1>3, <1>4, <1>5, NextCases DEF Inv

\* The conjunction of the invariants below is inductive: the cost of an opcode is a
\* natural number only because mem_cost is what the memory costs, and a jump lands
\* only because the table holds the JUMPDESTs the decoder has seen.
THEOREM MachineInvariance == Spec => []Inv
<1> QED BY InitInv, NextInv, PTL DEF Spec

\* Evm::push and pop and the opcode loop keep the stack within STACK_LIMIT and the
\* program counter in the code, whatever the code.
THEOREM MachineTypeCorrect == Spec => []TypeOK
<1>1. Inv => TypeOK
  BY TypeOKSplit DEF Inv, FrameOK
<1> QED BY <1>1, MachineInvariance, PTL

\* Decoder::decode leaves a jump table that is sorted, so that the binary search of
\* resolve_jump is right, and that holds exactly the JUMPDEST instructions.
THEOREM JumpTableAlwaysSorted == Spec => []JumpTable
<1>1. Inv => JumpTable
  BY DEF Inv
<1> QED BY <1>1, MachineInvariance, PTL

\* In a frame that has not failed the memory is whole words, Gas::used is within the
\* limit and mem_cost is what Evm::memory_expansion_cost says of the whole memory.
THEOREM MemoryAlwaysCounted == Spec => []MemoryCounted
<1>1. Inv => MemoryCounted
  BY DEF Inv, FrameOK, Counted, MemoryCounted
<1> QED BY <1>1, MachineInvariance, PTL

\* Every opcode that grows the memory pays at least the difference of the whole
\* memory's cost, the call of a precompile that costs -1 included.
THEOREM MemoryAlwaysPaid == Spec => MemoryPaid
<1>1. Inv /\ [Next]_vars => [PaidStep]_vars
  <2> SUFFICES ASSUME Inv, Next PROVE PaidStep
    BY DEF vars
  <2> SUFFICES ASSUME evm.status = "running", evm'.status \in {"running", "stopped"}
               PROVE  MemCost(evm'.memory) - MemCost(evm.memory) <= evm'.used - evm.used
    BY DEF PaidStep
  <2>1. CASE Executes
    <3>1. ~Panic /\ \A m \in Nat : ~Fail(m)
      BY DEF Panic, Fail, Inv, FrameOK, EvmType
    <3> QED BY <2>1, <3>1 DEF Executes, FrameStep, Proceeds
  <2>2. CASE RunOff
    <3>1. evm'.memory = evm.memory /\ evm'.used = evm.used
      BY <2>2 DEF RunOff, Inv, FrameOK, EvmType
    <3>2. evm.memory \in Nat /\ evm.memory <= evm.memory /\ evm.used \in Nat
      BY DEF Inv, FrameOK, EvmType
    <3>3. MemCost(evm.memory) \in Nat
      BY <3>2, MemCostMonotone
    <3> QED BY <3>1, <3>2, <3>3
  <2> QED BY <2>1, <2>2, NextCases DEF Inv, Decode, Start, Ended
<1> QED BY <1>1, MachineInvariance, PTL DEF Spec, MemoryPaid

\* JUMP and JUMPI only lead to the JUMPDEST at the offset on the stack, or JUMPI to
\* the first instruction.
THEOREM JumpsAlwaysLand == Spec => JumpsLand
<1>1. Inv /\ [Next]_vars => [JumpStep]_vars
  <2> SUFFICES ASSUME Inv, Next PROVE JumpStep
    BY DEF vars
  <2> SUFFICES ASSUME evm.status = "running", evm'.status = "running", evm'.pc # evm.pc + 1
               PROVE  \/ IsJumpdest(evm'.pc) /\ instructions[evm'.pc + 1].offset = Arg(1)
                      \/ evm'.pc = 0 /\ Arg(1) = 0 /\ Instruction.op.name = "JUMPI"
    BY DEF JumpStep
  <2>1. Executes
    <3>1. ~RunOff
      BY DEF RunOff, Inv, FrameOK, EvmType
    <3> QED BY <3>1, NextCases DEF Inv, Decode, Start, Ended
  <2>2. ~Panic /\ \A m \in Nat : ~Fail(m)
    BY DEF Panic, Fail, Inv, FrameOK, EvmType
  <2> QED BY <2>1, <2>2 DEF Executes, FrameStep, Proceeds, Landing
<1> QED BY <1>1, MachineInvariance, PTL DEF Spec, JumpsLand

-----------------------------------------------------------------------------
(* The targets of jumps *)

\* The recursion that defines IsCode has a solution, and so IsCode satisfies it.
LEMMA IsCodeUnfolds ==
  ASSUME bytecode \in Seq(Byte), NEW i \in 0..Len(bytecode)
  PROVE  IsCode[i] <=> \/ i = 0
                       \/ \E j \in 0..(i - 1) :
                            IsCode[j] /\ i = j + 1 + PushLen(Opcodes[bytecode[j + 1]])
<1> DEFINE After(j) == j + 1 + PushLen(Opcodes[bytecode[j + 1]])
           Follows(f, k) == k = 0 \/ \E j \in 0..(k - 1) : f[j] /\ k = After(j)
           Defined == {n \in Nat : \E f : f = [k \in 0..n |-> Follows(f, k)]}
           isCode == CHOOSE f : f = [k \in 0..Len(bytecode) |-> Follows(f, k)]
<1>1. 0 \in Defined
  <2> DEFINE f == [k \in 0..0 |-> TRUE]
  <2>1. f = [k \in 0..0 |-> Follows(f, k)]
    <3>1. ASSUME NEW k \in 0..0 PROVE TRUE = Follows(f, k)
      <4>1. k = 0
        OBVIOUS
      <4>2. Follows(f, k)
        BY <4>1, Zenon
      <4> HIDE DEF Follows, f
      <4> QED BY <4>2, Zenon
    <3>2. f = [k \in 0..0 |-> TRUE]
      OBVIOUS
    <3> HIDE DEF Follows, f
    <3> QED BY <3>1, <3>2, Zenon
  <2> HIDE DEF Follows, f
  <2> QED BY <2>1, Zenon
<1>2. ASSUME NEW n \in Nat, n \in Defined
      PROVE  n + 1 \in Defined
  <2>1. PICK g : g = [k \in 0..n |-> Follows(g, k)]
    BY <1>2
  <2> DEFINE h == [k \in 0..(n + 1) |-> Follows(g, k)]
  <2> HIDE DEF After
  <2>2. ASSUME NEW k \in 0..(n + 1)
        PROVE  Follows(g, k) = Follows(h, k)
    <3>1. \A j \in 0..(k - 1) : g[j] = h[j]
      <4> SUFFICES ASSUME NEW j \in 0..(k - 1) PROVE g[j] = h[j]
        OBVIOUS
      <4>1. j \in 0..n /\ j \in 0..(n + 1)
        OBVIOUS
      <4>2. g[j] = Follows(g, j)
        <5> HIDE DEF Follows
        <5> QED BY <2>1, <4>1
      <4>3. h[j] = Follows(g, j)
        <5> HIDE DEF Follows
        <5> QED BY <4>1
      <4> HIDE DEF Follows, h
      <4> QED BY <4>2, <4>3
    <3> HIDE DEF h
    <3> QED BY <3>1, Zenon
  <2>3. h = [k \in 0..(n + 1) |-> Follows(h, k)]
    <3>1. h = [k \in 0..(n + 1) |-> Follows(g, k)]
      OBVIOUS
    <3> HIDE DEF h, Follows
    <3> QED BY <2>2, <3>1, Zenon
  <2> HIDE DEF h, Follows
  <2>4. n + 1 \in Nat
    OBVIOUS
  <2> QED BY <2>3, <2>4, Zenon
<1>3. Len(bytecode) \in Defined
  <2> HIDE DEF Defined
  <2> QED BY <1>1, <1>2, SetInduction
<1>4. isCode = [k \in 0..Len(bytecode) |-> Follows(isCode, k)]
  <2> HIDE DEF Follows
  <2> QED BY <1>3
<1>5. IsCode = isCode
  BY DEF IsCode
<1>6. isCode[i] = Follows(isCode, i)
  <2> HIDE DEF Follows, isCode
  <2> QED BY <1>4
<1> HIDE DEF isCode
<1> QED BY <1>5, <1>6, Zenon

\* The decoder reads exactly the bytes that are code: those before pos are the
\* offsets of its instructions, and pos is the next one.
CodeRead ==
  /\ pos < Len(bytecode) => IsCode[pos]
  /\ \A i \in 0..(pos - 1) : IsCode[i] <=> \E k \in DOMAIN instructions : instructions[k].offset = i
  /\ \A k \in DOMAIN instructions :
       LET i == instructions[k].offset
       IN  /\ instructions[k].op = Opcodes[bytecode[i + 1]]
           /\ i + 1 + PushLen(Opcodes[bytecode[i + 1]]) <= pos \/ pos = Len(bytecode)
  /\ evm.status # "decoding" => pos = Len(bytecode)

LEMMA InitCodeRead == Init => CodeRead
<1> SUFFICES ASSUME Init PROVE CodeRead
  OBVIOUS
<1>1. bytecode \in Seq(Byte) /\ pos = 0 /\ instructions = <<>> /\ evm.status = "decoding"
  BY InitInv DEF Init, Inv, DecoderType
<1>2. 0 \in 0..Len(bytecode)
  BY <1>1
<1>3. IsCode[0]
  BY <1>1, <1>2, IsCodeUnfolds
<1> QED BY <1>1, <1>3 DEF CodeRead

LEMMA DecodeReadsCode ==
  ASSUME Inv, CodeRead, Decode
  PROVE  CodeRead'
<1> DEFINE op == Opcodes[bytecode[pos + 1]]
           new == [op |-> op, offset |-> pos, arg |-> [i \in 1..PushLen(op) |-> ByteAt(pos + i)]]
           next == pos + 1 + PushLen(op)
<1>1. /\ evm.status = "decoding" /\ pos < Len(bytecode)
      /\ instructions' = Append(instructions, new)
      /\ pos' = Least(next, Len(bytecode))
      /\ bytecode' = bytecode /\ evm' = evm
  BY DEF Decode
<1>2. /\ bytecode \in Seq(Byte) /\ pos \in Nat /\ Len(bytecode) \in Nat
      /\ bytecode[pos + 1] \in Byte
      /\ instructions \in Seq(InstructionType)
  BY <1>1 DEF Inv, DecoderType
<1>3. PushLen(op) \in 0..32
  BY <1>2, OpcodeFacts DEF PushLen
<1>4. new.op = op /\ new.offset = pos
  OBVIOUS
<1> HIDE DEF new, op
<1>5. /\ next \in Nat /\ pos < next
      /\ pos' \in Nat /\ pos < pos' /\ pos' <= Len(bytecode) /\ pos' <= next
      /\ pos' = next \/ pos' = Len(bytecode)
  <2>1. next \in Nat /\ pos < next
    <3>1. \A p \in 0..32 : pos + 1 + p \in Nat /\ pos < pos + 1 + p
      BY <1>2
    <3> QED BY <1>3, <3>1
  <2>2. pos' = Least(next, Len(bytecode)) /\ pos < Len(bytecode)
    BY <1>1
  <2> HIDE DEF next
  <2> QED BY <1>2, <2>1, <2>2 DEF Least
<1>6. /\ Len(instructions) \in Nat
      /\ DOMAIN instructions = 1..Len(instructions)
      /\ DOMAIN instructions' = 1..(Len(instructions) + 1)
      /\ \A k \in 1..Len(instructions) : instructions'[k] = instructions[k]
      /\ instructions'[Len(instructions) + 1] = new
  BY <1>1, <1>2
<1>7. IsCode' = IsCode
  BY <1>1 DEF IsCode
<1>8. \A k \in DOMAIN instructions : instructions[k].offset \in 0..(pos - 1)
  <2> SUFFICES ASSUME NEW k \in DOMAIN instructions PROVE instructions[k].offset \in 0..(pos - 1)
    OBVIOUS
  <2>1. instructions[k] \in InstructionType
    BY <1>2
  <2>2. instructions[k].offset \in Nat /\ instructions[k].offset < pos
    BY <2>1 DEF InstructionType, Inv, Decoded
  <2> QED BY <1>2, <2>2
<1>9. \A j \in 0..(pos - 1) :
        IsCode[j] => j + 1 + PushLen(Opcodes[bytecode[j + 1]]) <= pos
  BY <1>1, <1>2 DEF CodeRead
\* Between the code at pos and the next there is only data.
<1>10. ASSUME NEW q \in Nat, pos < q, q <= Len(bytecode), q <= next
       PROVE  \A i \in (pos + 1)..(q - 1) : ~IsCode[i]
  <2> DEFINE Wrong == {i \in (pos + 1)..(q - 1) : IsCode[i]}
  <2> SUFFICES ASSUME Wrong # {} PROVE FALSE
    OBVIOUS
  <2>1. Wrong \subseteq Nat
    BY <1>2
  <2>2. PICK i \in Wrong : \A j \in Wrong : i <= j
    <3> HIDE DEF Wrong
    <3> QED BY <2>1, LeastElement
  <2>3. i \in (pos + 1)..(q - 1) /\ IsCode[i]
    BY <2>2
  <2>4. i \in Nat /\ pos + 1 <= i /\ i <= q - 1 /\ i \in 0..Len(bytecode) /\ i # 0
    BY <1>2, <1>10, <2>3
  <2>5. PICK j \in 0..(i - 1) : IsCode[j] /\ i = j + 1 + PushLen(Opcodes[bytecode[j + 1]])
    BY <1>2, <2>3, <2>4, IsCodeUnfolds
  <2>6. CASE j \in 0..(pos - 1)
    BY <1>2, <1>9, <2>4, <2>5, <2>6
  <2>7. CASE j = pos
    <3>1. i = next
      BY <2>5, <2>7 DEF op
    <3> QED BY <1>5, <1>10, <2>4, <3>1
  <2>8. CASE j \in (pos + 1)..(i - 1)
    <3>1. j \in Wrong
      BY <1>2, <2>4, <2>5, <2>8
    <3> HIDE DEF Wrong
    <3>2. i <= j
      BY <2>2, <3>1
    <3> QED BY <1>2, <2>4, <2>8, <3>2
  <2> QED BY <1>2, <2>4, <2>5, <2>6, <2>7, <2>8
<1>11. IsCode[pos]
  BY <1>1 DEF CodeRead
<1>12. pos' < Len(bytecode) => IsCode[pos']
  <2>1. ASSUME NEW q \in Nat, pos < q, q < Len(bytecode), q = next
        PROVE  IsCode[q]
    <3>1. q \in 0..Len(bytecode) /\ pos \in 0..(q - 1)
      BY <1>2, <2>1
    <3>2. q = pos + 1 + PushLen(Opcodes[bytecode[pos + 1]])
      BY <2>1 DEF op
    <3> QED BY <1>2, <1>11, <3>1, <3>2, IsCodeUnfolds
  <2>2. pos' < Len(bytecode) => pos' = next
    BY <1>2, <1>5
  <2> QED BY <1>5, <2>1, <2>2
<1>13. ASSUME NEW i \in 0..(pos' - 1)
       PROVE  IsCode[i] <=> \E k \in DOMAIN instructions' : instructions'[k].offset = i
  <2>1. CASE i \in 0..(pos - 1)
    <3>1. IsCode[i] <=> \E k \in DOMAIN instructions : instructions[k].offset = i
      BY <2>1 DEF CodeRead
    <3>2. new.offset # i
      BY <1>2, <1>4, <2>1
    <3> QED BY <1>6, <3>1, <3>2
  <2>2. CASE i = pos
    <3>1. /\ Len(instructions) + 1 \in DOMAIN instructions'
          /\ instructions'[Len(instructions) + 1].offset = i
      BY <1>4, <1>6, <2>2
    <3> QED BY <1>11, <2>2, <3>1
  <2>3. CASE i \in (pos + 1)..(pos' - 1)
    <3>1. ~IsCode[i]
      BY <1>5, <1>10, <2>3
    <3>2. ASSUME NEW k \in DOMAIN instructions' PROVE instructions'[k].offset # i
      <4>1. CASE k \in 1..Len(instructions)
        <5>1. instructions'[k].offset \in 0..(pos - 1)
          BY <1>6, <1>8, <4>1
        <5> QED BY <1>2, <2>3, <5>1
      <4>2. CASE k = Len(instructions) + 1
        BY <1>2, <1>4, <1>6, <2>3, <4>2
      <4> QED BY <1>6, <4>1, <4>2
    <3> QED BY <3>1, <3>2
  <2>4. i \in 0..(pos - 1) \/ i = pos \/ i \in (pos + 1)..(pos' - 1)
    <3>1. ASSUME NEW p \in Nat, NEW q \in Nat, NEW j \in 0..(q - 1)
          PROVE  j \in 0..(p - 1) \/ j = p \/ j \in (p + 1)..(q - 1)
      OBVIOUS
    <3> QED BY <1>2, <1>5, <3>1
  <2> QED BY <2>1, <2>2, <2>3, <2>4
<1>14. ASSUME NEW k \in DOMAIN instructions'
       PROVE  LET i == instructions'[k].offset
              IN  /\ instructions'[k].op = Opcodes[bytecode[i + 1]]
                  /\ i + 1 + PushLen(Opcodes[bytecode[i + 1]]) <= pos' \/ pos' = Len(bytecode)
  <2>1. CASE k \in 1..Len(instructions)
    <3> DEFINE i == instructions[k].offset
    <3>1. instructions'[k] = instructions[k] /\ k \in DOMAIN instructions
      BY <1>6, <2>1
    <3>2. instructions[k].op = Opcodes[bytecode[i + 1]]
      BY <3>1 DEF CodeRead
    <3>3. i + 1 + PushLen(Opcodes[bytecode[i + 1]]) <= pos
      BY <1>1, <1>2, <3>1 DEF CodeRead
    <3>4. i \in Nat /\ i + 1 \in 1..Len(bytecode)
      BY <1>1, <1>2, <1>8, <3>1
    <3>5. PushLen(Opcodes[bytecode[i + 1]]) \in 0..32
      <4>1. bytecode[i + 1] \in Byte
        BY <1>2, <3>4
      <4> QED BY <4>1, OpcodeFacts DEF PushLen
    <3> HIDE DEF i
    <3>6. i + 1 + PushLen(Opcodes[bytecode[i + 1]]) <= pos'
      <4>1. pos \in Nat /\ pos' \in Nat /\ pos < pos'
        BY <1>2, <1>5
      <4>2. ASSUME NEW p \in 0..32, i + 1 + p <= pos PROVE i + 1 + p <= pos'
        BY <3>4, <4>1, <4>2
      <4> QED BY <3>3, <3>5, <4>2
    <3> QED BY <3>1, <3>2, <3>6 DEF i
  <2>2. CASE k = Len(instructions) + 1
    <3>1. instructions'[k].offset = pos /\ instructions'[k].op = op
      BY <1>4, <1>6, <2>2
    <3>2. pos + 1 + PushLen(Opcodes[bytecode[pos + 1]]) <= pos' \/ pos' = Len(bytecode)
      BY <1>5 DEF op
    <3> QED BY <3>1, <3>2 DEF op
  <2> QED BY <1>6, <2>1, <2>2
<1> QED BY <1>1, <1>7, <1>12, <1>13, <1>14 DEF CodeRead

LEMMA NextCodeRead == Inv /\ CodeRead /\ [Next]_vars => CodeRead'
<1> SUFFICES ASSUME Inv, CodeRead, [Next]_vars PROVE CodeRead'
  OBVIOUS
<1>1. CASE Decode
  BY <1>1, DecodeReadsCode
<1>2. CASE Start
  <2>1. pos = Len(bytecode)
    BY <1>2 DEF Start, Inv, DecoderType
  <2>2. bytecode' = bytecode /\ pos' = pos /\ instructions' = instructions
    BY <1>2 DEF Start, decoder
  <2>3. IsCode' = IsCode
    BY <2>2 DEF IsCode
  <2> QED BY <2>1, <2>2, <2>3 DEF CodeRead
<1>3. CASE Executes \/ RunOff \/ Ended \/ UNCHANGED vars
  <2>1. bytecode' = bytecode /\ pos' = pos /\ instructions' = instructions
    BY <1>3 DEF Executes, RunOff, Ended, vars, decoder
  <2>2. evm.status # "decoding" \/ evm' = evm
    BY <1>3 DEF Executes, RunOff, Ended, vars
  <2>3. IsCode' = IsCode
    BY <2>1 DEF IsCode
  <2> QED BY <2>1, <2>2, <2>3 DEF CodeRead
<1> QED BY <1>1, <1>2, <1>3, NextCases DEF Inv

\* Decoder::decode makes exactly the bytes 0x5b that are code targets of a jump, and
\* never one in the data of a PUSH, of any byte code.
THEOREM TargetsAreAlwaysCode == Spec => []TargetsAreCode
<1>1. Spec => []CodeRead
  BY InitCodeRead, NextCodeRead, MachineInvariance, PTL DEF Spec
<1>2. Inv /\ CodeRead => TargetsAreCode
  <2> SUFFICES ASSUME Inv, CodeRead, evm.status # "decoding", NEW i \in 0..(Len(bytecode) - 1)
               PROVE  (\E k \in DOMAIN jumptable : jumptable[k][1] = i)
                        <=> (bytecode[i + 1] = 91 /\ IsCode[i])
    BY DEF TargetsAreCode
  <2>1. i \in 0..(pos - 1) /\ bytecode[i + 1] \in Byte
    BY DEF CodeRead, Inv, DecoderType
  <2>2. ASSUME NEW k \in DOMAIN jumptable, jumptable[k][1] = i
        PROVE  bytecode[i + 1] = 91 /\ IsCode[i]
    <3>1. PICK at \in DOMAIN instructions : /\ instructions[at].offset = i
                                            /\ instructions[at].op.name = "JUMPDEST"
      BY <2>2 DEF Inv, JumpTable
    <3>2. instructions[at].op = Opcodes[bytecode[i + 1]]
      BY <3>1 DEF CodeRead
    <3> QED BY <2>1, <3>1, <3>2, OpcodeFacts DEF CodeRead
  <2>3. ASSUME bytecode[i + 1] = 91, IsCode[i]
        PROVE  \E k \in DOMAIN jumptable : jumptable[k][1] = i
    <3>1. PICK at \in DOMAIN instructions : instructions[at].offset = i
      BY <2>1, <2>3 DEF CodeRead
    <3>2. instructions[at].op.name = "JUMPDEST"
      BY <2>1, <2>3, <3>1, OpcodeFacts DEF CodeRead
    <3>3. PICK k \in DOMAIN jumptable : jumptable[k] = <<instructions[at].offset, at - 1>>
      BY <3>1, <3>2 DEF Inv, JumpTable
    <3> QED BY <3>1, <3>3
  <2> QED BY <2>2, <2>3
<1> QED BY <1>1, <1>2, MachineInvariance, PTL

\* Decoder::decode leaves a table that leads from exactly the bytes 0x5b that are code
\* to their instructions, and that is sorted for the search of resolve_jump.
THEOREM JumpTableAlwaysExact == Spec => []JumpTableExact
<1>1. JumpTable /\ TargetsAreCode => JumpTableExact
  BY DEF JumpTableExact
<1> QED BY <1>1, JumpTableAlwaysSorted, TargetsAreAlwaysCode, PTL
=============================================================================
