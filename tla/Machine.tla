------------------------------- MODULE Machine -------------------------------
(***************************************************************************)
(* One call frame as a machine: Decoder::decode and resolve_jump           *)
(* (src/src/decoder.rs), the opcode loop and the opcodes that move the     *)
(* program counter, the stack and the memory of an Evm                     *)
(* (src/src/executor.rs).                                                  *)
(*                                                                         *)
(* The words on the stack are numbers that fit a usize; of the memory only *)
(* its length matters.  The result of an opcode that computes or looks     *)
(* something up is any member of Words.  What opcodes do to accounts and   *)
(* storage is in module Frames, what a callee costs is in module Gas; of a *)
(* frame's logs nothing is kept, since no code reads them.                 *)
(***************************************************************************)
EXTENDS Integers, Sequences

CONSTANTS
  Starts,        \* the frames executed: their byte code, gas and call type
  Words,         \* the words opcodes look up or compute
  AccessCosts,   \* what the access to an address costs: 100 warm, 2600 cold
  CalleeCosts,   \* the gas a callee or precompile may take
  ReturnSizes,   \* the sizes of what a callee returns
  StackLimit,    \* STACK_LIMIT
  AllocLimit     \* ALLOCATION_SANITY_LIMIT

Byte == 0..255

CallTypes == {"Call", "Callcode", "Delegate", "Static", "Create", "Create2"}

\* No code is longer than the memory may be.
ASSUME StartAssumption ==
  \A s \in Starts : /\ DOMAIN s = {"code", "gas", "callType"}
                    /\ s.code \in Seq(Byte) /\ Len(s.code) <= AllocLimit
                    /\ s.gas \in Nat /\ s.callType \in CallTypes

ASSUME AmountsAssumption ==
  /\ Words \subseteq Nat /\ AccessCosts \subseteq Nat \ {0}
  /\ CalleeCosts \subseteq Nat /\ ReturnSizes \subseteq Nat
  /\ StackLimit \in Nat /\ AllocLimit \in Nat

VARIABLES
  bytecode, pos, instructions, jumptable,  \* the locals of Decoder::decode
  evm,                                     \* Evm, with the call type of its Context
  ret                                      \* Executor::ret, its size and whose data it is

decoder == <<bytecode, pos, instructions, jumptable>>
vars    == <<decoder, evm, ret>>

-----------------------------------------------------------------------------
(* opcodes::OPCODES *)

Row0 == <<"STOP", "ADD", "MUL", "SUB", "DIV", "SDIV", "MOD", "SMOD", "ADDMOD", "MULMOD",
          "EXP", "SIGNEXTEND">>
Row1 == <<"LT", "GT", "SLT", "SGT", "EQ", "ISZERO", "AND", "OR", "XOR", "NOT", "BYTE",
          "SHL", "SHR", "SAR", "CLZ">>
Row3 == <<"ADDRESS", "BALANCE", "ORIGIN", "CALLER", "CALLVALUE", "CALLDATALOAD",
          "CALLDATASIZE", "CALLDATACOPY", "CODESIZE", "CODECOPY", "GASPRICE", "EXTCODESIZE",
          "EXTCODECOPY", "RETURNDATASIZE", "RETURNDATACOPY", "EXTCODEHASH">>
Row4 == <<"BLOCKHASH", "COINBASE", "TIMESTAMP", "NUMBER", "PREVRANDAO", "GASLIMIT",
          "CHAINID", "SELFBALANCE", "BASEFEE", "BLOBHASH", "BLOBBASEFEE">>
Row5 == <<"POP", "MLOAD", "MSTORE", "MSTORE8", "SLOAD", "SSTORE", "JUMP", "JUMPI", "PC",
          "MSIZE", "GAS", "JUMPDEST", "TLOAD", "TSTORE", "MCOPY", "PUSH0">>
RowF == <<"CREATE", "CALL", "CALLCODE", "RETURN", "DELEGATECALL", "CREATE2">>

\* The name of an opcode and the n in it.  A byte that is no opcode becomes INVALID:
\* the table gives it the code 0xfe.
Opcodes ==
  LET Named(name) == [name |-> name, n |-> 0]
      Numbered(name, n) == [name |-> name, n |-> n]
  IN  [b \in Byte |->
        CASE b \in 0..11    -> Named(Row0[b + 1])
          [] b \in 16..30   -> Named(Row1[b - 15])
          [] b = 32         -> Named("SHA3")
          [] b \in 48..63   -> Named(Row3[b - 47])
          [] b \in 64..74   -> Named(Row4[b - 63])
          [] b \in 80..95   -> Named(Row5[b - 79])
          [] b \in 96..127  -> Numbered("PUSH", b - 95)
          [] b \in 128..143 -> Numbered("DUP", b - 127)
          [] b \in 144..159 -> Numbered("SWAP", b - 143)
          [] b \in 160..164 -> Numbered("LOG", b - 160)
          [] b \in 240..245 -> Named(RowF[b - 239])
          [] b = 250        -> Named("STATICCALL")
          [] b = 253        -> Named("REVERT")
          [] b = 255        -> Named("SELFDESTRUCT")
          [] OTHER          -> Named("INVALID")]

\* Opcode: what a byte may be decoded to.
Opcode == {Opcodes[b] : b \in Byte}

-----------------------------------------------------------------------------
(* The decoder *)

Least(x, y) == IF x <= y THEN x ELSE y
Most(x, y)  == IF x >= y THEN x ELSE y

\* Opcode::push_len.
PushLen(op) == IF op.name = "PUSH" THEN op.n ELSE 0

\* The byte at offset i, zero beyond the end of the code.
ByteAt(i) == IF i < Len(bytecode) THEN bytecode[i + 1] ELSE 0

\* (mutant) The data of a PUSH is decoded as code.
DecodeIntoData ==
  LET op == Opcodes[bytecode[pos + 1]]
  IN  /\ evm.status = "decoding"
      /\ pos < Len(bytecode)
      /\ instructions' = Append(instructions,
           [op |-> op, offset |-> pos, arg |-> [i \in 1..PushLen(op) |-> ByteAt(pos + i)]])
      /\ jumptable' = IF op.name = "JUMPDEST"
                      THEN Append(jumptable, <<pos, Len(instructions)>>) ELSE jumptable
      /\ pos' = pos + 1
      /\ UNCHANGED <<bytecode, evm, ret>>

\* One iteration of the loop: the instruction at pos, its argument filled up with
\* zeros where the code ends, and an entry of the jump table for a JUMPDEST.
Decode ==
  LET op == Opcodes[bytecode[pos + 1]]
  IN  /\ evm.status = "decoding"
      /\ pos < Len(bytecode)
      /\ instructions' = Append(instructions,
           [op |-> op, offset |-> pos, arg |-> [i \in 1..PushLen(op) |-> ByteAt(pos + i)]])
      /\ jumptable' = IF op.name = "JUMPDEST"
                      THEN Append(jumptable, <<pos, Len(instructions)>>) ELSE jumptable
      /\ pos' = Least(pos + 1 + PushLen(op), Len(bytecode))
      /\ UNCHANGED <<bytecode, evm, ret>>

\* The code is decoded and its execution starts.
Start ==
  /\ evm.status = "decoding"
  /\ pos >= Len(bytecode)
  /\ evm' = [evm EXCEPT !.status = "running"]
  /\ UNCHANGED <<decoder, ret>>

NoTarget == -1

\* Bytecode::resolve_jump: the index of the instruction at an offset.  The binary
\* search finds an entry because the table is sorted (JumpTable).
ResolveJump(offset) ==
  IF offset = 0 THEN 0
  ELSE IF \E i \in DOMAIN jumptable : jumptable[i][1] = offset
       THEN jumptable[CHOOSE i \in DOMAIN jumptable : jumptable[i][1] = offset][2]
       ELSE NoTarget

-----------------------------------------------------------------------------
(* The loop *)

NoData == [size |-> 0, from |-> "self"]

Instruction == instructions[evm.pc + 1]
Remaining   == evm.limit - evm.used

Running == evm.status = "running" /\ evm.pc < Len(instructions)

At(names) == Running /\ Instruction.op.name \in names

\* Evm::peek and pop: the i-th word from the top, and the stack without n words.
Arg(i)    == evm.stack[Len(evm.stack) + 1 - i]
HasArgs(n) == Len(evm.stack) >= n
Drop(n)   == SubSeq(evm.stack, 1, Len(evm.stack) - n)

\* (mutant) One word more than the limit is accepted.
HasRoomForOneMore(s) == Len(s) <= StackLimit

\* Evm::push fails when the stack is full.
HasRoom(s) == Len(s) < StackLimit

\* The frame fails, returns nothing, and all its gas is gone.  Its stack is not
\* read again.
Fail(memory) ==
  /\ evm' = [evm EXCEPT !.status = "reverted", !.used = evm.limit, !.memory = memory]
  /\ ret' = NoData

\* The process panics.
Panic ==
  /\ evm' = [evm EXCEPT !.status = "panicked"]
  /\ UNCHANGED ret

Charge(e, cost) == [e EXCEPT !.used = @ + cost]

\* The opcode goes on at instruction pc, if there is gas for it.
Continue(stack, pc, cost) ==
  IF cost <= Remaining
  THEN evm' = Charge([evm EXCEPT !.stack = stack, !.pc = pc], cost) /\ UNCHANGED ret
  ELSE Fail(evm.memory)

Words32(n) == (n + 31) \div 32

\* Evm::memory_expansion_cost, of a memory of n bytes in all.
MemCost(n) == (Words32(n) * Words32(n)) \div 512 + 3 * Words32(n)

\* (mutant) The memory ends where it is needed.
GrownUnpadded(end) == IF end > evm.memory THEN end ELSE evm.memory

\* The length of the memory when bytes up to end are needed.
Grown(end) == IF end > evm.memory THEN end + ((32 - (end % 32)) % 32) ELSE evm.memory

\* The end of a region of which an empty one needs no memory.
End(offset, size) == IF size > 0 THEN offset + size ELSE 0

\* Memory is not allocated beyond the limit.
CanGrow(end) == end > evm.memory => end <= AllocLimit

Expansion(memory) == MemCost(memory) - evm.mem_cost

Resized(memory) == [evm EXCEPT !.memory = memory, !.mem_cost = MemCost(memory)]

\* (mutant) The memory is paid for only as it is now.
ContinueUncounted(stack, memory, cost) ==
  LET total == cost + Expansion(evm.memory)
  IN  IF total <= Remaining
      THEN /\ evm' = Charge([Resized(memory) EXCEPT !.stack = stack, !.pc = @ + 1], total)
           /\ UNCHANGED ret
      ELSE Fail(memory)

\* The opcode goes on with a memory that has grown and is paid for.
ContinueGrown(stack, memory, cost) ==
  LET total == cost + Expansion(memory)
  IN  IF total <= Remaining
      THEN /\ evm' = Charge([Resized(memory) EXCEPT !.stack = stack, !.pc = @ + 1], total)
           /\ UNCHANGED ret
      ELSE Fail(memory)

-----------------------------------------------------------------------------
(* Opcodes *)

\* The opcodes that take words from the stack and leave at most one.
Nullary == {"ADDRESS", "ORIGIN", "CALLER", "CALLVALUE", "CALLDATASIZE", "CODESIZE",
            "GASPRICE", "RETURNDATASIZE", "COINBASE", "TIMESTAMP", "NUMBER", "PREVRANDAO",
            "GASLIMIT", "CHAINID", "SELFBALANCE", "BASEFEE", "BLOBBASEFEE", "PC", "MSIZE",
            "GAS", "PUSH0"}
Unary   == {"ISZERO", "NOT", "CLZ", "BALANCE", "CALLDATALOAD", "EXTCODESIZE", "EXTCODEHASH",
            "BLOCKHASH", "BLOBHASH", "SLOAD", "TLOAD"}
Binary  == {"ADD", "MUL", "SUB", "DIV", "SDIV", "MOD", "SMOD", "EXP", "SIGNEXTEND", "LT",
            "GT", "SLT", "SGT", "EQ", "AND", "OR", "XOR", "BYTE", "SHL", "SHR", "SAR"}
Ternary == {"ADDMOD", "MULMOD"}
Silent  == {"POP", "TSTORE", "SSTORE"}

Taken(name) == CASE name \in Nullary -> 0
                 [] name \in Unary \cup {"POP"} -> 1
                 [] name \in Binary \cup {"TSTORE", "SSTORE"} -> 2
                 [] name \in Ternary -> 3

\* What they cost; EXP by the bytes of its exponent, SSTORE as in module Gas.
Costs(name) ==
  CASE name \in {"MUL", "DIV", "SDIV", "MOD", "SMOD", "SIGNEXTEND", "CLZ", "SELFBALANCE"} -> {5}
    [] name \in Ternary -> {8}
    [] name = "EXP" -> {10 + 50 * n : n \in 0..32}
    [] name = "BLOCKHASH" -> {20}
    [] name \in {"BALANCE", "EXTCODESIZE", "EXTCODEHASH"} -> AccessCosts
    [] name = "SLOAD" -> {100, 2100}
    [] name = "SSTORE" -> {100, 2200, 2900, 5000, 20000, 22100}
    [] name \in {"TLOAD", "TSTORE"} -> {100}
    [] name \in (Nullary \ {"SELFBALANCE"}) \cup {"POP"} -> {2}
    [] OTHER -> {3}

\* The word an opcode leaves, where the frame itself determines it.
Result(name, word) ==
  CASE name = "PC" -> Instruction.offset
    [] name = "MSIZE" -> evm.memory
    [] name = "GAS" -> Remaining - 2
    [] name = "CODESIZE" -> Len(bytecode)
    [] name = "RETURNDATASIZE" -> ret.size
    [] name \in {"PUSH0", "PREVRANDAO", "BLOBHASH"} -> 0
    [] name = "CHAINID" -> 1
    [] OTHER -> word

\* The arithmetic that panics: a remainder by zero, and the sign bit of a byte that
\* a word does not have.
Undefined(name) == \/ name = "MULMOD" /\ Arg(3) = 0
                   \/ name = "SIGNEXTEND" /\ Arg(1) > 31

Compute(word) ==
  LET name == Instruction.op.name
      rest == Drop(Taken(name))
  IN  /\ At(Nullary \cup Unary \cup Binary \cup Ternary \cup Silent)
      /\ \E cost \in Costs(name) :
           IF ~ (HasArgs(Taken(name)) /\ (name \notin Silent => HasRoom(rest)))
           THEN Fail(evm.memory)
           ELSE IF Undefined(name) /\ cost <= Remaining
           THEN Panic
           ELSE Continue(IF name \in Silent THEN rest ELSE Append(rest, Result(name, word)),
                         evm.pc + 1, cost)
      /\ UNCHANGED decoder

\* An opcode fails on grounds outside of the frame: what it asks of Ext cannot be
\* fetched, a static call forbids it, or SSTORE takes back more refund than there is
\* gas (module Gas).
Refused ==
  /\ At({"BALANCE", "EXTCODESIZE", "EXTCODECOPY", "EXTCODEHASH", "BLOCKHASH", "SELFBALANCE",
         "SLOAD", "SSTORE", "LOG", "CREATE", "CALL", "CALLCODE", "DELEGATECALL", "CREATE2",
         "STATICCALL", "SELFDESTRUCT"})
  /\ Fail(evm.memory)
  /\ UNCHANGED decoder

\* Word::from_bytes of the argument.
ArgWord(arg) ==
  LET word[i \in 0..Len(arg)] == IF i = 0 THEN 0 ELSE 256 * word[i - 1] + arg[i]
  IN  word[Len(arg)]

PUSH ==
  /\ At({"PUSH"})
  /\ IF HasRoom(evm.stack)
     THEN Continue(Append(evm.stack, ArgWord(Instruction.arg)), evm.pc + 1, 3)
     ELSE Fail(evm.memory)
  /\ UNCHANGED decoder

DUP ==
  LET n == Instruction.op.n
  IN  /\ At({"DUP"})
      /\ IF HasArgs(n) /\ HasRoom(evm.stack)
         THEN Continue(Append(evm.stack, Arg(n)), evm.pc + 1, 3)
         ELSE Fail(evm.memory)
      /\ UNCHANGED decoder

SWAP ==
  LET n   == Instruction.op.n
      top == Len(evm.stack)
  IN  /\ At({"SWAP"})
      /\ IF HasArgs(n + 1)
         THEN Continue([evm.stack EXCEPT ![top] = Arg(n + 1), ![top - n] = Arg(1)],
                       evm.pc + 1, 3)
         ELSE Fail(evm.memory)
      /\ UNCHANGED decoder

IsJumpdest(pc) == pc < Len(instructions) /\ instructions[pc + 1].op.name = "JUMPDEST"

JUMPDEST ==
  /\ At({"JUMPDEST"})
  /\ Continue(evm.stack, evm.pc + 1, 1)
  /\ UNCHANGED decoder

\* (mutant) The offset is taken for the index of an instruction.
JUMPToIndex ==
  LET dest == Arg(1)
  IN  /\ At({"JUMP"})
      /\ IF HasArgs(1) /\ dest < Len(instructions)
         THEN Continue(Drop(1), dest, 8)
         ELSE Fail(evm.memory)
      /\ UNCHANGED decoder

JUMP ==
  LET dest == ResolveJump(Arg(1))
  IN  /\ At({"JUMP"})
      /\ IF HasArgs(1) /\ dest # NoTarget /\ IsJumpdest(dest)
         THEN Continue(Drop(1), dest, 8)
         ELSE Fail(evm.memory)
      /\ UNCHANGED decoder

\* Unlike JUMP, JUMPI accepts instruction 0 whatever it is.
JUMPI ==
  LET dest  == ResolveJump(Arg(1))
      taken == Arg(2) # 0
  IN  /\ At({"JUMPI"})
      /\ IF HasArgs(2) /\ (taken => dest # NoTarget /\ (IsJumpdest(dest) \/ dest = 0))
         THEN Continue(Drop(2), IF taken THEN dest ELSE evm.pc + 1, 10)
         ELSE Fail(evm.memory)
      /\ UNCHANGED decoder

\* MLOAD leaves a word; MSTORE and MSTORE8 take one.
MLOAD(word) ==
  LET end == Arg(1) + 32
  IN  /\ At({"MLOAD"})
      /\ IF HasArgs(1) /\ CanGrow(end)
         THEN ContinueGrown(Append(Drop(1), word), Grown(end), 3)
         ELSE Fail(evm.memory)
      /\ UNCHANGED decoder

MSTORE ==
  LET end == Arg(1) + (IF Instruction.op.name = "MSTORE" THEN 32 ELSE 1)
  IN  /\ At({"MSTORE", "MSTORE8"})
      /\ IF HasArgs(2) /\ CanGrow(end)
         THEN ContinueGrown(Drop(2), Grown(end), 3)
         ELSE Fail(evm.memory)
      /\ UNCHANGED decoder

\* CODECOPY, EXTCODECOPY and RETURNDATACOPY: the memory grows to the offset even
\* if nothing is copied.  Code is filled up, but not beyond the limit; return data
\* is not.
Copy(access) ==
  LET name   == Instruction.op.name
      first  == IF name = "EXTCODECOPY" THEN 2 ELSE 1
      end    == Arg(first) + Arg(first + 2)
      source == Arg(first + 1) + Arg(first + 2)
      base   == IF name = "EXTCODECOPY" THEN access ELSE 3
  IN  /\ At({"CODECOPY", "EXTCODECOPY", "RETURNDATACOPY"})
      /\ IF HasArgs(first + 2) /\ CanGrow(end)
         THEN IF name = "RETURNDATACOPY" \/ source <= AllocLimit
              THEN ContinueGrown(Drop(first + 2), Grown(end), base + 3 * Words32(Arg(first + 2)))
              ELSE Fail(Grown(end))
         ELSE Fail(evm.memory)
      /\ UNCHANGED decoder

CALLDATACOPY ==
  LET end == End(Arg(1), Arg(3))
  IN  /\ At({"CALLDATACOPY"})
      /\ IF HasArgs(3) /\ CanGrow(end)
         THEN IF End(Arg(2), Arg(3)) <= AllocLimit
              THEN ContinueGrown(Drop(3), Grown(end), 3 + 3 * Words32(Arg(3)))
              ELSE Fail(Grown(end))
         ELSE Fail(evm.memory)
      /\ UNCHANGED decoder

\* The limit is checked for the destination only.
MCOPY ==
  LET end  == Most(End(Arg(1), Arg(3)), End(Arg(2), Arg(3)))
      cost == 3 + 3 * Words32(Arg(3))
  IN  /\ At({"MCOPY"})
      /\ IF HasArgs(3) /\ cost <= Remaining /\ (end > evm.memory => End(Arg(1), Arg(3)) <= AllocLimit)
         THEN ContinueGrown(Drop(3), Grown(end), cost)
         ELSE Fail(evm.memory)
      /\ UNCHANGED decoder

\* SHA3 reads zeros beyond the memory, which does not grow.
SHA3(word) ==
  /\ At({"SHA3"})
  /\ IF HasArgs(2) /\ Arg(2) <= AllocLimit
     THEN Continue(Append(Drop(2), word), evm.pc + 1, 30 + 6 * Words32(Arg(2)))
     ELSE Fail(evm.memory)
  /\ UNCHANGED decoder

\* The memory does not grow here either.
LOG ==
  LET n == Instruction.op.n
  IN  /\ At({"LOG"})
      /\ IF HasArgs(2 + n) /\ CanGrow(Arg(1) + Arg(2))
         THEN Continue(Drop(2 + n), evm.pc + 1, 375 + 375 * n + 8 * Arg(2))
         ELSE Fail(evm.memory)
      /\ UNCHANGED decoder

-----------------------------------------------------------------------------
(* Calls and creations, as their frame sees them *)

\* The operands of Executor::call: DELEGATECALL and STATICCALL have no value.
Calls     == {"CALL", "CALLCODE", "DELEGATECALL", "STATICCALL"}
HasValue  == Instruction.op.name \in {"CALL", "CALLCODE"}
Operands  == IF HasValue THEN 7 ELSE 6
Transfers == HasValue /\ Arg(3) # 0
CallEnd   == Most(End(Arg(Operands - 3), Arg(Operands - 2)), End(Arg(Operands - 1), Arg(Operands)))
Stipend   == IF Transfers THEN 2300 ELSE 0

\* access is for the address and what it delegates to, and for the new account.
BaseCost(access) == access + Expansion(Grown(CallEnd)) + (IF Transfers THEN 9000 ELSE 0)

CanCall(access) ==
  HasArgs(Operands) /\ CanGrow(CallEnd) /\ BaseCost(access) <= Remaining

\* The call fails before a callee is entered.
CallFails(access) ==
  /\ At(Calls)
  /\ ~CanCall(access)
  /\ Fail(IF HasArgs(Operands) /\ CanGrow(CallEnd) THEN Grown(CallEnd) ELSE evm.memory)
  /\ UNCHANGED decoder

AllButOne64th(gas) == gas - gas \div 64

Called(cost, flag) ==
  evm' = Charge([Resized(Grown(CallEnd)) EXCEPT !.stack = Append(Drop(Operands), flag),
                                                !.pc = @ + 1], cost)

\* The callee has returned or reverted and used no more gas than it was forwarded.
CallReturns(access, callee, flag, size) ==
  /\ At(Calls)
  /\ CanCall(access)
  /\ callee <= Least(Arg(1), AllButOne64th(Remaining - BaseCost(access))) + Stipend
  /\ Called(BaseCost(access) + callee - Stipend, flag)
  /\ ret' = [size |-> size, from |-> "callee"]
  /\ UNCHANGED decoder

\* A region of no bytes that starts beyond the memory is no slice of it.
Sliceable(offset, size, memory) == size > 0 \/ offset <= memory

\* A precompile is not held to the gas it is forwarded, leaves the return data
\* alone when it fails, and costs -1 if it is a MODEXP that is too large.
CallPrecompile(access, cost, ok, size) ==
  LET m == Grown(CallEnd)
  IN  /\ At(Calls)
      /\ CanCall(access)
      /\ IF ~ Sliceable(Arg(Operands - 3), Arg(Operands - 2), m)
         THEN Panic
         ELSE IF ~ Sliceable(Arg(Operands - 1), Arg(Operands), m)
         THEN Panic
         ELSE IF BaseCost(access) + cost > Remaining
         THEN Fail(m)
         ELSE /\ Called(BaseCost(access) + cost, IF ok THEN 1 ELSE 0)
              /\ ret' = IF ok THEN [size |-> size, from |-> "callee"] ELSE ret
      /\ UNCHANGED decoder

\* Executor::create; without gas for its base cost it panics.  CREATE hands on the
\* call type of its frame, so in init code that CREATE2 runs it takes a salt and is
\* charged for its hash as well.
CREATE(callee, word) ==
  LET type == IF Instruction.op.name = "CREATE2" THEN "Create2" ELSE evm.callType
      n    == IF type = "Create2" THEN 4 ELSE 3
      end  == End(Arg(2), Arg(3))
      m    == Grown(end)
      paid == Expansion(m) + 32000 + (IF n = 4 THEN 8 ELSE 2) * Words32(Arg(3))
  IN  /\ At({"CREATE", "CREATE2"})
      /\ IF ~ (HasArgs(n) /\ CanGrow(end))
         THEN Fail(evm.memory)
         ELSE IF ~ Sliceable(Arg(2), Arg(3), m) \/ paid >= Remaining
         THEN Panic
         ELSE /\ callee <= AllButOne64th(Remaining - paid)
              /\ evm' = Charge([Resized(m) EXCEPT !.stack = Append(Drop(n), word),
                                                  !.pc = @ + 1], paid + callee)
              /\ UNCHANGED ret
      /\ UNCHANGED decoder

-----------------------------------------------------------------------------
(* The end of a frame *)

STOP ==
  /\ At({"STOP"})
  /\ evm' = [evm EXCEPT !.status = "stopped", !.pc = Len(instructions)]
  /\ ret' = NoData
  /\ UNCHANGED decoder

INVALID ==
  /\ At({"INVALID"})
  /\ Fail(evm.memory)
  /\ UNCHANGED decoder

\* RETURN and REVERT pay for the memory they return.
RETURN ==
  LET size   == Arg(2)
      end    == End(Arg(1), size)
      m      == Grown(end)
      status == IF Instruction.op.name = "REVERT" THEN "reverted" ELSE "stopped"
  IN  /\ At({"RETURN", "REVERT"})
      /\ IF HasArgs(2) /\ CanGrow(end)
         THEN IF Expansion(m) <= Remaining
              THEN /\ evm' = Charge([Resized(m) EXCEPT !.stack = Drop(2), !.pc = @ + 1,
                                                       !.status = status], Expansion(m))
                   /\ ret' = [size |-> size, from |-> "self"]
              ELSE Fail(m)
         ELSE Fail(evm.memory)
      /\ UNCHANGED decoder

SELFDESTRUCT(cost) ==
  /\ At({"SELFDESTRUCT"})
  /\ IF HasArgs(1) /\ cost <= Remaining
     THEN /\ evm' = Charge([evm EXCEPT !.stack = Drop(1), !.pc = @ + 1,
                                       !.status = "stopped"], cost)
          /\ ret' = NoData
     ELSE Fail(evm.memory)
  /\ UNCHANGED decoder

\* Execution runs off the end of the code.
RunOff ==
  /\ evm.status = "running"
  /\ evm.pc >= Len(instructions)
  /\ evm' = [evm EXCEPT !.status = "stopped"]
  /\ UNCHANGED <<decoder, ret>>

Ended == evm.status \in {"stopped", "reverted", "panicked"} /\ UNCHANGED vars

-----------------------------------------------------------------------------

Init ==
  \E s \in Starts :
    /\ bytecode = s.code
    /\ pos = 0
    /\ instructions = <<>>
    /\ jumptable = <<>>
    /\ evm = [status |-> "decoding", pc |-> 0, stack |-> <<>>, memory |-> 0, mem_cost |-> 0,
              used |-> 0, limit |-> s.gas, callType |-> s.callType]
    /\ ret = NoData

Next ==
  \/ Decode
  \/ Start
  \/ \E word \in Words : Compute(word)
  \/ Refused
  \/ PUSH
  \/ DUP
  \/ SWAP
  \/ JUMPDEST
  \/ JUMP
  \/ JUMPI
  \/ \E word \in Words : MLOAD(word) \/ SHA3(word)
  \/ MSTORE
  \/ \E access \in AccessCosts : Copy(access)
  \/ CALLDATACOPY
  \/ MCOPY
  \/ LOG
  \/ \E access \in AccessCosts : CallFails(access)
  \/ \E access \in AccessCosts, callee \in CalleeCosts, flag \in {0, 1}, size \in ReturnSizes :
       CallReturns(access, callee, flag, size)
  \/ \E access \in AccessCosts, cost \in CalleeCosts \cup {-1}, ok \in BOOLEAN, size \in ReturnSizes :
       CallPrecompile(access, cost, ok, size)
  \/ \E callee \in CalleeCosts, word \in Words : CREATE(callee, word)
  \/ STOP
  \/ INVALID
  \/ RETURN
  \/ \E cost \in {5000, 7600, 30000, 32600} : SELFDESTRUCT(cost)
  \/ RunOff
  \/ Ended

Spec == Init /\ [][Next]_vars

-----------------------------------------------------------------------------
(* Properties *)

\* The stack never exceeds its limit, and the program counter stays in the code.
TypeOK ==
  /\ bytecode \in Seq(Byte)
  /\ pos \in 0..Len(bytecode)
  /\ instructions \in Seq([op: Opcode, offset: Nat, arg: Seq(Byte)])
  /\ jumptable \in Seq(Nat \X Nat)
  /\ evm \in [ status: {"decoding", "running", "stopped", "reverted", "panicked"},
               pc: Nat, stack: Seq(Nat), memory: Nat, mem_cost: Nat, used: Nat, limit: Nat,
               callType: CallTypes ]
  /\ ret \in [size: Nat, from: {"self", "callee"}]
  /\ Len(evm.stack) <= StackLimit
  /\ evm.pc <= Len(instructions)

\* The jump table is sorted, as its binary search needs, and its entries are
\* exactly the JUMPDEST instructions with their offsets.
JumpTable ==
  /\ \A i, j \in DOMAIN jumptable : i < j => jumptable[i][1] < jumptable[j][1]
  /\ \A i \in DOMAIN jumptable :
       LET at == jumptable[i][2] + 1
       IN  /\ at \in DOMAIN instructions
           /\ instructions[at].offset = jumptable[i][1]
           /\ instructions[at].op.name = "JUMPDEST"
  /\ \A at \in DOMAIN instructions : instructions[at].op.name = "JUMPDEST" =>
       \E i \in DOMAIN jumptable : jumptable[i] = <<instructions[at].offset, at - 1>>

\* Whether the byte at an offset is code: the first one is, and the one after a
\* piece of code and the data it pushes.
IsCode ==
  LET isCode[i \in 0..Len(bytecode)] ==
        i = 0 \/ \E j \in 0..(i - 1) :
                    isCode[j] /\ i = j + 1 + PushLen(Opcodes[bytecode[j + 1]])
  IN  isCode

\* Of the decoded code, exactly the bytes 0x5b that are code are targets of a jump:
\* never one in the data of a PUSH.
TargetsAreCode ==
  evm.status # "decoding" =>
    \A i \in 0..(Len(bytecode) - 1) :
      (\E k \in DOMAIN jumptable : jumptable[k][1] = i) <=> (bytecode[i + 1] = 91 /\ IsCode[i])

\* Both: the table leads from exactly the 0x5b that are code to their instructions.
JumpTableExact == JumpTable /\ TargetsAreCode

\* While a frame goes on, its memory is a number of whole words, mem_cost is what
\* that memory costs in all, and the gas used is within the limit.
MemoryCounted ==
  evm.status \in {"running", "stopped"} =>
    /\ evm.memory % 32 = 0
    /\ evm.mem_cost = MemCost(evm.memory)
    /\ evm.used <= evm.limit

\* No step, be it a load, a copy, a call, a creation or a return, gets memory for
\* less gas than the difference it makes to the cost of the whole memory.
PaidStep ==
  evm.status = "running" /\ evm'.status \in {"running", "stopped"} =>
    MemCost(evm'.memory) - MemCost(evm.memory) <= evm'.used - evm.used

MemoryPaid == [][PaidStep]_vars

\* Control is only transferred to a JUMPDEST, namely the one at the offset on the
\* stack, or by JUMPI to the first instruction.
JumpStep ==
  evm.status = "running" /\ evm'.status = "running" /\ evm'.pc # evm.pc + 1 =>
    \/ /\ IsJumpdest(evm'.pc)
       /\ instructions[evm'.pc + 1].offset = Arg(1)
    \/ evm'.pc = 0 /\ Arg(1) = 0 /\ Instruction.op.name = "JUMPI"

JumpsLand == [][JumpStep]_vars

\* The memory never exceeds the allocation sanity limit.
AllocationLimited == evm.memory <= AllocLimit

\* A frame that stops without RETURN returns nothing, as STOP does.
StopReturnsNothing == evm.status = "stopped" => ret.from = "self"
=============================================================================
