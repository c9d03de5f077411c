----------------------------- MODULE MCMachine ------------------------------
(***************************************************************************)
(* Machine on two families of byte codes.  Jumping: every code of up to    *)
(* JumpBytes bytes over jumps, their targets, pushes, data and a plain     *)
(* opcode, and longer ones that begin with the operands of a jump, with    *)
(* gas for a few turns of a loop.  Working: operands that fill the stack,  *)
(* followed by two opcodes that compute, use memory, call, create or end   *)
(* the frame, with little gas and with enough.  Creating: the same for a   *)
(* CREATE in init code that CREATE2 runs.                                  *)
(***************************************************************************)
EXTENDS Machine

CONSTANTS JumpBytes, LittleGas, EnoughGas

\* STOP, DIV (also the offset 4), JUMP, JUMPI, JUMPDEST, PUSH1, PUSH2.
JumpAlphabet == {0, 4, 86, 87, 91, 96, 97}

Strings(n) == UNION {[1..k -> JumpAlphabet] : k \in 0..n}

JumpCodes == Strings(JumpBytes)
             \cup {<<96, 4>> \o s : s \in Strings(4)}
             \cup {<<96, c, 96, d>> \o s : c \in {0, 4}, d \in {0, 4}, s \in Strings(2)}

\* ADD, MULMOD, SIGNEXTEND, SHA3, BALANCE, CALLDATACOPY, CODECOPY, EXTCODECOPY,
\* RETURNDATASIZE, RETURNDATACOPY, POP, MLOAD, MSTORE, MSTORE8, SSTORE, PC, MSIZE, GAS,
\* MCOPY, DUP1, SWAP1, LOG1, CREATE, CALL, CALLCODE, RETURN, DELEGATECALL, CREATE2,
\* STATICCALL, REVERT, INVALID, SELFDESTRUCT.
WorkAlphabet == {1, 9, 11, 32, 49, 55, 57, 60, 61, 62, 80, 81, 82, 83, 85, 88, 89, 90, 94, 128,
                 144, 161, 240, 241, 242, 243, 244, 245, 250, 253, 254, 255}

\* Operands from the bottom of the stack to its top.
Operand == { <<0, 0, 0, 0, 0, 0, 0, 0>>,
             <<33, 33, 33, 33, 33, 33, 33, 33>>,
             <<33, 0, 33, 0, 33, 0, 33, 0>>,
             <<0, 33, 0, 33, 0, 33, 0, 33>>,
             <<64, 64, 64, 64, 64, 64, 64, 64>>,
             <<1, 33, 1, 33, 1, 33, 64, 0>> }

Pushed(words) == [i \in 1..(2 * Len(words)) |-> IF i % 2 = 1 THEN 96 ELSE words[i \div 2]]

WorkCodes == {Pushed(words) \o <<b, c>> : words \in Operand, b \in WorkAlphabet, c \in WorkAlphabet}

\* Init code that CREATE2 runs and that creates an account itself.
InitCodes == {Pushed(words) \o <<240, c>> : words \in Operand, c \in WorkAlphabet}

MCStarts ==
  [code: JumpCodes, gas: {LittleGas}, callType: {"Call"}]
    \cup [code: WorkCodes, gas: {LittleGas, EnoughGas}, callType: {"Call"}]
    \cup [code: InitCodes, gas: {EnoughGas}, callType: {"Create2"}]
=============================================================================
