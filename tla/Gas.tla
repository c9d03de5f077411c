--------------------------------- MODULE Gas ---------------------------------
(***************************************************************************)
(* The gas of a transaction: struct Gas and the metering of the opcode     *)
(* loop (src/src/executor.rs), the gas a CALL or CREATE forwards and       *)
(* settles, the refund counter of SSTORE, and the gas a transaction is     *)
(* charged for in Executor::execute and Runner::apply                      *)
(* (src/src/solenoid.rs).                                                  *)
(*                                                                         *)
(* The amounts are those of the code.  Where an amount depends on data     *)
(* that is not modelled (memory, the warmth of an address or slot, the     *)
(* size of a code), it is any member of a constant set.  That a reverted   *)
(* frame leaves the storage it was entered with is proved of module Frames *)
(* (RevertIsAtomic) and used here.                                         *)
(***************************************************************************)
EXTENDS Integers, Sequences, FiniteSets

CONSTANTS
  Slot,             \* the storage slots programs write
  Words,            \* storage words
  Kinds,            \* which kinds of transactions there are
  Calldata,         \* calldata, as its numbers of zero and non-zero bytes
  AccessListCosts,  \* TxContext::access_list_cost
  Carries,          \* whether transactions, calls and creations carry value
  SpareGas,         \* the gas offered beyond what the transaction must offer
  OpCosts,          \* costs of the opcodes without an action of their own
  SlotCosts,        \* what SSTORE adds for the access: 2100 cold, 0 warm
  AccessCosts,      \* address access and memory expansion of a CALL
  CallGas,          \* the gas operand of a CALL
  PrecompileCosts,  \* precompiles::gas_cost, -1 for a MODEXP that is too large
  InitCosts,        \* memory expansion and init code words of a CREATE
  ReturnSizes,      \* lengths of the data a creation returns
  DepthLimit        \* CALL_DEPTH_LIMIT

ASSUME WordsAssumption == Words \subseteq Nat /\ 0 \in Words

ASSUME SlotAssumption == IsFiniteSet(Slot)

ASSUME KindsAssumption == Kinds \subseteq {"call", "create"}

ASSUME CostsAssumption ==
  /\ Calldata \subseteq Nat \X Nat
  /\ AccessListCosts \subseteq Nat
  /\ SpareGas \subseteq Nat
  /\ Carries \subseteq BOOLEAN
  /\ OpCosts \subseteq Nat \ {0}
  /\ SlotCosts \subseteq Nat
  /\ AccessCosts \subseteq Nat \ {0, 1}  \* 100 at least: more than -1 gives back
  /\ CallGas \subseteq Nat
  /\ PrecompileCosts \subseteq Nat \cup {-1}
  /\ InitCosts \subseteq Nat
  /\ ReturnSizes \subseteq Nat

VARIABLES
  tx,      \* the transaction and, once it is done, what it is charged
  frames,  \* the stack of call frames, the innermost last
  cur,     \* the storage
  orig     \* the storage before the transaction (Ext::original)

vars == <<tx, frames, cur, orig>>

Storage == [Slot -> Words]

\* struct Evm, as far as gas goes.  base, stipend: locals of the Executor::call
\* or create that waits for the frame.  ret: the length of the data a creation
\* returns.  entry: the storage a revert restores.
\* prior (history): the refund counters of the enclosing frames, added up.
Frame == [ kind: {"call", "create"}, status: {"running", "stopped", "reverted"},
           limit: Nat, used: Nat, refund: Int, base: Nat, stipend: Nat,
           value: BOOLEAN, ret: Nat, entry: Storage, prior: Int ]

Tx == [kind: {"call", "create"}, gas: Nat, zeros: Nat, nonzeros: Nat,
       access: Nat, value: BOOLEAN]

Depth == Len(frames)
Top   == frames[Depth]

-----------------------------------------------------------------------------
(* What a transaction costs before it runs *)

DataCost(t) == 16 * t.nonzeros + 4 * t.zeros

InitCodeCost(t) == 2 * ((t.zeros + t.nonzeros + 31) \div 32)

Upfront(t) ==
  21000 + DataCost(t) + t.access
    + (IF t.kind = "create" THEN 32000 + InitCodeCost(t) ELSE 0)

\* EIP-7623: the least a call pays for its calldata.
GasFloor(t) == 21000 + 10 * (t.zeros + 4 * t.nonzeros)

AtLeast(x, y) == IF x >= y THEN x ELSE y

-----------------------------------------------------------------------------
(* Metering *)

Remaining(f) == f.limit - f.used

\* Evm::error, and the handling of a failed opcode: all gas is consumed and
\* nothing returned.
Burn(f) == [f EXCEPT !.used = f.limit, !.status = "reverted", !.ret = 0]

\* Evm::gas: consume the cost c, or fail.
Charge(f, c) ==
  IF c > Remaining(f) THEN Burn(f) ELSE [f EXCEPT !.used = f.used + c]

Update(f) == frames' = [frames EXCEPT ![Depth] = f]

Running == frames # <<>> /\ Top.status = "running"

\* An opcode with no effect on storage or frames.
Opcode(c) ==
  /\ Running
  /\ Update(Charge(Top, c))
  /\ UNCHANGED <<tx, cur, orig>>

\* INVALID, and every opcode that fails.
Fail ==
  /\ Running
  /\ Update(Burn(Top))
  /\ UNCHANGED <<tx, cur, orig>>

\* STOP, RETURN, SELFDESTRUCT, the end of the code (status "stopped") and
\* REVERT ("reverted"): the frame ends, and its last opcode is charged for.
Finish(status, c, size) ==
  /\ Running
  /\ Update(Charge([Top EXCEPT !.status = status,
                               !.ret = IF Top.kind = "create" THEN size ELSE 0], c))
  /\ UNCHANGED <<tx, cur, orig>>

-----------------------------------------------------------------------------
(* SSTORE *)

\* The price of storing new over val in a slot that was o before the transaction.
StoreCost(o, val, new) ==
  IF val # new /\ val = o THEN (IF o = 0 THEN 20000 ELSE 2900) ELSE 100

StoreRefund(o, val, new) ==
  IF new = val THEN 0
  ELSE IF val = o THEN (IF o # 0 /\ new = 0 THEN 4800 ELSE 0)
  ELSE (IF o = 0 THEN 0
        ELSE IF val = 0 THEN -4800 ELSE IF new = 0 THEN 4800 ELSE 0)
         + (IF new # o THEN 0 ELSE IF o = 0 THEN 19900 ELSE 2800)

\* The two halts (a refund taken back that exceeds the gas left, too little gas)
\* are told apart by the code only in its trace.
SSTORE(s, new, access) ==
  LET cost   == StoreCost(orig[s], cur[s], new) + access
      refund == StoreRefund(orig[s], cur[s], new)
  IN  /\ Running
      /\ \/ /\ Remaining(Top) + refund < 0 \/ Remaining(Top) < cost
            /\ Update(Burn(Top))
            /\ UNCHANGED cur
         \/ /\ Remaining(Top) + refund >= 0 /\ Remaining(Top) >= cost
            /\ Update([Top EXCEPT !.used = Top.used + cost,
                                  !.refund = Top.refund + refund])
            /\ cur' = [cur EXCEPT ![s] = new]
      /\ UNCHANGED <<tx, orig>>

-----------------------------------------------------------------------------
(* CALL, CALLCODE, DELEGATECALL, STATICCALL *)

Transfers(ct, value) == value /\ ct \notin {"Static", "Delegate"}

\* DELEGATECALL inherits the value of its frame, and with it the cost of a
\* new account.
CallCost(ct, value, empty, access) ==
  access + (IF value /\ empty THEN 25000 ELSE 0)
         + (IF Transfers(ct, value) THEN 9000 ELSE 0)

Stipend(ct, value) == IF Transfers(ct, value) THEN 2300 ELSE 0

\* (mutant) All the gas may be forwarded.
AllOfIt(r) == r

AllButOne64th(r) == r - r \div 64

\* An empty code, or the depth limit, end the frame before its first opcode.
Enter(f) ==
  \E status \in {"running", "stopped", "reverted"} :
    /\ status = "reverted" <=> Depth >= DepthLimit
    /\ frames' = Append(frames, [f EXCEPT !.status = status])

NewFrame(kind, limit, base, stipend, value) ==
  [ kind |-> kind, status |-> "running", limit |-> limit, used |-> 0,
    refund |-> 0, base |-> base, stipend |-> stipend, value |-> value,
    ret |-> 0, entry |-> cur, prior |-> Top.prior + Top.refund ]

CALL(ct, carries, empty, access, g) ==
  LET value == IF ct = "Static" THEN FALSE
               ELSE IF ct = "Delegate" THEN Top.value ELSE carries
      base  == CallCost(ct, value, empty, access)
      all   == AllButOne64th(Remaining(Top) - base)
      stip  == Stipend(ct, value)
  IN  /\ Running
      /\ \/ /\ base > Remaining(Top)
            /\ Update(Burn(Top))
         \/ /\ base <= Remaining(Top)
            /\ Enter(NewFrame("call", (IF g <= all THEN g ELSE all) + stip,
                              base, stip, value))
      /\ UNCHANGED <<tx, cur, orig>>

\* A precompiled contract is charged to the caller, before the base cost of the
\* call, and is not limited to the gas forwarded.  A negative cost gives gas back.
CallPrecompile(ct, carries, access, c) ==
  LET value == IF ct = "Static" THEN FALSE
               ELSE IF ct = "Delegate" THEN Top.value ELSE carries
      base  == CallCost(ct, value, FALSE, access)
      f     == Charge(Top, c)
  IN  /\ Running
      /\ Update(IF base > Remaining(Top) \/ f.status = "reverted"
                THEN Burn(Top) ELSE Charge(f, base))
      /\ UNCHANGED <<tx, cur, orig>>

\* The innermost frame is dropped, its parent is f from now on.
Leave(f) == frames' = [i \in 1..(Depth - 1) |-> IF i = Depth - 1 THEN f ELSE frames[i]]

Caller == frames[Depth - 1]

Ended(kind) == Depth > 1 /\ Top.kind = kind /\ Top.status # "running"

\* (mutant) The refunds of a reverted call are kept.
ReturnCallRefunds ==
  LET back == [Caller EXCEPT !.used = Caller.used + Top.used - Top.stipend,
                             !.refund = Caller.refund + Top.refund]
  IN  /\ Ended("call")
      /\ Leave(Charge(back, Top.base))
      /\ cur' = IF Top.status = "reverted" THEN Top.entry ELSE cur
      /\ UNCHANGED <<tx, orig>>

\* (mutant) The loop does not charge for a call.
ReturnCallFree ==
  /\ Ended("call")
  /\ Leave([Caller EXCEPT !.used = Caller.used + Top.used])
  /\ cur' = IF Top.status = "reverted" THEN Top.entry ELSE cur
  /\ UNCHANGED <<tx, orig>>

\* The rest of Executor::call: the gas of the callee is added and the stipend
\* taken off, then the loop charges the base cost.
ReturnCall ==
  LET refund == IF Top.status = "reverted" THEN 0 ELSE Top.refund
      back   == [Caller EXCEPT !.used = Caller.used + Top.used - Top.stipend,
                               !.refund = Caller.refund + refund]
  IN  /\ Ended("call")
      /\ Leave(Charge(back, Top.base))
      /\ cur' = IF Top.status = "reverted" THEN Top.entry ELSE cur
      /\ UNCHANGED <<tx, orig>>

-----------------------------------------------------------------------------
(* CREATE, CREATE2 *)

\* With too little gas for the base cost the code panics.
CREATE(cost, value) ==
  LET base == 32000 + cost
      r    == Remaining(Top) - base
  IN  /\ Running
      /\ \/ /\ r <= 0
            /\ tx' = [tx EXCEPT !.status = "panicked"]
            /\ frames' = <<>>
         \/ /\ r > 0
            /\ Enter(NewFrame("create", AllButOne64th(r), base, 0, value))
            /\ UNCHANGED tx
      /\ UNCHANGED <<cur, orig>>

\* (mutant) The deposit for the deployed code is not checked against the gas
\* the creation was given.
ReturnCreateUnchecked ==
  LET deposit == IF Top.status = "reverted" THEN 0 ELSE 200 * Top.ret
      refund  == IF Top.status = "reverted" THEN 0 ELSE Top.refund
  IN  /\ Ended("create")
      /\ Leave([Caller EXCEPT !.used = Caller.used + Top.base + deposit + Top.used,
                              !.refund = Caller.refund + refund])
      /\ cur' = IF Top.status = "reverted" THEN Top.entry ELSE cur
      /\ UNCHANGED <<tx, orig>>

\* The rest of Executor::create: the deposit for the deployed code must be left
\* of the gas forwarded.
ReturnCreate ==
  LET deposit == IF Top.status = "reverted" THEN 0 ELSE 200 * Top.ret
      broke   == Top.limit < Top.used + deposit
      undone  == broke \/ Top.status = "reverted"
      spent   == IF broke THEN Top.limit ELSE deposit + Top.used
  IN  /\ Ended("create")
      /\ Leave([Caller EXCEPT !.used = Caller.used + Top.base + spent,
                              !.refund = Caller.refund + (IF undone THEN 0 ELSE Top.refund)])
      /\ cur' = IF undone THEN Top.entry ELSE cur
      /\ UNCHANGED <<tx, orig>>

-----------------------------------------------------------------------------
(* Transactions *)

\* Gas::finalized.
Finalized(f, cost) ==
  LET used == f.used + cost
      cap  == IF f.refund <= used \div 5 THEN f.refund ELSE used \div 5
  IN  IF f.status = "reverted" THEN used ELSE used - cap

\* struct Call.  The code does not check what a node checks before it accepts a
\* transaction, and is run on transactions of mined blocks: the gas offered is
\* at least what is charged up front, and at least the floor.
MakeCall(kind, data, access, value, spare) ==
  LET t == [kind |-> kind, gas |-> 0, zeros |-> data[1], nonzeros |-> data[2],
            access |-> access, value |-> value]
  IN  [t EXCEPT !.gas = AtLeast(Upfront(t), GasFloor(t)) + spare]

BeginTx(kind, data, access, value, spare) ==
  LET t == MakeCall(kind, data, access, value, spare)
  IN  /\ tx.status \in {"none", "done"}
      /\ tx' = [ status |-> "running", call |-> t, charged |-> 0, gas_use |-> 0,
                 reverted |-> FALSE ]
      /\ orig' = cur
      /\ \E status \in {"running", "stopped"} :
           frames' = << [ kind |-> kind, status |-> status,
                          limit |-> t.gas - Upfront(t), used |-> 0, refund |-> 0,
                          base |-> 0, stipend |-> 0, value |-> value,
                          ret |-> 0, entry |-> cur, prior |-> 0 ] >>
      /\ UNCHANGED cur

\* (mutant) The floor is forgotten.
EndCallUnfloored ==
  LET final == Finalized(Top, Upfront(tx.call))
  IN  /\ Depth = 1
      /\ Top.kind = "call"
      /\ Top.status # "running"
      /\ tx' = [tx EXCEPT !.status = "done", !.charged = final, !.gas_use = final,
                          !.reverted = Top.status = "reverted"]
      /\ cur' = IF Top.status = "reverted" THEN Top.entry ELSE cur
      /\ frames' = <<>>
      /\ UNCHANGED orig

\* A call: Executor::execute charges at least the floor; Runner::apply reports
\* the gas without it.
EndCall ==
  LET final == Finalized(Top, Upfront(tx.call))
  IN  /\ Depth = 1
      /\ Top.kind = "call"
      /\ Top.status # "running"
      /\ tx' = [tx EXCEPT !.status = "done",
                          !.charged = AtLeast(final, GasFloor(tx.call)),
                          !.gas_use = final,
                          !.reverted = Top.status = "reverted"]
      /\ cur' = IF Top.status = "reverted" THEN Top.entry ELSE cur
      /\ frames' = <<>>
      /\ UNCHANGED orig

\* A creation: Runner::apply charges the deposit for the data returned, deployed
\* or not, and takes all the gas if it cannot be paid.
EndCreate ==
  LET deposit == 200 * Top.ret
      broke   == Top.status # "reverted" /\ Remaining(Top) < deposit
      final   == IF broke THEN tx.call.gas
                 ELSE Finalized(Top, Upfront(tx.call) + deposit)
      undone  == broke \/ Top.status = "reverted"
  IN  /\ Depth = 1
      /\ Top.kind = "create"
      /\ Top.status # "running"
      /\ tx' = [tx EXCEPT !.status = "done", !.charged = final, !.gas_use = final,
                          !.reverted = undone]
      /\ cur' = IF undone THEN Top.entry ELSE cur
      /\ frames' = <<>>
      /\ UNCHANGED orig

-----------------------------------------------------------------------------

Init ==
  /\ cur \in Storage
  /\ orig = cur
  /\ frames = <<>>
  /\ tx = [ status |-> "none", call |-> MakeCall("call", <<0, 0>>, 0, FALSE, 0),
            charged |-> 0, gas_use |-> 0, reverted |-> FALSE ]

\* What the executor does once it has a transaction.
Step ==
  \/ \E c \in OpCosts : Opcode(c)
  \/ Fail
  \/ \E status \in {"stopped", "reverted"}, c \in OpCosts \cup {0},
        size \in ReturnSizes : Finish(status, c, size)
  \/ \E s \in Slot, new \in Words, access \in SlotCosts : SSTORE(s, new, access)
  \/ \E ct \in {"Call", "Delegate", "Static"}, carries \in Carries,
        empty \in BOOLEAN, access \in AccessCosts, g \in CallGas : CALL(ct, carries, empty, access, g)
  \/ \E ct \in {"Call", "Delegate", "Static"}, carries \in Carries,
        access \in AccessCosts, c \in PrecompileCosts :
          CallPrecompile(ct, carries, access, c)
  \/ ReturnCall
  \/ \E cost \in InitCosts, value \in Carries : CREATE(cost, value)
  \/ ReturnCreate
  \/ EndCall
  \/ EndCreate

\* A process that panicked is gone.
Aborted == tx.status = "panicked" /\ UNCHANGED vars

Next ==
  \/ Step
  \/ \E kind \in Kinds, data \in Calldata, access \in AccessListCosts,
        value \in Carries, spare \in SpareGas :
          BeginTx(kind, data, access, value, spare)
  \/ Aborted

Spec == Init /\ [][Next]_vars

FairSpec == Spec /\ WF_vars(Step)

-----------------------------------------------------------------------------
(* Properties *)

\* Gas limits, gas used and the gas charged never turn negative, whatever is
\* forwarded, settled and refunded; only refund counters may.
TypeOK ==
  /\ tx \in [status: {"none", "running", "done", "panicked"}, call: Tx,
             charged: Nat, gas_use: Nat, reverted: BOOLEAN]
  /\ frames \in Seq(Frame)
  /\ cur \in Storage
  /\ orig \in Storage

\* Slots that the storage st has cleared since it was o, and their refunds.
Cleared(o, st) == {s \in Slot : o[s] # 0 /\ st[s] = 0}

Owed(o, st) == 4800 * Cardinality(Cleared(o, st))

\* A frame uses no more gas than it was given, and no amount of gas is negative.
GasBounded == TypeOK /\ \A i \in DOMAIN frames : frames[i].used <= frames[i].limit

\* However calls are nested and reverted, the refund counters add up to at least
\* the refund of every slot that is clear now: what SSTORE takes back was given.
RefundsBacked == frames # <<>> => Top.prior + Top.refund >= Owed(orig, cur)

\* When a call or creation returns, its caller can pay for it, goes on, and has
\* kept a 64th of what it could have forwarded; its gas used has not decreased.
SettleStep ==
  Depth > 1 /\ Len(frames') = Depth - 1 =>
    LET before == Caller
        after  == frames'[Depth - 1]
    IN  /\ after.status = "running"
        /\ after.used >= before.used
        /\ Remaining(after) >= (Remaining(before) - Top.base) \div 64

CallerKeepsShare == [][SettleStep]_vars

\* A call, or a creation that deploys, is never charged for more gas than it
\* offered, and a call for no less than the floor: refunds never turn negative.
ChargedWithinLimit ==
  tx.status = "done" /\ ~(tx.call.kind = "create" /\ tx.reverted) =>
    /\ tx.charged <= tx.call.gas
    /\ tx.call.kind = "call" => tx.charged >= GasFloor(tx.call)

\* Every transaction ends: each opcode that goes on costs gas, and a frame that
\* ends is left.
Terminates == tx.status = "running" ~> tx.status # "running"

\* What a frame adds to the work that is left: itself, and not the gas it has used
\* and its caller is charged for.
Weight(f) ==
  (IF f.status = "running" THEN 2 ELSE 1) - 3 * (f.used + f.base - f.stipend)

TotalWeight(fr) ==
  LET total[i \in 0..Len(fr)] == IF i = 0 THEN 0 ELSE total[i - 1] + Weight(fr[i])
  IN  total[Len(fr)]

\* Why transactions end: with every opcode, call and return there is less left to
\* do: a transaction takes at most three steps for each gas of its first frame, and two
\* more.  A stipend, which is given, or a precompile that gives gas back never
\* makes up for what the call itself costs.
Work(fr) == 3 * fr[1].limit + TotalWeight(fr)

WorkStep ==
  frames # <<>> /\ frames' # <<>> => 0 < Work(frames') /\ Work(frames') < Work(frames)

WorkShrinks == [][WorkStep]_vars

\* No transaction, a reverted creation among them, uses more gas than it offered.
GasWithinLimit == tx.status = "done" => tx.gas_use <= tx.call.gas

\* The gas reported for a transaction is the gas it was charged for.
ReportedIsCharged == tx.status = "done" => tx.gas_use = tx.charged

\* A creation always has gas left for its init code.
CreateHasGas == tx.status # "panicked"
=============================================================================
