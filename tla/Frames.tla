-------------------------------- MODULE Frames --------------------------------
(***************************************************************************)
(* Transactions run by Runner::apply (src/src/solenoid.rs) and Executor    *)
(* (src/src/executor.rs): a stack of call frames, each with the journal of *)
(* its Evm, over one shared Ext.  The programs are arbitrary: a running    *)
(* frame may execute any opcode of Ops with any operands.  Gas is abstract *)
(* here (every opcode may succeed or run out of gas at the point where the *)
(* code checks it), so a model transaction has a gas price of zero,        *)
(* no coinbase and no access list; fees are the subject of module Fees.    *)
(***************************************************************************)
EXTENDS Journal

CONSTANTS
  Genesis,      \* the accounts and storage of the remote node (or of Ext::local)
  Remote,       \* TRUE: Ext has a remote; FALSE: Ext::local()
  Precompile,   \* addresses of precompiled contracts
  CreateAddr,   \* [Addr -> [0..MaxNonce -> Addr]], Address::create
  Create2Addr,  \* [Addr -> Addr], Address::create2 for the one salt and init code
  Senders,      \* addresses that sign calls
  Creators,     \* addresses that sign creations
  Operands,     \* bound: the addresses programs and transactions name
  Amounts,      \* the values a transaction, a call or a creation may carry
  Ops,          \* the opcodes the programs use
  DepthLimit,   \* CALL_DEPTH_LIMIT
  MaxNonce,     \* bound: no transaction or creation beyond this nonce
  MaxSteps,     \* bound: opcodes executed per transaction
  MaxTxs        \* bound: transactions run

AccountState == [storage: [Slots -> Values], balance: [Addr -> Nat],
                 nonce: [Addr -> Nat], code: [Addr -> Code]]

ASSUME GenesisAssumption == Genesis \in AccountState

ASSUME AddressAssumption ==
  /\ CreateAddr \in [Addr -> [0..MaxNonce -> Addr]]
  /\ Create2Addr \in [Addr -> Addr]
  /\ Senders \subseteq Addr
  /\ Creators \subseteq Addr
  /\ Operands \subseteq Addr
  /\ Precompile \subseteq Addr

ASSUME BoundAssumption ==
  /\ Remote \in BOOLEAN
  /\ Amounts \subseteq Nat
  /\ {DepthLimit, MaxNonce, MaxSteps, MaxTxs} \subseteq Nat

VARIABLES
  ext,     \* Ext
  frames,  \* the stack of execute_with_context activations, innermost last
  steps,   \* opcodes the current transaction may still execute
  txs      \* transactions still to run

vars == <<ext, frames, steps, txs>>

CallTypes == {"Call", "Callcode", "Delegate", "Static", "Create", "Create2"}

\* One activation: its Context, its Call, its Evm.  The last three fields are
\* history: the world when its Evm was made, the balances before the caller
\* moved the value, and the accounts written in it without a touch.
Frame == [ kind:     {"call", "create"},
           callType: CallTypes,
           static:   BOOLEAN,
           this:     Addr,
           from:     Addr,
           value:    Nat,
           touches:  Seq(Touch),
           status:   {"running", "stopped", "reverted"},
           entry:    Ext,
           before:   [Addr -> Nat],
           tainted:  SUBSET Addr ]

\* ext stays an Ext and every frame a Frame: above all, no balance or nonce turns
\* negative, whatever transfers, creations and reverts follow each other.
TypeOK ==
  /\ ext \in Ext
  /\ frames \in Seq(Frame)
  /\ steps \in Nat
  /\ txs \in Nat

Depth == Len(frames)
Top   == frames[Depth]

-----------------------------------------------------------------------------
(* Ext *)

\* Ext::pull finds the account, or fetches it.
Available(e, a) == Remote \/ a \in e.cached
Pull(e, a) == [e EXCEPT !.cached = @ \cup {a}]

\* ext.state.entry(a).or_default(): no fetch, so the remote account is hidden.
OrDefault(e, a) ==
  IF a \in e.cached THEN e
  ELSE [e EXCEPT !.cached = @ \cup {a}, !.balance[a] = 0, !.nonce[a] = 0,
                 !.code[a] = Empty]

\* (mutant) Ext::get records original at every read.
GetRefreshesOriginal(e, s) ==
  [e EXCEPT !.cached = @ \cup {s[1]},
            !.present = IF Remote THEN @ \cup {s} ELSE @,
            !.original[s] = e.storage[s]]

\* Ext::get, its effect: the value goes to the cache and to original.
Get(e, s) ==
  [e EXCEPT !.cached = @ \cup {s[1]},
            !.present = IF Remote THEN @ \cup {s} ELSE @,
            !.original[s] = IF @ = None /\ (Remote \/ s \in e.present)
                            THEN e.storage[s] ELSE @]

\* Ext::put.
Put(e, s, v) == [e EXCEPT !.cached = @ \cup {s[1]}, !.present = @ \cup {s},
                          !.storage[s] = v]

\* Ext::warm_address, and the touch of the callers that journal it.
WarmAddress(e, a) == [e EXCEPT !.warmAddr = @ \cup {a}]

\* (mutant) Warming an address is not journaled.
WarmTouchMissing(e, a) == <<>>

WarmTouch(e, a) == IF a \in e.warmAddr THEN <<>> ELSE <<WarmUp(a)>>

WarmStorage(e, s) == [e EXCEPT !.warmSlot = @ \cup {s}]

\* Evm::address_access_cost, its effect.
Access(e, a) == IF a \in Precompile THEN e ELSE WarmAddress(e, a)
AccessTouch(e, a) == IF a \in Precompile THEN <<>> ELSE WarmTouch(e, a)

\* What a read returns for an account or a slot dropped from Ext::state.
Absent == IF Remote THEN Genesis
          ELSE [storage |-> [s \in Slots |-> 0], balance |-> [a \in Addr |-> 0],
                nonce |-> [a \in Addr |-> 0], code |-> [a \in Addr |-> Empty]]

\* Ext::reset, called before every transaction.
Reset(e) ==
  LET D == e.destroyed
      Gone(s) == s[1] \in D
  IN  [e EXCEPT
         !.original  = [s \in Slots |-> None],
         !.transient = [s \in Slots |-> 0],
         !.warmAddr  = {},
         !.warmSlot  = {},
         !.destroyed = {},
         !.cached    = @ \ D,
         !.present   = {s \in @ : ~Gone(s)},
         !.storage   = [s \in Slots |-> IF Gone(s) THEN Absent.storage[s] ELSE e.storage[s]],
         !.balance   = [a \in Addr |-> IF a \in D THEN Absent.balance[a] ELSE e.balance[a]],
         !.nonce     = [a \in Addr |-> IF a \in D THEN Absent.nonce[a] ELSE e.nonce[a]],
         !.code      = [a \in Addr |-> IF a \in D THEN Absent.code[a] ELSE e.code[a]]]

-----------------------------------------------------------------------------
(* Steps of the innermost frame *)

\* The loop of execute_with_context fetches the opcode op.
Executing(op) ==
  /\ frames # <<>>
  /\ Top.status = "running"
  /\ op \in Ops
  /\ steps > 0
  /\ steps' = steps - 1
  /\ UNCHANGED txs

\* The opcode leaves the world e, adds the touches new and the frame in status st.
Advance(e, new, st) ==
  /\ ext' = e
  /\ frames' = [frames EXCEPT ![Depth] =
                  [Top EXCEPT !.touches = @ \o new, !.status = st]]

\* (mutant) The journal forgets that the slot was warm already.
SLOADForgetsWarm(k) ==
  LET s == <<Top.this, k>>
  IN  /\ Executing("SLOAD")
      /\ Available(ext, Top.this)
      /\ Advance(Get(WarmStorage(ext, s), s), <<GetState(s, FALSE)>>, "running")

\* SLOAD warms the slot before it checks the gas, and journals that after.
SLOAD(k) ==
  LET s == <<Top.this, k>>
      e == WarmStorage(ext, s)
  IN  /\ Executing("SLOAD")
      /\ \/ /\ Available(ext, Top.this)
            /\ Advance(Get(e, s), <<GetState(s, s \in ext.warmSlot)>>, "running")
         \/ Advance(e, <<>>, "reverted")

\* (mutant) The check for a static call looks at the call type of this frame only.
SSTOREShallowCheck(k, v) ==
  LET s == <<Top.this, k>>
  IN  /\ Executing("SSTORE")
      /\ Top.callType # "Static"
      /\ Available(ext, Top.this)
      /\ Advance(Put(Get(WarmStorage(ext, s), s), s, v),
                 <<SetState(s, ext.storage[s], s \in ext.warmSlot)>>, "running")

\* (mutant) The journal records the value written instead of the one replaced.
SSTORERecordsNew(k, v) ==
  LET s == <<Top.this, k>>
  IN  /\ Executing("SSTORE")
      /\ ~Top.static
      /\ Available(ext, Top.this)
      /\ Advance(Put(Get(WarmStorage(ext, s), s), s, v),
                 <<SetState(s, v, s \in ext.warmSlot)>>, "running")

\* SSTORE: refused under STATICCALL at any depth; reads the slot, then checks
\* the gas, then writes and journals.
SSTORE(k, v) ==
  LET s == <<Top.this, k>>
      e == Get(WarmStorage(ext, s), s)
  IN  /\ Executing("SSTORE")
      /\ \/ /\ Top.static
            /\ Advance(ext, <<>>, "reverted")
         \/ /\ ~Top.static
            /\ Available(ext, Top.this)
            /\ \/ Advance(Put(e, s, v),
                          <<SetState(s, ext.storage[s], s \in ext.warmSlot)>>, "running")
               \/ Advance(e, <<>>, "reverted")

\* (mutant) Transient storage is left out of the journal.
TSTOREUnjournaled(k, v) ==
  /\ Executing("TSTORE")
  /\ Advance([ext EXCEPT !.transient[<<Top.this, k>>] = v], <<>>, "running")

\* TSTORE has no check for a static frame.
TSTORE(k, v) ==
  LET s == <<Top.this, k>>
  IN  /\ Executing("TSTORE")
      /\ Advance([ext EXCEPT !.transient[s] = v],
                 <<SetTransientState(s, ext.transient[s])>>, "running")

\* BALANCE, EXTCODESIZE, EXTCODECOPY, EXTCODEHASH: access, gas check, read.
ReadAccount(a) ==
  /\ Executing("BALANCE")
  /\ \/ /\ Available(ext, a)
        /\ Advance(Pull(Access(ext, a), a), AccessTouch(ext, a), "running")
     \/ Advance(Access(ext, a), AccessTouch(ext, a), "reverted")

\* SELFDESTRUCT moves the balance and marks the account before the gas is
\* charged, and adds no touch.
SELFDESTRUCT(a) ==
  LET this == Top.this
      own == ext.balance[this]
      e == [Pull(ext, a) EXCEPT
              !.balance = [x \in Addr |-> (IF x = this THEN 0 ELSE ext.balance[x])
                                           + (IF x = a THEN own ELSE 0)],
              !.destroyed = @ \cup {this}]
  IN  /\ Executing("SELFDESTRUCT")
      /\ \/ /\ Top.callType = "Static"
            /\ Advance(ext, <<>>, "reverted")
         \/ /\ Top.callType # "Static"
            /\ Available(ext, a)
            /\ ext' = e
            /\ \E st \in {"stopped", "reverted"} :
                 frames' = [frames EXCEPT ![Depth] =
                              [Top EXCEPT !.status = st, !.tainted = @ \cup {this, a}]]

\* STOP, RETURN, SELF-terminating programs: the frame ends normally.
Stop ==
  /\ frames # <<>>
  /\ Top.status = "running"
  /\ Advance(ext, <<>>, "stopped")
  /\ UNCHANGED <<steps, txs>>

\* REVERT, INVALID, and every opcode that fails before it has an effect (out of
\* gas, stack, jump, allocation, remote node unreachable).
Halt ==
  /\ frames # <<>>
  /\ Top.status = "running"
  /\ Advance(ext, <<>>, "reverted")
  /\ UNCHANGED <<steps, txs>>

-----------------------------------------------------------------------------
(* Entering a frame: Executor::call and Executor::create *)

\* The code a call to a runs: one level of delegation is resolved.
Resolve(e, a) == IF e.code[a] \in Addr THEN e.code[e.code[a]] ELSE e.code[a]

\* The addresses a call to a accesses: a, and the target it delegates to.
Target(e, a) == IF e.code[a] \in Addr THEN e.code[a] ELSE a

CallAccess(e, a) ==
  Pull(Pull(Access(Access(e, a), Target(e, a)), a), Target(e, a))

CallAccessTouches(e, a) ==
  AccessTouch(e, a) \o AccessTouch(Access(e, a), Target(e, a))

NewFrame(kind, callType, static, this, from, value, code, e, before) ==
  [ kind |-> kind, callType |-> callType, static |-> static, this |-> this,
    from |-> from, value |-> value, touches |-> WarmTouch(e, from),
    status |-> IF Depth >= DepthLimit THEN "reverted"
               ELSE IF code = Empty THEN "stopped" ELSE "running",
    entry |-> e, before |-> before, tainted |-> {} ]

\* The caller adds the touches new, its world is f.entry, and f starts with the
\* prologue of execute_with_context, which warms the caller.
Enter(new, taint, f) ==
  /\ ext' = WarmAddress(f.entry, f.from)
  /\ frames' = Append([frames EXCEPT ![Depth] =
                         [Top EXCEPT !.touches = @ \o new, !.tainted = @ \cup taint]], f)

\* (mutant) No check of the balance before value moves.
HasFundsAssumed(e, a, v) == TRUE

HasFunds(e, a, v) == e.balance[a] >= v

Transfer(e, src, dst, v) ==
  [e EXCEPT !.balance = [a \in Addr |-> (e.balance[a] + (IF a = dst THEN v ELSE 0))
                                          - (IF a = src THEN v ELSE 0)]]

TransferTouches(e, src, dst) ==
  <<SetValue(src, e.balance[src]), SetValue(dst, e.balance[dst])>>

\* Executor::call with the call type ct: the accesses, the gas check, the value
\* transfer (skipped without funds, and to oneself), the inner frame.
DoCall(ct, a, v) ==
  LET this  == Top.this
      e     == CallAccess(ext, a)
      new   == CallAccessTouches(ext, a)
      moves == v > 0 /\ ct \in {"Call", "Callcode"} /\ HasFunds(ext, this, v) /\ this # a
      own   == ct \in {"Callcode", "Delegate"}
  IN  /\ Available(ext, a)
      /\ Available(ext, Target(ext, a))
      /\ \/ /\ a \in Precompile
            /\ Advance(e, new, "running")
         \/ Advance(e, new, "reverted")
         \/ /\ a \notin Precompile
            /\ Enter(new \o (IF moves THEN TransferTouches(ext, this, a) ELSE <<>>), {},
                     NewFrame("call", ct, Top.static \/ ct = "Static",
                              IF own THEN this ELSE a,
                              IF own THEN Top.from ELSE this,
                              v, Resolve(ext, a),
                              IF moves THEN Transfer(e, this, a, v) ELSE e,
                              ext.balance))

\* CALL is refused in a frame entered by STATICCALL itself if it carries value.
CALL(a, v) ==
  /\ Executing("CALL")
  /\ \/ /\ Top.callType = "Static" /\ v > 0
        /\ Advance(ext, <<>>, "reverted")
     \/ /\ ~(Top.callType = "Static" /\ v > 0)
        /\ DoCall("Call", a, v)

CALLCODE(a, v)  == Executing("CALLCODE") /\ DoCall("Callcode", a, v)
DELEGATECALL(a) == Executing("DELEGATECALL") /\ DoCall("Delegate", a, Top.value)
STATICCALL(a)   == Executing("STATICCALL") /\ DoCall("Static", a, 0)

\* The address of the account a creation with the call type ct makes.
NewAddress(ct) ==
  IF ct = "Create2" THEN Create2Addr[Top.this] ELSE CreateAddr[Top.this][ext.nonce[Top.this]]

\* Executor::create with the call type ct: the creator's nonce, the new account,
\* the frame of the init code.  No value moves yet.
DoCreate(ct, v) ==
  LET this == Top.this
      new  == NewAddress(ct)
      e1   == [ext EXCEPT !.nonce[this] = @ + 1]
      e2   == OrDefault(WarmAddress(e1, new), new)
  IN  /\ ext.nonce[this] < MaxNonce
      /\ \E code \in {Empty, Contract} :
           Enter(<<SetNonce(this, ext.nonce[this])>> \o WarmTouch(e1, new), {new},
                 NewFrame("create", ct, Top.static, new, this, v, code, e2, ext.balance))

\* CREATE hands the call type of its frame on: in init code that CREATE2 runs it
\* makes the account that CREATE2 would.
CREATE(v) ==
  /\ Executing("CREATE")
  /\ \/ /\ Top.callType = "Static"
        /\ Advance(ext, <<>>, "reverted")
     \/ /\ Top.callType # "Static"
        /\ DoCreate(Top.callType, v)

CREATE2(v) ==
  /\ Executing("CREATE2")
  /\ \/ /\ Top.callType = "Static"
        /\ Advance(ext, <<>>, "reverted")
     \/ /\ Top.callType # "Static"
        /\ DoCreate("Create2", v)

-----------------------------------------------------------------------------
(* Leaving a frame: the second half of Executor::call and Executor::create *)

\* The innermost frame is dropped; its parent goes on in the world e with the
\* touches new added to its journal.
Leave(e, new, taint) ==
  /\ ext' = e
  /\ frames' = [i \in 1..(Depth - 1) |->
                  IF i = Depth - 1
                  THEN [frames[i] EXCEPT !.touches = @ \o new,
                                         !.tainted = @ \cup Top.tainted \cup taint]
                  ELSE frames[i]]
  /\ UNCHANGED <<steps, txs>>

Undone == Leave(Revert(Top.touches, ext), Survivors(Top.touches), {})

Ended(kind) == Depth > 1 /\ Top.kind = kind /\ Top.status # "running"

\* (mutant) The touches of the callee are not added to the caller's.
CallSucceedsForgets == Ended("call") /\ Top.status = "stopped" /\ Leave(ext, <<>>, {})

CallReverts  == Ended("call") /\ Top.status = "reverted" /\ Undone
CallSucceeds == Ended("call") /\ Top.status = "stopped" /\ Leave(ext, Top.touches, {})

\* The init code reverted, or stopped without the gas for the deployed code.
CreateFails == Ended("create") /\ Undone

\* The code is deployed, then the value moves, then the touches of both and
\* only then the touches of the init code enter the journal of the creator.
CreateSucceeds ==
  LET this  == Top.from
      new   == Top.this
      moves == /\ Top.value > 0
               /\ Top.callType \notin {"Static", "Delegate"}
               /\ HasFunds(ext, this, Top.value)
      taint == IF moves THEN {this, new} ELSE {new}
  IN  /\ Ended("create")
      /\ Top.status = "stopped"
      /\ \E code \in {Empty, Contract} :
           LET e == [ext EXCEPT !.code[new] = code, !.nonce[new] = 1]
           IN  Leave(IF moves THEN Transfer(e, this, new, Top.value) ELSE e,
                     (IF moves THEN TransferTouches(e, this, new) ELSE <<>>)
                       \o <<CreateTouch(new)>> \o Top.touches,
                     taint)

-----------------------------------------------------------------------------
(* Transactions *)

SatSub(x, y) == IF x >= y THEN x - y ELSE 0

\* Ext::reset by the caller, then Runner::apply and Executor::execute up to the
\* loop: the address the nonce would create is entered even for a call.
BeginTx(from, to, v) ==
  LET e0   == Reset(ext)
      new  == CreateAddr[from][e0.nonce[from]]
      w    == Pull(Pull(e0, to), from)
      e1   == OrDefault(WarmAddress(w, new), new)
      e2   == WarmAddress(e1, from)
      e3   == WarmAddress(e2, to)
      e4   == WarmAddress(Pull(e3, Target(e3, to)), Target(e3, to))
      pays == v > 0
      e5   == [e4 EXCEPT !.balance[from] = SatSub(@, v)]
      e6   == IF pays THEN [e5 EXCEPT !.balance[to] = @ + v] ELSE e4
      e7   == [e6 EXCEPT !.nonce[from] = @ + 1]
      code == Resolve(e3, to)
  IN  /\ frames = <<>>
      /\ txs > 0
      /\ e0.nonce[from] < MaxNonce
      /\ \A a \in {from, to} : Available(e0, a)
      /\ ext' = e7
      /\ frames' =
           << [ kind |-> "call", callType |-> "Call", static |-> FALSE,
                this |-> to, from |-> from, value |-> v,
                touches |-> WarmTouch(w, new) \o WarmTouch(e1, from)
                              \o WarmTouch(e2, to) \o WarmTouch(e3, Target(e3, to))
                              \o (IF pays THEN TransferTouches(e4, from, to) ELSE <<>>)
                              \o <<SetNonce(from, e6.nonce[from])>>,
                status |-> IF code = Empty THEN "stopped" ELSE "running",
                entry |-> e0, before |-> e0.balance, tainted |-> {new} ] >>
      /\ steps' = MaxSteps
      /\ txs' = txs - 1

\* Runner::apply of a creation up to the loop.  Unlike CREATE it endows the new
\* account before the init code runs, and counts the nonce after it.
BeginCreateTx(from, v) ==
  LET e0    == Reset(ext)
      new   == CreateAddr[from][e0.nonce[from]]
      w     == Pull(e0, from)
      e1    == OrDefault(WarmAddress(w, new), new)
      moves == v > 0 /\ HasFunds(e1, from, v)
      e2    == IF moves THEN Transfer(e1, from, new, v) ELSE e1
  IN  /\ frames = <<>>
      /\ txs > 0
      /\ e0.nonce[from] < MaxNonce
      /\ Available(e0, from)
      /\ ext' = WarmAddress(e2, from)
      /\ \E status \in {"running", "stopped"} : frames' =
           << [ kind |-> "create", callType |-> "Create", static |-> FALSE,
                this |-> new, from |-> from, value |-> v,
                touches |-> WarmTouch(w, new)
                              \o (IF moves THEN TransferTouches(e1, from, new) ELSE <<>>)
                              \o WarmTouch(e2, from),
                status |-> status,
                entry |-> e0, before |-> e0.balance, tainted |-> {new} ] >>
      /\ steps' = MaxSteps
      /\ txs' = txs - 1

\* (mutant) The nonce restored by the revert is not counted again.
EndTxNonceRestored ==
  /\ Depth = 1
  /\ Top.kind = "call"
  /\ Top.status # "running"
  /\ ext' = IF Top.status = "reverted" THEN Revert(Top.touches, ext) ELSE ext
  /\ frames' = <<>>
  /\ UNCHANGED <<steps, txs>>

\* The rest of execute and apply: undo if reverted, then count the nonce again.
EndTx ==
  LET from == Top.from
      e    == Revert(Top.touches, ext)
  IN  /\ Depth = 1
      /\ Top.kind = "call"
      /\ Top.status # "running"
      /\ ext' = IF Top.status = "reverted" THEN [e EXCEPT !.nonce[from] = @ + 1] ELSE ext
      /\ frames' = <<>>
      /\ UNCHANGED <<steps, txs>>

\* The rest of apply for a creation: undo if it reverted or lacks the gas for the
\* code, else deploy; either way the nonce is counted now.
EndCreateTx ==
  LET from   == Top.from
      new    == Top.this
      e      == Revert(Top.touches, ext)
      pulled == Pull(Pull(ext, new), from)
      Counted(w) == [w EXCEPT !.nonce[from] = @ + 1]
  IN  /\ Depth = 1
      /\ Top.kind = "create"
      /\ \/ /\ Top.status \in {"reverted", "stopped"}
            /\ ext' = Counted(e)
         \/ /\ Top.status = "stopped"
            /\ \E code \in {Empty, Contract} :
                 ext' = [Counted(pulled) EXCEPT !.code[new] = code, !.nonce[new] = 1]
      /\ frames' = <<>>
      /\ UNCHANGED <<steps, txs>>

\* Between transactions the caller may stop for good.
Finished == frames = <<>> /\ UNCHANGED vars

Init ==
  /\ ext = [ cached |-> IF Remote THEN {} ELSE Addr,
             present |-> {},
             storage |-> IF Remote THEN Genesis.storage ELSE [s \in Slots |-> 0],
             transient |-> [s \in Slots |-> 0],
             original |-> [s \in Slots |-> None],
             balance |-> Genesis.balance,
             nonce |-> Genesis.nonce,
             code |-> Genesis.code,
             warmAddr |-> {}, warmSlot |-> {}, destroyed |-> {} ]
  /\ frames = <<>>
  /\ steps = 0
  /\ txs = MaxTxs

Next ==
  \/ \E k \in Keys : SLOAD(k)
  \/ \E k \in Keys, v \in Values : SSTORE(k, v)
  \/ \E k \in Keys, v \in Values : TSTORE(k, v)
  \/ \E a \in Operands : ReadAccount(a)
  \/ \E a \in Operands : SELFDESTRUCT(a)
  \/ Stop
  \/ Halt
  \/ \E a \in Operands, v \in Amounts : CALL(a, v)
  \/ \E a \in Operands, v \in Amounts : CALLCODE(a, v)
  \/ \E a \in Operands : DELEGATECALL(a)
  \/ \E a \in Operands : STATICCALL(a)
  \/ \E v \in Amounts : CREATE(v)
  \/ \E v \in Amounts : CREATE2(v)
  \/ CallReverts
  \/ CallSucceeds
  \/ CreateFails
  \/ CreateSucceeds
  \/ \E from \in Senders, to \in Operands, v \in Amounts : BeginTx(from, to, v)
  \/ \E from \in Creators, v \in Amounts : BeginCreateTx(from, v)
  \/ EndTx
  \/ EndCreateTx
  \/ Finished

Spec == Init /\ [][Next]_vars

-----------------------------------------------------------------------------
(* Properties *)

\* The world up to which the journal of frame i reaches.
After(i) == IF i = Depth THEN ext ELSE frames[i + 1].entry

\* Evm::revert applied to any frame's journal, at any time, would give exactly the
\* storage, transient storage and warm addresses the frame was entered with.
JournalExact ==
  \A i \in DOMAIN frames : Recorded(frames[i].entry, frames[i].touches, After(i))

\* The innermost frame is dropped after it reverted.
Reverts == Depth > 0 /\ Len(frames') < Depth /\ Top.status = "reverted"

AtomicStep ==
  Reverts => /\ ext'.storage = Top.entry.storage
             /\ ext'.transient = Top.entry.transient
             /\ ext'.warmAddr = Top.entry.warmAddr

\* A call, creation or transaction that reverts leaves the storage, the transient
\* storage and the warm addresses as they were when its Evm was made.
RevertIsAtomic == [][AtomicStep]_vars

\* The part of a world that a revert restores exactly.
WorldOf(e) == [storage |-> e.storage, transient |-> e.transient, warm |-> e.warmAddr]

Snap == INSTANCE Snapshots WITH
          world     <- WorldOf(ext),
          saved     <- [i \in 1..Len(frames) |-> WorldOf(frames[i].entry)],
          status    <- [i \in 1..Len(frames) |-> frames[i].status],
          destroyed <- ext.destroyed

\* Frames with journals behave, for storage, transient storage and warm addresses,
\* as if every call had saved a copy of the world and put it back when it reverted:
\* nested calls are nested transactions, only the innermost running one writes, and
\* nothing but a destroyed account changes between two of them.
ImplementsSnapshots == Snap!Spec

\* Undoing a journal never makes a slot cold that was warm when the frame was
\* entered, although GetState touches outlive the revert of their own call.
WarmSlotsKept ==
  \A i \in DOMAIN frames : KeepsWarm(frames[i].entry, frames[i].touches, After(i))

\* Undoing a journal restores balance, nonce and code of every account that was
\* not written behind the journal's back (SELFDESTRUCT, a created account and
\* the creator that endowed it).
AccountsRestorable ==
  \A i \in DOMAIN frames : \A a \in Addr \ frames[i].tainted :
    /\ UndoBalance(frames[i].touches, After(i).balance)[a] = frames[i].entry.balance[a]
    /\ UndoNonce(frames[i].touches, After(i).nonce)[a] = frames[i].entry.nonce[a]
    /\ UndoCode(frames[i].touches, After(i).code)[a] = frames[i].entry.code[a]

\* Undoing a journal location by location, as Revert does, gives what the loop of
\* Evm::revert gives, at every moment a frame could be undone.
RevertIsReverseReplay ==
  frames # <<>> => Revert(Top.touches, ext) = ReverseReplay(Top.touches, ext)

\* Nothing executed under a STATICCALL, at any depth, changes storage.
StaticStorageFrozen ==
  \A i \in DOMAIN frames : frames[i].static => ext.storage = frames[i].entry.storage

\* The value SSTORE prices against is the one the slot had before the transaction.
OriginalIsTxStart ==
  \A i \in DOMAIN frames : i = 1 =>
    \A s \in Slots : ext.original[s] \in {None, frames[i].entry.storage[s]}

\* A transaction uses up a nonce of its sender, reverted or not.
NonceConsumed ==
  [][ Depth = 1 /\ frames' = <<>> => ext'.nonce[Top.from] > Top.entry.nonce[Top.from] ]_vars

\* An opcode not allowed in a static call never takes effect under one: no
\* balance, nonce or code changes.
StaticFrozen ==
  \A i \in DOMAIN frames : frames[i].static =>
    /\ ext.balance = frames[i].entry.balance
    /\ ext.nonce = frames[i].entry.nonce
    /\ ext.code = frames[i].entry.code

\* A reverted call leaves no SetValue behind: the value it was given is back.
ValueReturned == [][ Reverts => ext'.balance = Top.before ]_vars
=============================================================================
