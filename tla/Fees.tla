--------------------------------- MODULE Fees ---------------------------------
(***************************************************************************)
(* What a transaction pays and to whom: Executor::execute                  *)
(* (src/src/executor.rs) for a call, which prepays its gas and gets the    *)
(* rest back, and Runner::apply (src/src/solenoid.rs) for a creation,      *)
(* which pays afterwards.  Sender, recipient and miner may coincide.  The  *)
(* gas used is that of module Gas, any amount up to the limit here.        *)
(*                                                                         *)
(* Between the two, code moves balances in nested calls and creations.     *)
(* Of the journal of each frame only the balances are kept: the first      *)
(* touch of every account, since undoing the last touch first leaves the   *)
(* balance that the first one recorded (RevertIsReverseReplay), and the    *)
(* accounts that have a touch Create, which outlasts a revert.             *)
(*                                                                         *)
(* A behaviour is one transaction from any balances.                       *)
(***************************************************************************)
EXTENDS Integers, FiniteSets, Functions, Sequences

CONSTANTS
  Acct,       \* accounts
  Senders,    \* accounts that sign transactions
  Contracts,  \* accounts with code, a sender with a delegation among them
  NewAccts,   \* accounts that creations may be given
  Miner,      \* Header::miner, outside Acct if it is zero
  BaseFee,    \* Header::base_fee
  MaxFees,    \* TxContext::gas_max_fee
  Tips,       \* TxContext::gas_max_priority_fee, zero for a legacy transaction
  Prices,     \* gas prices of legacy transactions
  GasLimits,  \* Call::gas
  Amounts,    \* values carried
  Funds,      \* (bound) what the accounts own at first
  Kinds,      \* which kinds of transactions there are
  MaxDepth,   \* (bound) frames on top of each other
  MaxFrames   \* (bound) frames in all

ASSUME AccountsAssumption ==
  /\ IsFiniteSet(Acct)
  /\ Senders \subseteq Acct /\ Contracts \subseteq Acct
  /\ NewAccts \subseteq Acct \ Senders

ASSUME PricesAssumption ==
  /\ BaseFee \in Nat
  /\ MaxFees \subseteq Nat /\ Tips \subseteq Nat /\ Prices \subseteq Nat
  /\ \A p \in MaxFees \cup Prices : p >= BaseFee

ASSUME AmountsAssumption ==
  /\ GasLimits \subseteq Nat /\ Amounts \subseteq Nat /\ Funds \subseteq Nat
  /\ Kinds \subseteq {"call", "create"}
  /\ MaxDepth \in Nat /\ MaxFrames \in Nat

VARIABLES
  bal,      \* balances
  cached,   \* the accounts in Ext::state, in so far as creations may be given them
  frames,   \* the calls and creations under way with their journals
  tx,       \* the transaction
  before,   \* (history) the balances before the transaction
  lost      \* (history) whether a revert did not give all balances back

vars == <<bal, cached, frames, tx, before, lost>>

None == -1

Balances == [Acct -> Nat]
Touches  == [Acct -> Nat \cup {None}]

\* A frame: its account, the value a creation endows it with, and its journal, in
\* which created are the accounts with a touch Create.  History: the balances at its
\* entry, and the accounts whose balance its journal does not account for.
Frame == [ kind: {"call", "create"}, this: Acct, value: Nat,
           journal: Touches, created: SUBSET Acct,
           entry: Balances, moved: SUBSET Acct ]

Depth == Len(frames)
Top   == frames[Depth]
Under == frames[Depth - 1]

SatSub(x, y) == IF x >= y THEN x - y ELSE 0

Least(x, y) == IF x <= y THEN x ELSE y

\* Tx::effective_gas_price, and again in Executor::execute: a tip of zero stands
\* for a legacy transaction.
EffectiveGasPrice(price, maxFee, tip) ==
  IF tip = 0 THEN price ELSE Least(maxFee, BaseFee + tip)

CoinbaseGasPrice(t) == SatSub(t.price, BaseFee)

Take(b, a, x) == [b EXCEPT ![a] = SatSub(@, x)]
Give(b, a, x) == [b EXCEPT ![a] = @ + x]

Moved(b, src, dst, x) == Give(Take(b, src, x), dst, x)

PayMiner(b, x) == IF Miner \in Acct THEN Give(b, Miner, x) ELSE b

-----------------------------------------------------------------------------
(* Journals *)

NoTouches == [a \in Acct |-> None]

\* Touches SetValue of the accounts in S, whose balances are b.
SetValues(b, S) == [a \in Acct |-> IF a \in S THEN b[a] ELSE None]

\* Touches Create of the accounts in S: undoing one sets the balance to zero.
Creates(S) == [a \in Acct |-> IF a \in S THEN 0 ELSE None]

\* The touches j and then those of i.
Then(j, i) == [a \in Acct |-> IF j[a] # None THEN j[a] ELSE i[a]]

\* Evm::revert.
Reverted(b, j) == [a \in Acct |-> IF j[a] # None THEN j[a] ELSE b[a]]

\* The accounts that undoing the journal of f may not give their balances back.
Unaccounted(f) == f.moved \cup {a \in f.created : f.entry[a] # 0}

-----------------------------------------------------------------------------
(* Frames *)

NewFrame(kind, this, value, entry) ==
  [ kind |-> kind, this |-> this, value |-> value, journal |-> NoTouches,
    created |-> {}, entry |-> entry, moved |-> {} ]

\* Runner::apply and create enter the account c without asking the node for it: what
\* it may own there is hidden.
Hides(c) == c \notin cached /\ bal[c] # 0

Hidden(c) == IF Hides(c) THEN [bal EXCEPT ![c] = 0] ELSE bal

\* The innermost frame ends, and the one under it goes on as f in balances b.
Leave(f, b) ==
  /\ frames' = [i \in 1..(Depth - 1) |-> IF i = Depth - 1 THEN f ELSE frames[i]]
  /\ bal' = b
  /\ UNCHANGED <<cached, tx, before>>

Enter(f, g) == frames' = Append([frames EXCEPT ![Depth] = f], g)

Runs(kind) == tx.status = "running" /\ Depth > 1 /\ Top.kind = kind

CanEnter ==
  /\ tx.status = "running"
  /\ Top.this \in Contracts
  /\ Depth < MaxDepth /\ tx.entered < MaxFrames

\* (mutant) Funds are not checked.
CallUnchecked(b, value, own) ==
  LET this  == Top.this
      moves == value # 0 /\ this # b
      sent  == IF moves THEN Give([bal EXCEPT ![this] = @ - value], b, value) ELSE bal
      new   == IF moves THEN SetValues(bal, {this, b}) ELSE NoTouches
  IN  /\ CanEnter
      /\ Enter([Top EXCEPT !.journal = Then(@, new)],
               NewFrame("call", IF own THEN this ELSE b, 0, sent))
      /\ bal' = sent
      /\ cached' = cached \cup {b}
      /\ tx' = [tx EXCEPT !.entered = @ + 1]
      /\ UNCHANGED <<before, lost>>

\* Executor::call of the code of b, no precompile, by CALLCODE and DELEGATECALL on the
\* caller's own account: the value moves, if there is any and the caller owns it,
\* before the callee runs, and in the caller's journal.  STATICCALL and DELEGATECALL
\* move nothing.
Call(b, value, own) ==
  LET this  == Top.this
      moves == value # 0 /\ bal[this] >= value /\ this # b
      sent  == IF moves THEN Moved(bal, this, b, value) ELSE bal
      new   == IF moves THEN SetValues(bal, {this, b}) ELSE NoTouches
  IN  /\ CanEnter
      /\ Enter([Top EXCEPT !.journal = Then(@, new)],
               NewFrame("call", IF own THEN this ELSE b, 0, sent))
      /\ bal' = sent
      /\ cached' = cached \cup {b}
      /\ tx' = [tx EXCEPT !.entered = @ + 1]
      /\ UNCHANGED <<before, lost>>

\* Executor::create up to the init code; no value moves yet.  In a frame entered by
\* DELEGATECALL, CREATE moves none at all, as if it were zero.
Create(c, value) ==
  /\ CanEnter
  /\ c # Top.this
  /\ Enter([Top EXCEPT !.moved = @ \cup (IF Hides(c) THEN {c} ELSE {})],
           NewFrame("create", c, value, Hidden(c)))
  /\ bal' = Hidden(c)
  /\ cached' = cached \cup {c}
  /\ tx' = [tx EXCEPT !.entered = @ + 1]
  /\ lost' = (lost \/ Hides(c))
  /\ UNCHANGED before

\* SELFDESTRUCT leaves no touch.
SelfDestruct(b) ==
  LET this == Top.this
  IN  /\ tx.status = "running"
      /\ this \in Contracts
      /\ bal' = [x \in Acct |-> (IF x = this THEN 0 ELSE bal[x]) + (IF x = b THEN bal[this] ELSE 0)]
      /\ frames' = [frames EXCEPT ![Depth] = [Top EXCEPT !.moved = @ \cup {this, b}]]
      /\ cached' = cached \cup {b}
      /\ UNCHANGED <<tx, before, lost>>

\* The frame under the innermost one with the touches j and the creations C, and
\* with the accounts M and the innermost frame's unaccounted for.
Joined(j, C, M) ==
  [Under EXCEPT !.journal = Then(@, j), !.created = @ \cup C, !.moved = @ \cup Top.moved \cup M]

\* A call succeeds: its touches are appended to its caller's.
Return ==
  /\ Runs("call")
  /\ Leave(Joined(Top.journal, Top.created, {}), bal)
  /\ UNCHANGED lost

\* A call fails, or a creation fails or cannot pay its deposit: it is undone, and of
\* its touches those that survive_revert, the creations, are appended.
Undo ==
  /\ tx.status = "running" /\ Depth > 1
  /\ Leave(Joined(Creates(Top.created), Top.created, {}), Reverted(bal, Top.journal))
  /\ lost' = (lost \/ Unaccounted(Top) # {})

\* (mutant) The endowment leaves no touches.
DeployUnjournaled ==
  LET from  == Under.this
      c     == Top.this
      moves == Top.value # 0 /\ bal[from] >= Top.value
  IN  /\ Runs("create")
      /\ Leave(Joined(Then(Creates({c}), Top.journal), Top.created \cup {c}, {}),
               IF moves THEN Moved(bal, from, c, Top.value) ELSE bal)
      /\ UNCHANGED lost

\* A creation succeeds: only now it is endowed, if the creator still owns the value.
\* The touches of the endowment and of the creation are appended to the creator's
\* before those of the init code, although they come after them.  If the init code
\* moved the creator's or its own balance, the first touch holds a later balance.
Deploy ==
  LET from  == Under.this
      c     == Top.this
      moves == Top.value # 0 /\ bal[from] >= Top.value
      S     == IF moves THEN {from, c} ELSE {}
  IN  /\ Runs("create")
      /\ Leave(Joined(Then(SetValues(bal, S), Then(Creates({c}), Top.journal)),
                      Top.created \cup {c},
                      {a \in S : Top.journal[a] # None}),
               IF moves THEN Moved(bal, from, c, Top.value) ELSE bal)
      /\ UNCHANGED lost

-----------------------------------------------------------------------------
(* Transactions *)

\* The start of apply and execute, up to the loop, for transactions of mined blocks,
\* whose sender owns what it offers.  The account c that the sender's nonce would
\* create is entered for a call as well, unless it is the recipient, which has been
\* asked for.  Calls prepay without a touch; creations endow before the init code.
Begin(kind, from, to, c, value, gas, price, maxFee, tip) ==
  LET p    == EffectiveGasPrice(price, maxFee, tip)
      dst  == IF kind = "call" THEN to ELSE c
      hid  == Hides(c) /\ ~(kind = "call" /\ c = to)
      seen == IF hid THEN Hidden(c) ELSE bal
      paid == IF kind = "call" THEN Take(seen, from, gas * p) ELSE seen
      new  == IF value # 0 THEN SetValues(paid, {from, dst}) ELSE NoTouches
  IN  /\ tx.status = "none"
      /\ bal[from] >= gas * p + value
      /\ tx' = [ status |-> "running", kind |-> kind, from |-> from, gas |-> gas, price |-> p,
                 entered |-> 1, used |-> 0, reverted |-> FALSE ]
      /\ bal' = IF value # 0 THEN Moved(paid, from, dst, value) ELSE paid
      /\ frames' = << [NewFrame(kind, dst, value, paid) EXCEPT
                         !.journal = new, !.moved = IF hid THEN {c} ELSE {}] >>
      /\ cached' = cached \cup {c, dst}
      /\ lost' = hid
      /\ before' = bal

Done(used, reverted) ==
  /\ tx.status = "running" /\ Depth = 1
  /\ tx' = [tx EXCEPT !.status = "done", !.used = used, !.reverted = reverted]
  /\ UNCHANGED <<cached, frames, before, lost>>

\* (mutant) The fees are paid before the journal is undone.
EndCallLateRevert(used, reverted) ==
  LET refund == tx.gas * tx.price - used * tx.price
      paid   == PayMiner(Give(bal, tx.from, refund), used * CoinbaseGasPrice(tx))
  IN  /\ tx.kind = "call"
      /\ Done(used, reverted)
      /\ bal' = IF reverted THEN Reverted(paid, Top.journal) ELSE paid

\* The end of Executor::execute: the journal is undone first, then the sender gets
\* the gas it did not use back and the miner its share.
EndCall(used, reverted) ==
  LET kept   == IF reverted THEN Reverted(bal, Top.journal) ELSE bal
      refund == tx.gas * tx.price - used * tx.price
  IN  /\ tx.kind = "call"
      /\ Done(used, reverted)
      /\ bal' = PayMiner(Give(kept, tx.from, refund), used * CoinbaseGasPrice(tx))

\* The end of Runner::apply for a creation: the miner is paid, then the journal is
\* undone, then the sender pays.
EndCreate(used, reverted) ==
  LET paid == PayMiner(bal, used * CoinbaseGasPrice(tx))
      kept == IF reverted THEN Reverted(paid, Top.journal) ELSE paid
  IN  /\ tx.kind = "create"
      /\ Done(used, reverted)
      /\ bal' = Take(kept, tx.from, used * tx.price)

-----------------------------------------------------------------------------

\* Whatever code asks the state for has been asked for from the start.
Init ==
  /\ bal \in [Acct -> Funds]
  /\ cached \in SUBSET NewAccts
  /\ frames = <<>>
  /\ \E from \in Senders :
       tx = [ status |-> "none", kind |-> "call", from |-> from, gas |-> 0, price |-> BaseFee,
              entered |-> 0, used |-> 0, reverted |-> FALSE ]
  /\ before = bal
  /\ lost = FALSE

Next ==
  \/ \E kind \in Kinds, from \in Senders, to \in Acct, c \in NewAccts, value \in Amounts,
        gas \in GasLimits, price \in Prices, maxFee \in MaxFees, tip \in Tips :
          Begin(kind, from, to, c, value, gas, price, maxFee, tip)
  \/ \E b \in Acct, value \in Amounts, own \in BOOLEAN : Call(b, value, own)
  \/ \E c \in NewAccts, value \in Amounts : Create(c, value)
  \/ \E b \in Acct : SelfDestruct(b)
  \/ Return
  \/ Undo
  \/ Deploy
  \/ \E used \in 0..tx.gas, reverted \in BOOLEAN : EndCall(used, reverted)
  \/ \E used \in 0..tx.gas, reverted \in BOOLEAN : EndCreate(used, reverted)

Spec == Init /\ [][Next]_vars

-----------------------------------------------------------------------------
(* Properties *)

\* No balance turns negative: neither the fees nor the transfers take what an
\* account does not have.
TypeOK ==
  /\ bal \in Balances
  /\ before \in Balances
  /\ cached \subseteq Acct
  /\ frames \in Seq(Frame)
  /\ lost \in BOOLEAN
  /\ tx \in [ status: {"none", "running", "done"}, kind: {"call", "create"}, from: Acct,
              gas: Nat, price: Nat, entered: Nat, used: Nat, reverted: BOOLEAN ]

\* What the balance of a becomes if a transaction pays its fees and does nothing
\* else.
FeesOnly(a) ==
  before[a] - (IF a = tx.from THEN tx.used * tx.price ELSE 0)
            + (IF a = Miner THEN tx.used * CoinbaseGasPrice(tx) ELSE 0)

\* A call that reverts has paid its fees and done nothing else, whatever its inner
\* calls and creations moved and whichever of them were undone before, sender,
\* recipient and miner being the same or not.  Excepted are the accounts that its
\* journal does not account for: those that SELFDESTRUCT wrote, created ones that had
\* funds already or whose funds were hidden, and the parties to an endowment whose
\* balances the init code had moved.
RevertPaysFees ==
  tx.status = "done" /\ tx.kind = "call" /\ tx.reverted =>
    \A a \in Acct \ Unaccounted(Top) : bal[a] = FeesOnly(a)

Total(b) == FoldFunction(+, 0, b)

\* The sender of a creation, which pays afterwards, has code, by delegation, that can
\* spend what the fee needs; the saturating subtraction then misses it.
MaySpendFee == tx.kind = "create" /\ tx.from \in Contracts

\* A transaction burns the base fee of the gas it used and creates or destroys
\* nothing else, unless a revert met an account its journal does not account for,
\* funds were hidden, its sender may spend the fee, or it is a creation that reverts.
Conserved ==
  tx.status = "done" /\ ~lost /\ ~MaySpendFee
    /\ (tx.reverted => tx.kind = "call" /\ Unaccounted(Top) = {}) =>
    Total(bal) = Total(before)
                   - tx.used * (IF Miner \in Acct THEN tx.price - CoinbaseGasPrice(tx) ELSE tx.price)

\* The fee of a creation that reverts stays with the miner.
MinerKeepsFee ==
  tx.status = "done" /\ tx.kind = "create" /\ tx.reverted =>
    \A a \in Acct \ Unaccounted(Top) : bal[a] = FeesOnly(a)
=============================================================================
