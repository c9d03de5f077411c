------------------------------ MODULE FeesProofs ------------------------------
(***************************************************************************)
(* A call that reverts pays its fees and changes nothing else, and a       *)
(* transaction burns the base fee and nothing more, proved for all         *)
(* accounts, prices and amounts, and for calls and creations inside each   *)
(* other to any depth.                                                     *)
(***************************************************************************)
EXTENDS Fees, FiniteSetTheorems, SequenceTheorems, WellFoundedInduction, TLAPS

\* What the sender of a call prepays.
Offer == IF tx.kind = "call" THEN tx.gas * tx.price ELSE 0

\* What a owns once the transaction has prepaid its gas.
Prepaid(a) == before[a] - (IF a = tx.from THEN Offer ELSE 0)

\* Undoing the journal of f in balances b gives back what f was entered with.
Restores(f, b) ==
  \A a \in Acct \ Unaccounted(f) : Reverted(b, f.journal)[a] = f.entry[a]

\* The balances to which frame i has led: those that the one above it was entered
\* with.
After(i) == IF i = Depth THEN bal ELSE frames[i + 1].entry

\* What frame f has done, b being the balances to which it has led.
Sound(f, b) ==
  /\ Restores(f, b)
  /\ f.kind = "create" => f.this \in NewAccts
  /\ f.created \subseteq NewAccts

\* While a transaction runs, each frame can be undone on its own.
Journaled ==
  tx.status = "running" =>
    /\ Depth >= 1
    /\ \A i \in 1..(Depth - 1) : frames[i].this \in Contracts
    /\ \A i \in 1..Depth : Sound(frames[i], After(i))
    /\ \A a \in Acct \ frames[1].moved : frames[1].entry[a] = Prepaid(a)

Inv == TypeOK /\ tx.from \in Senders /\ Journaled /\ RevertPaysFees

-----------------------------------------------------------------------------

\* Products of natural numbers are natural numbers.
LEMMA TimesNat == ASSUME NEW x \in Nat, NEW y \in Nat PROVE x * y \in Nat
  BY SMT

\* The fee for the gas used is at most the fee for the gas offered.
LEMMA TimesMonotone ==
  ASSUME NEW x \in Nat, NEW y \in Nat, NEW p \in Nat, x <= y
  PROVE  x * p <= y * p
<1>1. PICK d \in Nat : y = x + d
  <2>1. y - x \in Nat /\ y = x + (y - x)
    BY SMT
  <2> QED
    BY <2>1
<1>2. y * p = x * p + d * p
  BY <1>1, SMT
<1>3. x * p \in Nat /\ d * p \in Nat
  BY <1>1, TimesNat
<1> QED
  BY <1>2, <1>3, SMT

\* Taking from a balance and adding to one keep balances natural numbers.
LEMMA BalanceTypes ==
  ASSUME NEW b \in Balances, NEW a \in Acct, NEW x \in Nat
  PROVE  /\ Take(b, a, x) \in Balances
         /\ Give(b, a, x) \in Balances
         /\ PayMiner(b, x) \in Balances
BY SMT DEF Balances, Take, Give, PayMiner, SatSub

\* So does moving some of it, which leaves the balances of others alone.
LEMMA MovedIs ==
  ASSUME NEW b \in Balances, NEW src \in Acct, NEW dst \in Acct, NEW x \in Nat
  PROVE  /\ Moved(b, src, dst, x) \in Balances
         /\ \A a \in Acct \ {src, dst} : Moved(b, src, dst, x)[a] = b[a]
         /\ \A a \in Acct \ {src} : Moved(b, src, dst, x)[a] >= b[a]
<1>1. Take(b, src, x) \in Balances /\ \A a \in Acct \ {src} : Take(b, src, x)[a] = b[a]
  BY BalanceTypes DEF Balances, Take
<1> DEFINE c == Take(b, src, x)
<1> HIDE DEF c
<1>2. c \in Balances /\ \A a \in Acct \ {src} : c[a] = b[a]
  BY <1>1 DEF c
<1>3. /\ Give(c, dst, x) \in Balances
      /\ \A a \in Acct \ {dst} : Give(c, dst, x)[a] = c[a]
      /\ \A a \in Acct : Give(c, dst, x)[a] >= c[a]
  <2>1. Give(c, dst, x) = [a \in Acct |-> IF a = dst THEN c[a] + x ELSE c[a]]
    BY <1>2 DEF Balances, Give
  <2> QED
    BY <1>2, <2>1, SMT DEF Balances
<1>4. Moved(b, src, dst, x) = Give(c, dst, x)
  BY DEF Moved, c
<1> QED
  BY <1>2, <1>3, <1>4 DEF Balances

\* The price of a transaction and what of it goes to the miner.
LEMMA PriceTypes ==
  ASSUME NEW price \in Prices, NEW maxFee \in MaxFees, NEW tip \in Tips
  PROVE  EffectiveGasPrice(price, maxFee, tip) \in Nat
BY PricesAssumption, SMT DEF EffectiveGasPrice, Least

\* Journals hold balances, and undoing them leaves balances.
LEMMA TouchTypes ==
  ASSUME NEW b \in Balances, NEW S \in SUBSET Acct, NEW j \in Touches, NEW i \in Touches
  PROVE  /\ NoTouches \in Touches
         /\ SetValues(b, S) \in Touches
         /\ Creates(S) \in Touches
         /\ Then(j, i) \in Touches
         /\ Reverted(b, j) \in Balances
<1>1. NoTouches \in Touches /\ SetValues(b, S) \in Touches /\ Creates(S) \in Touches
  BY SMT DEF Touches, Balances, NoTouches, SetValues, Creates
<1>2. Then(j, i) \in Touches
  BY DEF Touches, Then
<1>3. Reverted(b, j) \in Balances
  BY SMT DEF Touches, Balances, Reverted
<1> QED
  BY <1>1, <1>2, <1>3

\* No balance is None.
LEMMA BalancesAreSome == ASSUME NEW b \in Balances, NEW a \in Acct PROVE b[a] # None /\ 0 # None
BY SMT DEF Balances, None

-----------------------------------------------------------------------------
(* Stacks of frames *)

\* The parts of a frame.
LEMMA FrameFields ==
  ASSUME NEW f \in Frame
  PROVE  /\ f.kind \in {"call", "create"} /\ f.this \in Acct /\ f.value \in Nat
         /\ f.journal \in Touches /\ f.created \in SUBSET Acct
         /\ f.entry \in Balances /\ f.moved \in SUBSET Acct
BY DEF Frame

\* A frame is left.
LEMMA Left ==
  ASSUME NEW q \in Seq(Frame), Len(q) > 1, NEW f \in Frame, NEW r,
         r = [i \in 1..(Len(q) - 1) |-> IF i = Len(q) - 1 THEN f ELSE q[i]]
  PROVE  /\ r \in Seq(Frame) /\ Len(r) = Len(q) - 1
         /\ r[Len(r)] = f
         /\ \A i \in 1..(Len(r) - 1) : r[i] = q[i]
<1>1. Len(q) - 1 \in Nat
  OBVIOUS
<1>2. \A i \in 1..(Len(q) - 1) : q[i] \in Frame
  OBVIOUS
<1>3. r \in [1..(Len(q) - 1) -> Frame]
  BY <1>2
<1>4. r \in Seq(Frame)
  BY <1>1, <1>3, SMT
<1> QED
  BY <1>1, <1>4

\* A frame is entered.
LEMMA Entered ==
  ASSUME NEW q \in Seq(Frame), Len(q) >= 1, NEW f \in Frame, NEW g \in Frame, NEW r,
         r = Append([q EXCEPT ![Len(q)] = f], g)
  PROVE  /\ r \in Seq(Frame) /\ Len(r) = Len(q) + 1
         /\ r[Len(q) + 1] = g /\ r[Len(q)] = f
         /\ \A i \in 1..(Len(q) - 1) : r[i] = q[i]
<1> DEFINE s == [q EXCEPT ![Len(q)] = f]
<1>1. /\ s \in Seq(Frame) /\ Len(s) = Len(q) /\ s[Len(q)] = f
      /\ \A i \in 1..(Len(q) - 1) : s[i] = q[i]
  BY ExceptSeq
<1> HIDE DEF s
<1>2. r = Append(s, g)
  BY DEF s
<1> QED
  BY <1>1, <1>2, AppendProperties

\* The innermost frame goes on as another.
LEMMA Replaced ==
  ASSUME NEW q \in Seq(Frame), Len(q) >= 1, NEW f \in Frame, NEW r,
         r = [q EXCEPT ![Len(q)] = f]
  PROVE  /\ r \in Seq(Frame) /\ Len(r) = Len(q)
         /\ r[Len(q)] = f
         /\ \A i \in 1..(Len(q) - 1) : r[i] = q[i]
BY ExceptSeq

-----------------------------------------------------------------------------
(* What a running transaction leaves of the frames *)

\* The frames are as an action that enters, leaves or goes on must leave them.
Stacked ==
  /\ frames \in Seq(Frame) /\ Depth >= 1
  /\ \A i \in 1..(Depth - 1) : frames[i].this \in Contracts
  /\ \A i \in 1..Depth : Sound(frames[i], After(i))

\* A frame that is entered, and what of its caller's has changed.
LEMMA EnterStacked ==
  ASSUME Stacked, NEW f \in Frame, NEW g \in Frame, Enter(f, g),
         f.this = Top.this, Top.this \in Contracts, f.entry = Top.entry,
         Top.moved \subseteq f.moved, Sound(f, g.entry), Sound(g, bal')
  PROVE  /\ Stacked'
         /\ frames'[1].entry = frames[1].entry /\ frames[1].moved \subseteq frames'[1].moved
<1>1. /\ frames' \in Seq(Frame) /\ Depth' = Depth + 1 /\ Depth \in Nat /\ Depth >= 1
      /\ frames'[Depth + 1] = g /\ frames'[Depth] = f
      /\ \A i \in 1..(Depth - 1) : frames'[i] = frames[i]
  BY Entered DEF Stacked, Enter, Depth
<1>2. \A i \in 1..(Depth' - 1) : frames'[i].this \in Contracts
  BY <1>1 DEF Stacked
<1>3. ASSUME NEW i \in 1..Depth'
      PROVE  Sound(frames'[i], After(i)')
  <2>1. CASE i = Depth + 1
    BY <1>1, <2>1 DEF After
  <2>2. CASE i = Depth
    BY <1>1, <2>2 DEF After
  <2>3. CASE i < Depth
    <3>1. i \in 1..(Depth - 1) /\ i + 1 \in 1..Depth
      BY <1>1, <2>3
    <3>2. frames'[i + 1].entry = frames[i + 1].entry
      BY <1>1, <3>1 DEF Top
    <3>3. After(i)' = After(i)
      BY <1>1, <3>1, <3>2 DEF After
    <3> QED
      BY <1>1, <3>1, <3>3 DEF Stacked
  <2> QED
    BY <1>1, <2>1, <2>2, <2>3
<1>4. frames'[1].entry = frames[1].entry /\ frames[1].moved \subseteq frames'[1].moved
  BY <1>1 DEF Top
<1> QED
  BY <1>1, <1>2, <1>3, <1>4 DEF Stacked

\* A frame that is left.
LEMMA LeaveStacked ==
  ASSUME Stacked, Depth > 1, NEW f \in Frame, NEW b, Leave(f, b),
         f.this = Under.this, f.entry = Under.entry, Under.moved \subseteq f.moved, Sound(f, b)
  PROVE  /\ Stacked'
         /\ frames'[1].entry = frames[1].entry /\ frames[1].moved \subseteq frames'[1].moved
<1>1. /\ frames' \in Seq(Frame) /\ Depth' = Depth - 1 /\ Depth \in Nat /\ Depth > 1
      /\ frames'[Depth - 1] = f
      /\ \A i \in 1..(Depth - 2) : frames'[i] = frames[i]
  BY Left DEF Stacked, Leave, Depth
<1>2. bal' = b
  BY DEF Leave
<1>3. \A i \in 1..(Depth' - 1) : frames'[i].this \in Contracts
  BY <1>1 DEF Stacked
<1>4. ASSUME NEW i \in 1..Depth'
      PROVE  Sound(frames'[i], After(i)')
  <2>1. CASE i = Depth - 1
    BY <1>1, <1>2, <2>1 DEF After
  <2>2. CASE i < Depth - 1
    <3>1. i \in 1..(Depth - 2) /\ i + 1 \in 1..(Depth - 1) /\ i \in 1..Depth
      BY <1>1, <2>2
    <3>2. frames'[i + 1].entry = frames[i + 1].entry
      BY <1>1, <3>1 DEF Under
    <3>3. After(i)' = After(i)
      BY <1>1, <3>1, <3>2 DEF After
    <3> QED
      BY <1>1, <3>1, <3>3 DEF Stacked
  <2> QED
    BY <1>1, <2>1, <2>2
<1>5. frames'[1].entry = frames[1].entry /\ frames[1].moved \subseteq frames'[1].moved
  BY <1>1 DEF Under
<1> QED
  BY <1>1, <1>3, <1>4, <1>5 DEF Stacked

\* The innermost frame goes on.
LEMMA ReplaceStacked ==
  ASSUME Stacked, NEW f \in Frame, frames' = [frames EXCEPT ![Depth] = f],
         f.this = Top.this, f.entry = Top.entry, Top.moved \subseteq f.moved, Sound(f, bal')
  PROVE  /\ Stacked'
         /\ frames'[1].entry = frames[1].entry /\ frames[1].moved \subseteq frames'[1].moved
<1>1. /\ frames' \in Seq(Frame) /\ Depth' = Depth /\ Depth \in Nat /\ Depth >= 1
      /\ frames'[Depth] = f
      /\ \A i \in 1..(Depth - 1) : frames'[i] = frames[i]
  BY Replaced DEF Stacked, Depth
<1>2. \A i \in 1..(Depth' - 1) : frames'[i].this \in Contracts
  BY <1>1 DEF Stacked
<1>3. ASSUME NEW i \in 1..Depth'
      PROVE  Sound(frames'[i], After(i)')
  <2>1. CASE i = Depth
    BY <1>1, <2>1 DEF After
  <2>2. CASE i < Depth
    <3>1. i \in 1..(Depth - 1) /\ i + 1 \in 1..Depth
      BY <1>1, <2>2
    <3>2. frames'[i + 1].entry = frames[i + 1].entry
      BY <1>1, <3>1 DEF Top
    <3>3. After(i)' = After(i)
      BY <1>1, <3>1, <3>2 DEF After
    <3> QED
      BY <1>1, <3>1, <3>3 DEF Stacked
  <2> QED
    BY <1>1, <2>1, <2>2
<1>4. frames'[1].entry = frames[1].entry /\ frames[1].moved \subseteq frames'[1].moved
  BY <1>1 DEF Top
<1> QED
  BY <1>1, <1>2, <1>3, <1>4 DEF Stacked

\* While a transaction runs, each frame can be undone on its own, and the outermost
\* one was entered after the prepayment.
LEMMA JournaledKept ==
  ASSUME Inv, TypeOK', tx.status = "running", Stacked', tx'.status = "running",
         tx'.from = tx.from, tx'.kind = tx.kind, tx'.gas = tx.gas, tx'.price = tx.price,
         before' = before,
         frames'[1].entry = frames[1].entry, frames[1].moved \subseteq frames'[1].moved
  PROVE  Inv'
<1>1. \A a \in Acct : Prepaid(a)' = Prepaid(a)
  BY DEF Prepaid, Offer
<1>2. \A a \in Acct \ frames'[1].moved : frames'[1].entry[a] = Prepaid(a)'
  BY <1>1 DEF Inv, Journaled
<1>3. Journaled'
  BY <1>2 DEF Stacked, Journaled
<1>4. RevertPaysFees'
  BY DEF RevertPaysFees
<1> QED
  BY <1>3, <1>4 DEF Inv

\* What the innermost frame is, and the one under it.
LEMMA TopFields ==
  ASSUME Inv, tx.status = "running"
  PROVE  /\ Stacked /\ Depth \in Nat /\ bal \in Balances
         /\ Top \in Frame /\ Sound(Top, bal)
         /\ Depth > 1 => /\ Under \in Frame /\ Sound(Under, Top.entry)
                         /\ Under.this \in Contracts
<1>1. /\ frames \in Seq(Frame) /\ Depth \in Nat /\ Depth >= 1 /\ bal \in Balances
      /\ \A i \in 1..(Depth - 1) : frames[i].this \in Contracts
      /\ \A i \in 1..Depth : frames[i] \in Frame /\ Sound(frames[i], After(i))
  BY LenProperties DEF Inv, TypeOK, Journaled, Depth
<1>2. Top \in Frame /\ Sound(Top, bal)
  BY <1>1 DEF Top, After
<1>3. ASSUME Depth > 1
      PROVE  /\ Under \in Frame /\ Sound(Under, Top.entry)
             /\ Under.this \in Contracts
  <2>1. Depth - 1 \in 1..Depth /\ Depth - 1 \in 1..(Depth - 1) /\ (Depth - 1) + 1 = Depth /\ Depth - 1 # Depth
    BY <1>1, <1>3
  <2>2. After(Depth - 1) = Top.entry
    BY <2>1 DEF After, Top
  <2>3. Under \in Frame
    BY <1>1, <2>1 DEF Under
  <2>4. Sound(frames[Depth - 1], Top.entry) /\ frames[Depth - 1].this \in Contracts
    BY <1>1, <2>1, <2>2
  <2> QED
    BY <2>3, <2>4 DEF Under
<1> QED
  BY <1>1, <1>2, <1>3 DEF Stacked

\* A frame that has just been entered can be undone.
LEMMA NewFrameSound ==
  ASSUME NEW kind \in {"call", "create"}, NEW this \in Acct, NEW value \in Nat,
         NEW b \in Balances, kind = "create" => this \in NewAccts
  PROVE  /\ NewFrame(kind, this, value, b) \in Frame
         /\ NewFrame(kind, this, value, b).entry = b
         /\ Sound(NewFrame(kind, this, value, b), b)
<1> DEFINE f == NewFrame(kind, this, value, b)
<1>1. /\ f.kind = kind /\ f.this = this /\ f.journal = NoTouches /\ f.created = {}
      /\ f.entry = b
  BY DEF NewFrame
<1>2. f \in Frame
  <2>1. NoTouches \in Touches
    BY DEF Touches, NoTouches
  <2> QED
    BY <2>1 DEF NewFrame, Frame
<1> HIDE DEF f
<1>3. \A a \in Acct : Reverted(b, f.journal)[a] = b[a]
  BY <1>1 DEF Reverted, NoTouches
<1>4. Sound(f, b)
  BY <1>1, <1>3 DEF Sound, Restores
<1> QED
  BY <1>1, <1>2, <1>4 DEF f

\* The initial state.
LEMMA InitInv == Init => Inv
<1> SUFFICES ASSUME Init PROVE Inv
  OBVIOUS
<1>1. bal \in Balances /\ before \in Balances /\ cached \subseteq Acct /\ lost \in BOOLEAN
  BY AccountsAssumption, AmountsAssumption DEF Init, Balances
<1>2. frames \in Seq(Frame)
  BY EmptySeq DEF Init
<1>3. PICK from \in Senders :
        tx = [ status |-> "none", kind |-> "call", from |-> from, gas |-> 0, price |-> BaseFee,
               entered |-> 0, used |-> 0, reverted |-> FALSE ]
  BY DEF Init
<1>4. /\ tx \in [ status: {"none", "running", "done"}, kind: {"call", "create"}, from: Acct,
                  gas: Nat, price: Nat, entered: Nat, used: Nat, reverted: BOOLEAN ]
      /\ tx.from \in Senders /\ tx.status = "none"
  BY <1>3, AccountsAssumption, PricesAssumption
<1>5. TypeOK
  BY <1>1, <1>2, <1>4 DEF TypeOK
<1> QED
  BY <1>4, <1>5 DEF Inv, Journaled, RevertPaysFees

\* What Runner::apply and create do not ask for.
LEMMA HiddenIs ==
  ASSUME bal \in Balances, NEW c \in Acct
  PROVE  /\ Hidden(c) \in Balances
         /\ \A a \in Acct : a # c \/ ~Hides(c) => Hidden(c)[a] = bal[a]
         /\ ~Hides(c) => Hidden(c) = bal
BY SMT DEF Hidden, Balances

\* A transaction enters a frame.
LEMMA TxFields ==
  ASSUME TypeOK, tx' = [tx EXCEPT !.entered = @ + 1]
  PROVE  /\ tx' \in [ status: {"none", "running", "done"}, kind: {"call", "create"}, from: Acct,
                      gas: Nat, price: Nat, entered: Nat, used: Nat, reverted: BOOLEAN ]
         /\ tx'.status = tx.status /\ tx'.from = tx.from /\ tx'.kind = tx.kind
         /\ tx'.gas = tx.gas /\ tx'.price = tx.price
BY DEF TypeOK

\* The outermost frame of a transaction.
Outermost(kind, this, value, entry, j, m) ==
  [NewFrame(kind, this, value, entry) EXCEPT !.journal = j, !.moved = m]

\* Its parts.
LEMMA OutermostIs ==
  ASSUME NEW kind \in {"call", "create"}, NEW this \in Acct, NEW value \in Nat,
         NEW entry \in Balances, NEW j \in Touches, NEW m \in SUBSET Acct
  PROVE  LET f == Outermost(kind, this, value, entry, j, m)
         IN  /\ f \in Frame
             /\ f.kind = kind /\ f.this = this /\ f.journal = j /\ f.created = {}
             /\ f.entry = entry /\ f.moved = m
<1> DEFINE f == Outermost(kind, this, value, entry, j, m)
<1>1. NewFrame(kind, this, value, entry) \in Frame
  BY TouchTypes DEF NewFrame, Frame, Touches, NoTouches
<1>2. f \in Frame
  BY <1>1 DEF Frame, Outermost
<1>3. /\ f.kind = kind /\ f.this = this /\ f.journal = j /\ f.created = {}
      /\ f.entry = entry /\ f.moved = m
  BY DEF NewFrame, Outermost
<1> QED
  BY <1>2, <1>3

\* The start of a transaction: the gas is prepaid in full, and the balances that the
\* outermost frame is entered with are those after the prepayment.
LEMMA BeginInv ==
  ASSUME Inv,
         NEW kind \in Kinds, NEW from \in Senders, NEW to \in Acct, NEW c \in NewAccts,
         NEW value \in Amounts, NEW gas \in GasLimits, NEW price \in Prices,
         NEW maxFee \in MaxFees, NEW tip \in Tips,
         Begin(kind, from, to, c, value, gas, price, maxFee, tip)
  PROVE  Inv'
<1> DEFINE p    == EffectiveGasPrice(price, maxFee, tip)
           fee  == gas * p
           dst  == IF kind = "call" THEN to ELSE c
           hid  == Hides(c) /\ ~(kind = "call" /\ c = to)
           seen == IF hid THEN Hidden(c) ELSE bal
           paid == IF kind = "call" THEN Take(seen, from, fee) ELSE seen
           new  == IF value # 0 THEN SetValues(paid, {from, dst}) ELSE NoTouches
           gone == IF hid THEN {c} ELSE {}
           top  == Outermost(kind, dst, value, paid, new, gone)
<1>1. p \in Nat /\ gas \in Nat /\ value \in Nat /\ fee \in Nat
  <2>1. p \in Nat
    BY PriceTypes
  <2>2. gas \in Nat /\ value \in Nat
    BY AmountsAssumption
  <2> QED
    BY <2>1, <2>2, TimesNat
<1>2. /\ bal \in Balances /\ from \in Acct /\ c \in Acct /\ from # c /\ dst \in Acct
      /\ kind \in {"call", "create"} /\ cached \subseteq Acct
  BY AccountsAssumption, AmountsAssumption DEF Inv, TypeOK
<1>3. /\ bal[from] >= fee + value
      /\ tx' = [ status |-> "running", kind |-> kind, from |-> from, gas |-> gas, price |-> p,
                 entered |-> 1, used |-> 0, reverted |-> FALSE ]
      /\ bal' = IF value # 0 THEN Moved(paid, from, dst, value) ELSE paid
      /\ frames' = <<top>>
      /\ cached' = cached \cup {c, dst}
      /\ lost' = hid
      /\ before' = bal
  BY DEF Begin, Outermost
<1>4. kind = "create" => dst \in NewAccts
  BY <1>2
<1>5. seen \in Balances /\ \A a \in Acct : a # c \/ ~hid => seen[a] = bal[a]
  BY <1>2, HiddenIs
<1>6. hid \in BOOLEAN
  OBVIOUS
<1> HIDE DEF p, fee, top, seen, dst, hid
<1>7. paid \in Balances
  BY <1>1, <1>2, <1>5, BalanceTypes
<1>8. \A a \in Acct : a # c \/ ~hid =>
        paid[a] = bal[a] - (IF kind = "call" /\ a = from THEN fee ELSE 0)
  <2>1. seen[from] >= fee /\ seen[from] \in Nat
    BY <1>1, <1>2, <1>3, <1>5, SMT DEF Balances
  <2> QED
    BY <1>1, <1>2, <1>5, <2>1, SMT DEF Take, SatSub, Balances
<1> HIDE DEF paid
<1>9. bal' \in Balances /\ new \in Touches
  <2>1. {from, dst} \in SUBSET Acct
    BY <1>2
  <2>2. Moved(paid, from, dst, value) \in Balances
    BY <1>1, <1>2, <1>7, MovedIs
  <2>3. SetValues(paid, {from, dst}) \in Touches /\ NoTouches \in Touches
    BY <1>7, <2>1, SMT DEF Touches, Balances, NoTouches, SetValues
  <2> QED
    BY <1>3, <1>7, <2>2, <2>3
<1>10. Reverted(bal', new) = paid
  <2>1. ASSUME NEW a \in Acct
        PROVE  Reverted(bal', new)[a] = paid[a]
    <3>1. CASE value = 0
      BY <1>3, <3>1 DEF Reverted, NoTouches
    <3>2. CASE value # 0 /\ a \in {from, dst}
      BY <1>7, <3>2, BalancesAreSome DEF Reverted, SetValues
    <3>3. CASE value # 0 /\ a \notin {from, dst}
      <4>1. Moved(paid, from, dst, value)[a] = paid[a]
        <5>1. a \in Acct \ {from, dst}
          BY <3>3
        <5> QED
          BY <1>1, <1>2, <1>7, <5>1, MovedIs
      <4> QED
        BY <1>3, <3>3, <4>1 DEF Reverted, SetValues
    <3> QED
      BY <3>1, <3>2, <3>3
  <2>2. Reverted(bal', new) = [a \in Acct |-> Reverted(bal', new)[a]]
    BY DEF Reverted
  <2>3. paid = [a \in Acct |-> paid[a]]
    BY <1>7 DEF Balances
  <2> HIDE DEF new
  <2> QED
    BY <2>1, <2>2, <2>3
<1> HIDE DEF new
<1>11. /\ top \in Frame
       /\ top.kind = kind /\ top.this = dst /\ top.journal = new /\ top.created = {}
       /\ top.entry = paid /\ top.moved = gone
  <2>1. gone \in SUBSET Acct
    BY <1>2
  <2> HIDE DEF gone
  <2> QED
    BY <1>1, <1>2, <1>7, <1>9, <2>1, OutermostIs DEF top
<1>12. Sound(top, bal')
  BY <1>4, <1>10, <1>11 DEF Sound, Restores
<1>13. frames' \in Seq(Frame) /\ Depth' = 1 /\ frames'[1] = top
  BY <1>3, <1>11 DEF Depth
<1>14. TypeOK'
  <2>1. tx' \in [ status: {"none", "running", "done"}, kind: {"call", "create"}, from: Acct,
                  gas: Nat, price: Nat, entered: Nat, used: Nat, reverted: BOOLEAN ]
    BY <1>1, <1>2, <1>3
  <2>2. cached' \subseteq Acct /\ lost' \in BOOLEAN /\ before' \in Balances
    BY <1>2, <1>3, <1>6
  <2> QED
    BY <1>9, <1>13, <2>1, <2>2 DEF TypeOK
<1>15. \A i \in 1..Depth' : Sound(frames'[i], After(i)')
  BY <1>12, <1>13 DEF After
<1>16. \A a \in Acct \ frames'[1].moved : frames'[1].entry[a] = Prepaid(a)'
  <2> SUFFICES ASSUME NEW a \in Acct, a \notin frames'[1].moved
               PROVE  frames'[1].entry[a] = Prepaid(a)'
    OBVIOUS
  <2>1. a # c \/ ~hid
    BY <1>11, <1>13
  <2>2. Prepaid(a)' = bal[a] - (IF a = from THEN IF kind = "call" THEN fee ELSE 0 ELSE 0)
    BY <1>3 DEF Prepaid, Offer, fee
  <2> QED
    BY <1>8, <1>11, <1>13, <2>1, <2>2
<1>17. Journaled'
  BY <1>13, <1>15, <1>16 DEF Journaled
<1>18. RevertPaysFees' /\ tx'.from \in Senders
  BY <1>3 DEF RevertPaysFees
<1> QED
  BY <1>14, <1>17, <1>18 DEF Inv

\* A frame goes on with a longer journal.
LEMMA WithJournal ==
  ASSUME NEW f \in Frame, NEW j \in Touches
  PROVE  LET g == [f EXCEPT !.journal = j]
         IN  /\ g \in Frame /\ g.kind = f.kind /\ g.this = f.this /\ g.entry = f.entry
             /\ g.created = f.created /\ g.moved = f.moved /\ g.journal = j
BY DEF Frame

\* A frame goes on with more accounts unaccounted for.
LEMMA WithMoved ==
  ASSUME NEW f \in Frame, NEW M \in SUBSET Acct
  PROVE  LET g == [f EXCEPT !.moved = @ \cup M]
         IN  /\ g \in Frame /\ g.kind = f.kind /\ g.this = f.this /\ g.entry = f.entry
             /\ g.created = f.created /\ g.journal = f.journal /\ g.moved = f.moved \cup M
BY DEF Frame

\* Balances change: those that the journal records or does not account for may.
LEMMA MovedSound ==
  ASSUME NEW f \in Frame, NEW M \in SUBSET Acct, NEW b \in Balances, NEW c, Sound(f, b),
         \A a \in Acct \ M : c[a] = b[a]
  PROVE  Sound([f EXCEPT !.moved = @ \cup M], c)
<1> DEFINE g == [f EXCEPT !.moved = @ \cup M]
<1>1. /\ g.kind = f.kind /\ g.this = f.this /\ g.entry = f.entry
      /\ g.created = f.created /\ g.journal = f.journal /\ g.moved = f.moved \cup M
  BY WithMoved
<1> HIDE DEF g
<1>2. ASSUME NEW a \in Acct \ Unaccounted(g)
      PROVE  Reverted(c, g.journal)[a] = g.entry[a]
  <2>1. a \in Acct \ Unaccounted(f) /\ a \notin M
    BY <1>1 DEF Unaccounted
  <2>2. Reverted(b, f.journal)[a] = f.entry[a]
    BY <2>1 DEF Sound, Restores
  <2> QED
    BY <1>1, <2>1, <2>2 DEF Reverted
<1>3. Sound(g, c)
  BY <1>1, <1>2 DEF Sound, Restores
<1> QED
  BY <1>3 DEF g

\* A call: the transfer is recorded in the caller's journal, unless the journal has
\* an earlier balance.
LEMMA CallInv ==
  ASSUME Inv, NEW b \in Acct, NEW value \in Amounts, NEW own \in BOOLEAN, Call(b, value, own)
  PROVE  Inv'
<1> DEFINE this  == Top.this
           moves == value # 0 /\ bal[this] >= value /\ this # b
           sent  == IF moves THEN Moved(bal, this, b, value) ELSE bal
           new   == IF moves THEN SetValues(bal, {this, b}) ELSE NoTouches
           f     == [Top EXCEPT !.journal = Then(@, new)]
           g     == NewFrame("call", IF own THEN this ELSE b, 0, sent)
<1>1. tx.status = "running" /\ Top.this \in Contracts
  BY DEF Call, CanEnter
<1>2. Stacked /\ Top \in Frame /\ Sound(Top, bal) /\ bal \in Balances /\ value \in Nat
  BY <1>1, TopFields, AmountsAssumption
<1>3. this \in Acct /\ Top.journal \in Touches
  BY <1>2, FrameFields
<1>4. /\ Enter(f, g) /\ bal' = sent /\ cached' = cached \cup {b}
      /\ tx' = [tx EXCEPT !.entered = @ + 1] /\ before' = before /\ lost' = lost
  BY DEF Call
<1>5. sent \in Balances /\ \A a \in Acct \ {this, b} : sent[a] = bal[a]
  BY <1>2, <1>3, MovedIs
<1>6. new \in Touches /\ \A a \in Acct : new[a] # None => new[a] = bal[a]
  <2>1. {this, b} \in SUBSET Acct
    BY <1>3
  <2>2. SetValues(bal, {this, b}) \in Touches /\ NoTouches \in Touches
    BY <1>2, <1>3, <2>1, TouchTypes
  <2> QED
    BY <2>2 DEF SetValues, NoTouches
<1>7. \A a \in Acct : new[a] = None => sent[a] = bal[a]
  <2>1. ASSUME moves, NEW a \in {this, b}
        PROVE  new[a] # None
    BY <1>2, <1>3, <2>1, BalancesAreSome DEF SetValues
  <2> QED
    BY <1>5, <2>1
<1>8. /\ f \in Frame /\ f.kind = Top.kind /\ f.this = Top.this /\ f.entry = Top.entry
      /\ f.created = Top.created /\ f.moved = Top.moved /\ f.journal = Then(Top.journal, new)
  <2>1. Then(Top.journal, new) \in Touches
    BY <1>2, <1>3, <1>6, TouchTypes
  <2> HIDE DEF new
  <2> QED
    BY <1>2, <2>1, WithJournal
<1>9. /\ g \in Frame /\ g.entry = sent /\ Sound(g, sent)
  <2>1. (IF own THEN this ELSE b) \in Acct /\ 0 \in Nat
    BY <1>3
  <2> HIDE DEF sent
  <2> QED
    BY <1>5, <2>1, NewFrameSound
<1> HIDE DEF f, g, sent, new, moves
<1>10. Sound(f, g.entry)
  <2>1. ASSUME NEW a \in Acct \ Unaccounted(f)
        PROVE  Reverted(sent, f.journal)[a] = f.entry[a]
    <3>1. a \in Acct \ Unaccounted(Top)
      BY <1>8 DEF Unaccounted
    <3>2. Reverted(bal, Top.journal)[a] = Top.entry[a]
      BY <1>2, <3>1 DEF Sound, Restores
    <3>3. CASE Top.journal[a] # None
      BY <1>8, <3>2, <3>3 DEF Reverted, Then
    <3>4. CASE Top.journal[a] = None /\ new[a] # None
      BY <1>6, <1>8, <3>2, <3>4 DEF Reverted, Then
    <3>5. CASE Top.journal[a] = None /\ new[a] = None
      BY <1>7, <1>8, <3>2, <3>5 DEF Reverted, Then
    <3> QED
      BY <3>3, <3>4, <3>5
  <2> QED
    BY <1>2, <1>8, <1>9, <2>1 DEF Sound, Restores
<1>11. /\ Stacked'
       /\ frames'[1].entry = frames[1].entry /\ frames[1].moved \subseteq frames'[1].moved
  BY <1>1, <1>2, <1>4, <1>8, <1>9, <1>10, EnterStacked
<1>12. TypeOK'
  <2>1. cached' \subseteq Acct
    BY <1>4 DEF Inv, TypeOK
  <2> QED
    BY <1>4, <1>5, <1>11, <2>1, TxFields DEF Inv, TypeOK, Stacked
<1> QED
  BY <1>1, <1>4, <1>11, <1>12, TxFields, JournaledKept DEF Inv

\* A creation: the created account may lose what it owned.
LEMMA CreateInv ==
  ASSUME Inv, NEW c \in NewAccts, NEW value \in Amounts, Create(c, value)
  PROVE  Inv'
<1> DEFINE M == IF Hides(c) THEN {c} ELSE {}
           f == [Top EXCEPT !.moved = @ \cup M]
           g == NewFrame("create", c, value, Hidden(c))
<1>1. tx.status = "running" /\ Top.this \in Contracts
  BY DEF Create, CanEnter
<1>2. /\ Stacked /\ Top \in Frame /\ Sound(Top, bal) /\ bal \in Balances /\ value \in Nat
      /\ c \in Acct /\ M \in SUBSET Acct
  BY <1>1, TopFields, AccountsAssumption, AmountsAssumption
<1>3. /\ Enter(f, g) /\ bal' = Hidden(c) /\ cached' = cached \cup {c}
      /\ tx' = [tx EXCEPT !.entered = @ + 1] /\ before' = before /\ lost' \in BOOLEAN
  BY DEF Create, Inv, TypeOK
<1>4. /\ Hidden(c) \in Balances
      /\ \A a \in Acct \ M : Hidden(c)[a] = bal[a]
  BY <1>2, HiddenIs
<1> HIDE DEF M
<1>5. /\ f \in Frame /\ f.this = Top.this /\ f.entry = Top.entry /\ f.moved = Top.moved \cup M
  BY <1>2, WithMoved
<1>6. /\ g \in Frame /\ g.entry = Hidden(c) /\ Sound(g, Hidden(c))
  BY <1>2, <1>4, NewFrameSound
<1>7. Sound(f, g.entry)
  BY <1>2, <1>4, <1>6, MovedSound
<1> HIDE DEF f, g
<1>8. /\ Stacked'
      /\ frames'[1].entry = frames[1].entry /\ frames[1].moved \subseteq frames'[1].moved
  BY <1>1, <1>2, <1>3, <1>5, <1>6, <1>7, EnterStacked
<1>9. TypeOK'
  <2>1. cached' \subseteq Acct
    BY <1>2, <1>3 DEF Inv, TypeOK
  <2> QED
    BY <1>3, <1>4, <1>8, <2>1, TxFields DEF Inv, TypeOK, Stacked
<1> QED
  BY <1>1, <1>3, <1>8, <1>9, TxFields, JournaledKept DEF Inv

\* SELFDESTRUCT: what it writes is not accounted for.
LEMMA SelfDestructInv ==
  ASSUME Inv, NEW b \in Acct, SelfDestruct(b)
  PROVE  Inv'
<1> DEFINE M == {Top.this, b}
           f == [Top EXCEPT !.moved = @ \cup M]
<1>1. tx.status = "running"
  BY DEF SelfDestruct
<1>2. /\ Stacked /\ Top \in Frame /\ Sound(Top, bal) /\ bal \in Balances
      /\ Top.this \in Acct /\ M \in SUBSET Acct
  BY <1>1, TopFields, FrameFields
<1>3. /\ bal' = [x \in Acct |-> (IF x = Top.this THEN 0 ELSE bal[x])
                                 + (IF x = b THEN bal[Top.this] ELSE 0)]
      /\ frames' = [frames EXCEPT ![Depth] = f]
      /\ cached' = cached \cup {b} /\ tx' = tx /\ before' = before /\ lost' = lost
  BY DEF SelfDestruct
<1>4. bal' \in Balances /\ \A a \in Acct \ M : bal'[a] = bal[a]
  BY <1>2, <1>3, SMT DEF Balances
<1> HIDE DEF M
<1>5. /\ f \in Frame /\ f.this = Top.this /\ f.entry = Top.entry /\ f.moved = Top.moved \cup M
  BY <1>2, WithMoved
<1>6. Sound(f, bal')
  BY <1>2, <1>4, MovedSound
<1> HIDE DEF f
<1>7. /\ Stacked'
      /\ frames'[1].entry = frames[1].entry /\ frames[1].moved \subseteq frames'[1].moved
  BY <1>2, <1>3, <1>5, <1>6, ReplaceStacked
<1>8. TypeOK'
  BY <1>3, <1>4, <1>7 DEF Inv, TypeOK, Stacked
<1> QED
  BY <1>1, <1>3, <1>7, <1>8, JournaledKept

\* The frame under the innermost one can be undone if what it keeps of that one gives
\* back what that one was entered with, or zero to the accounts created.
LEMMA JoinedSound ==
  ASSUME Inv, tx.status = "running", Depth > 1,
         NEW j \in Touches, NEW C \in SUBSET Acct, NEW M \in SUBSET Acct, NEW b \in Balances,
         C \subseteq NewAccts, Leave(Joined(j, C, M), b),
         cached' = cached, tx' = tx, before' = before, lost' \in BOOLEAN,
         \A a \in Acct \ (Top.moved \cup M) :
           (a \in C => Top.entry[a] = 0) => Reverted(b, j)[a] = Top.entry[a]
  PROVE  Inv'
<1> DEFINE f == Joined(j, C, M)
<1>1. /\ Stacked /\ Top \in Frame /\ Under \in Frame /\ Sound(Under, Top.entry)
  BY TopFields
<1>2. /\ f \in Frame /\ f.kind = Under.kind /\ f.this = Under.this
      /\ f.entry = Under.entry /\ f.journal = Then(Under.journal, j)
      /\ f.created = Under.created \cup C
      /\ f.moved = Under.moved \cup Top.moved \cup M
  <2> DEFINE k == Then(Under.journal, j)
             c == Under.created \cup C
             m == Under.moved \cup Top.moved \cup M
             g == [Under EXCEPT !.journal = k, !.created = c, !.moved = m]
  <2>1. k \in Touches
    BY <1>1, FrameFields, Zenon DEF Then, Touches
  <2>2. c \in SUBSET Acct /\ m \in SUBSET Acct
    BY <1>1, FrameFields
  <2>3. f = g
    BY DEF Joined
  <2> HIDE DEF f, k, c, m
  <2>4. g \in Frame /\ g.kind = Under.kind /\ g.this = Under.this /\ g.entry = Under.entry
        /\ g.journal = k /\ g.created = c /\ g.moved = m
    BY <1>1, <2>1, <2>2 DEF Frame
  <2> HIDE DEF g
  <2> QED
    BY <2>3, <2>4 DEF k, c, m
<1> HIDE DEF f
<1>3. ASSUME NEW a \in Acct \ Unaccounted(f)
      PROVE  Reverted(b, f.journal)[a] = f.entry[a]
  <2>1. /\ a \in Acct \ Unaccounted(Under) /\ a \notin Top.moved \cup M
        /\ a \in C => Under.entry[a] = 0
    BY <1>2 DEF Unaccounted
  <2>2. Reverted(Top.entry, Under.journal)[a] = Under.entry[a]
    BY <1>1, <2>1 DEF Sound, Restores
  <2>3. CASE Under.journal[a] # None
    BY <1>2, <2>2, <2>3 DEF Reverted, Then
  <2>4. CASE Under.journal[a] = None
    <3>1. Top.entry[a] = Under.entry[a]
      BY <2>2, <2>4 DEF Reverted
    <3>2. Reverted(b, j)[a] = Top.entry[a]
      BY <2>1, <3>1
    <3> QED
      BY <1>2, <2>4, <3>1, <3>2 DEF Reverted, Then
  <2> QED
    BY <2>3, <2>4
<1>4. Sound(f, b)
  BY <1>1, <1>2, <1>3 DEF Sound, Restores
<1>5. /\ Stacked'
      /\ frames'[1].entry = frames[1].entry /\ frames[1].moved \subseteq frames'[1].moved
  <2>1. Leave(f, b) /\ Under.moved \subseteq f.moved
    BY <1>2 DEF f
  <2> QED
    BY <1>1, <1>2, <1>4, <2>1, LeaveStacked
<1>6. bal' = b
  BY DEF Leave
<1>7. TypeOK'
  BY <1>5, <1>6 DEF Inv, TypeOK, Stacked
<1> QED
  BY <1>5, <1>7, JournaledKept

\* A call that succeeds.
LEMMA ReturnInv ==
  ASSUME Inv, Return
  PROVE  Inv'
<1>1. /\ tx.status = "running" /\ Depth > 1
      /\ Leave(Joined(Top.journal, Top.created, {}), bal) /\ lost' = lost
  BY DEF Return, Runs
<1>2. Top \in Frame /\ Sound(Top, bal) /\ bal \in Balances
  BY <1>1, TopFields
<1>3. /\ Top.journal \in Touches /\ Top.created \in SUBSET Acct /\ Top.created \subseteq NewAccts
  BY <1>2, FrameFields DEF Sound
<1>4. \A a \in Acct \ (Top.moved \cup {}) :
        (a \in Top.created => Top.entry[a] = 0) => Reverted(bal, Top.journal)[a] = Top.entry[a]
  BY <1>2 DEF Sound, Restores, Unaccounted
<1>5. cached' = cached /\ tx' = tx /\ before' = before /\ lost' \in BOOLEAN
  BY <1>1 DEF Leave, Inv, TypeOK
<1> QED
  BY <1>1, <1>2, <1>3, <1>4, <1>5, JoinedSound

\* A frame that is undone.
LEMMA UndoInv ==
  ASSUME Inv, Undo
  PROVE  Inv'
<1> DEFINE b == Reverted(bal, Top.journal)
           j == Creates(Top.created)
<1>1. /\ tx.status = "running" /\ Depth > 1
      /\ Leave(Joined(j, Top.created, {}), b) /\ lost' = (lost \/ Unaccounted(Top) # {})
  BY DEF Undo
<1>2. Top \in Frame /\ Sound(Top, bal) /\ bal \in Balances
  BY <1>1, TopFields
<1>3. /\ Top.journal \in Touches /\ Top.created \in SUBSET Acct /\ Top.created \subseteq NewAccts
  BY <1>2, FrameFields DEF Sound
<1>4. b \in Balances /\ j \in Touches
  BY <1>2, <1>3, TouchTypes
<1>5. ASSUME NEW a \in Acct \ (Top.moved \cup {}), a \in Top.created => Top.entry[a] = 0
      PROVE  Reverted(b, j)[a] = Top.entry[a]
  <2>1. b[a] = Top.entry[a]
    BY <1>2, <1>5 DEF Sound, Restores, Unaccounted
  <2>2. Reverted(b, j)[a] = IF j[a] # None THEN j[a] ELSE b[a]
    BY DEF Reverted
  <2>3. j[a] = IF a \in Top.created THEN 0 ELSE None
    BY DEF Creates
  <2> HIDE DEF b, j
  <2> QED
    BY <1>5, <2>1, <2>2, <2>3
<1>6. cached' = cached /\ tx' = tx /\ before' = before /\ lost' \in BOOLEAN
  BY <1>1 DEF Leave, Inv, TypeOK
<1> HIDE DEF b, j
<1> QED
  BY <1>1, <1>3, <1>4, <1>5, <1>6, JoinedSound

\* A creation that succeeds: its endowment is recorded with the balances after the
\* init code, which are those before it unless its journal has some.
LEMMA DeployInv ==
  ASSUME Inv, Deploy
  PROVE  Inv'
<1> DEFINE from  == Under.this
           c     == Top.this
           moves == Top.value # 0 /\ bal[from] >= Top.value
           S     == IF moves THEN {from, c} ELSE {}
           own   == Then(Creates({c}), Top.journal)
           j     == Then(SetValues(bal, S), own)
           C     == Top.created \cup {c}
           M     == {a \in S : Top.journal[a] # None}
           b     == IF moves THEN Moved(bal, from, c, Top.value) ELSE bal
<1>1. tx.status = "running" /\ Depth > 1 /\ Leave(Joined(j, C, M), b) /\ lost' = lost
      /\ Top.kind = "create"
  BY DEF Deploy, Runs
<1>2. Top \in Frame /\ Under \in Frame /\ Sound(Top, bal) /\ bal \in Balances
  BY <1>1, TopFields
<1>3. /\ Top.journal \in Touches /\ Top.created \in SUBSET Acct /\ Top.value \in Nat
      /\ c \in Acct /\ from \in Acct /\ c \in NewAccts /\ Top.created \subseteq NewAccts
  BY <1>1, <1>2, FrameFields DEF Sound
<1>4. C \in SUBSET Acct /\ C \subseteq NewAccts /\ S \in SUBSET Acct /\ M \in SUBSET Acct
  BY <1>3
<1>5. own \in Touches /\ {c} \in SUBSET Acct
  <2>1. Creates({c}) \in Touches
    BY <1>3, SMT DEF Creates, Touches
  <2> QED
    BY <1>3, <2>1, Zenon DEF Then, Touches
<1>6. j \in Touches
  <2>1. SetValues(bal, S) \in Touches
    <3> HIDE DEF S
    <3> QED
      BY <1>2, <1>4, SMT DEF SetValues, Touches, Balances
  <2> QED
    BY <1>5, <2>1, Zenon DEF Then, Touches
<1>7. b \in Balances /\ \A a \in Acct \ S : b[a] = bal[a]
  <2>1. CASE moves
    BY <1>2, <1>3, <2>1, MovedIs
  <2>2. CASE ~moves
    BY <1>2, <2>2
  <2> QED
    BY <2>1, <2>2
<1>8. ASSUME NEW a \in Acct \ (Top.moved \cup M), a \in C => Top.entry[a] = 0
      PROVE  Reverted(b, j)[a] = Top.entry[a]
  <2>1. Reverted(bal, Top.journal)[a] = Top.entry[a]
    BY <1>2, <1>8 DEF Sound, Restores, Unaccounted
  <2>2. /\ j[a] = IF a \in S THEN bal[a] ELSE own[a]
        /\ own[a] = IF a = c THEN 0 ELSE Top.journal[a]
    BY <1>2, BalancesAreSome, SMT DEF Then, SetValues, Creates, None, Balances
  <2>3. bal[a] # None /\ 0 # None
    BY <1>2, BalancesAreSome
  <2>4. Reverted(b, j)[a] = IF j[a] # None THEN j[a] ELSE b[a]
    BY DEF Reverted
  <2>5. Reverted(bal, Top.journal)[a] = IF Top.journal[a] # None THEN Top.journal[a] ELSE bal[a]
    BY DEF Reverted
  <2>6. a \in S => Top.journal[a] = None
    BY <1>8
  <2>7. a \notin S => b[a] = bal[a]
    BY <1>7
  <2>8. a = c => Top.entry[a] = 0
    BY <1>8
  <2> HIDE DEF j, own, S, c, b, M, C
  <2> QED
    BY <2>1, <2>2, <2>3, <2>4, <2>5, <2>6, <2>7, <2>8
<1>9. cached' = cached /\ tx' = tx /\ before' = before /\ lost' \in BOOLEAN
  BY <1>1 DEF Leave, Inv, TypeOK
<1> HIDE DEF j, C, M, b
<1> QED
  BY <1>1, <1>4, <1>6, <1>7, <1>8, <1>9, JoinedSound

\* The end of a transaction.
LEMMA DoneFields ==
  ASSUME Inv, NEW used \in 0..tx.gas, NEW reverted \in BOOLEAN, Done(used, reverted)
  PROVE  /\ tx'.status = "done" /\ tx'.used = used /\ tx'.reverted = reverted
         /\ tx'.kind = tx.kind /\ tx'.from = tx.from /\ tx'.price = tx.price
         /\ CoinbaseGasPrice(tx') = CoinbaseGasPrice(tx)
         /\ UNCHANGED <<cached, frames, before, lost>> /\ Depth = 1 /\ tx.status = "running"
         /\ tx.gas \in Nat /\ tx.price \in Nat /\ tx.from \in Acct /\ used \in Nat
         /\ CoinbaseGasPrice(tx) \in Nat /\ used <= tx.gas
         /\ bal \in Balances /\ before \in Balances /\ Top.journal \in Touches
         /\ bal' \in Balances => TypeOK'
<1>1. /\ tx.gas \in Nat /\ tx.price \in Nat /\ tx.from \in Acct /\ used \in Nat
      /\ bal \in Balances /\ before \in Balances /\ used <= tx.gas
  BY DEF Inv, TypeOK
<1>2. tx' = [tx EXCEPT !.status = "done", !.used = used, !.reverted = reverted]
  BY DEF Done
<1>3. /\ tx' \in [ status: {"none", "running", "done"}, kind: {"call", "create"}, from: Acct,
                   gas: Nat, price: Nat, entered: Nat, used: Nat, reverted: BOOLEAN ]
      /\ tx'.status = "done" /\ tx'.used = used /\ tx'.reverted = reverted
      /\ tx'.kind = tx.kind /\ tx'.from = tx.from /\ tx'.price = tx.price
  BY <1>1, <1>2 DEF Inv, TypeOK
<1>4. UNCHANGED <<cached, frames, before, lost>> /\ Depth = 1 /\ tx.status = "running"
  BY DEF Done
<1>5. CoinbaseGasPrice(tx') = CoinbaseGasPrice(tx)
  BY <1>3 DEF CoinbaseGasPrice
<1>6. CoinbaseGasPrice(tx) \in Nat
  BY <1>1, PricesAssumption, SMT DEF CoinbaseGasPrice, SatSub
<1>7. Top.journal \in Touches
  BY <1>4, TopFields, FrameFields
<1>8. bal' \in Balances => TypeOK'
  BY <1>3, <1>4 DEF Inv, TypeOK
<1> QED
  BY <1>1, <1>3, <1>4, <1>5, <1>6, <1>7, <1>8

\* The end of a call: undone balances are the prepaid ones, and the refund and the
\* share of the miner come on top.
LEMMA EndCallInv ==
  ASSUME Inv, NEW used \in 0..tx.gas, NEW reverted \in BOOLEAN, EndCall(used, reverted)
  PROVE  Inv'
<1> DEFINE kept   == IF reverted THEN Reverted(bal, Top.journal) ELSE bal
           offer  == tx.gas * tx.price
           fee    == used * tx.price
           tip    == used * CoinbaseGasPrice(tx)
<1>1. /\ tx.kind = "call" /\ Done(used, reverted)
      /\ bal' = PayMiner(Give(kept, tx.from, offer - fee), tip)
  BY DEF EndCall
<1>2. /\ tx'.status = "done" /\ tx'.used = used /\ tx'.reverted = reverted
      /\ tx'.kind = "call" /\ tx'.from = tx.from /\ tx'.price = tx.price
      /\ CoinbaseGasPrice(tx') = CoinbaseGasPrice(tx)
      /\ UNCHANGED <<cached, frames, before, lost>> /\ Depth = 1 /\ tx.status = "running"
      /\ tx.gas \in Nat /\ tx.price \in Nat /\ tx.from \in Acct /\ used \in Nat
      /\ CoinbaseGasPrice(tx) \in Nat /\ used <= tx.gas
      /\ bal \in Balances /\ before \in Balances /\ Top.journal \in Touches
      /\ bal' \in Balances => TypeOK'
  BY <1>1, DoneFields
<1>3. offer \in Nat /\ fee \in Nat /\ tip \in Nat /\ fee <= offer
  BY <1>2, TimesNat, TimesMonotone
<1>4. kept \in Balances
  BY <1>2, TouchTypes
<1>5. ASSUME reverted, NEW a \in Acct \ Unaccounted(Top)
      PROVE  kept[a] = before[a] - (IF a = tx.from THEN offer ELSE 0)
  <2>1. kept[a] = Top.entry[a]
    BY <1>2, <1>5, TopFields DEF Sound, Restores
  <2>2. Top.entry[a] = Prepaid(a)
    BY <1>2, <1>5 DEF Inv, Journaled, Unaccounted, Top
  <2> QED
    BY <1>1, <2>1, <2>2 DEF Prepaid, Offer
<1>6. \A a \in Acct :
        FeesOnly(a)' = before[a] - (IF a = tx.from THEN fee ELSE 0)
                                 + (IF a = Miner THEN tip ELSE 0)
  BY <1>2 DEF FeesOnly
<1> HIDE DEF kept, offer, fee, tip
<1>7. offer - fee \in Nat
  BY <1>3, SMT
<1> DEFINE paid == Give(kept, tx.from, offer - fee)
<1>8. paid \in Balances
  BY <1>2, <1>4, <1>7, BalanceTypes
<1>9. bal' \in Balances
  BY <1>1, <1>2, <1>3, <1>8, BalanceTypes
<1>10. ASSUME reverted, NEW a \in Acct \ Unaccounted(Top)
       PROVE  bal'[a] = FeesOnly(a)'
  <2>1. paid[a] = before[a] - (IF a = tx.from THEN fee ELSE 0)
    BY <1>2, <1>3, <1>4, <1>5, <1>7, <1>10, SMT DEF Give, Balances
  <2> HIDE DEF paid
  <2>2. PayMiner(paid, tip)[a] = paid[a] + (IF a = Miner THEN tip ELSE 0)
    BY <1>3, <1>8, SMT DEF PayMiner, Give, Balances
  <2> QED
    BY <1>1, <1>6, <2>1, <2>2 DEF paid
<1>11. Top' = Top
  BY <1>2 DEF Top, Depth
<1>12. RevertPaysFees'
  BY <1>2, <1>10, <1>11 DEF RevertPaysFees
<1>13. Journaled' /\ tx'.from \in Senders
  BY <1>2 DEF Inv, Journaled
<1> QED
  BY <1>2, <1>9, <1>12, <1>13 DEF Inv

\* The end of a creation.
LEMMA EndCreateInv ==
  ASSUME Inv, NEW used \in 0..tx.gas, NEW reverted \in BOOLEAN, EndCreate(used, reverted)
  PROVE  Inv'
<1> DEFINE tip  == used * CoinbaseGasPrice(tx)
           fee  == used * tx.price
           paid == PayMiner(bal, tip)
           kept == IF reverted THEN Reverted(paid, Top.journal) ELSE paid
<1>1. /\ tx.kind = "create" /\ Done(used, reverted)
      /\ bal' = Take(kept, tx.from, fee)
  BY DEF EndCreate
<1>2. /\ tx'.status = "done" /\ tx'.kind = "create" /\ tx'.from = tx.from
      /\ tx.price \in Nat /\ tx.from \in Acct /\ used \in Nat
      /\ CoinbaseGasPrice(tx) \in Nat
      /\ bal \in Balances /\ Top.journal \in Touches
      /\ bal' \in Balances => TypeOK'
  BY <1>1, DoneFields
<1>3. tip \in Nat /\ fee \in Nat
  BY <1>2, TimesNat
<1> HIDE DEF tip, fee
<1>4. paid \in Balances
  BY <1>2, <1>3, BalanceTypes
<1> HIDE DEF paid
<1>5. kept \in Balances
  BY <1>2, <1>4, TouchTypes
<1> HIDE DEF kept
<1>6. bal' \in Balances
  BY <1>1, <1>2, <1>3, <1>5, BalanceTypes
<1> QED
  BY <1>2, <1>6 DEF Inv, Journaled, RevertPaysFees

\* Every step keeps the invariant.
LEMMA NextInv == Inv /\ [Next]_vars => Inv'
<1> SUFFICES ASSUME Inv, [Next]_vars PROVE Inv'
  OBVIOUS
<1>1. CASE \E kind \in Kinds, from \in Senders, to \in Acct, c \in NewAccts, value \in Amounts,
              gas \in GasLimits, price \in Prices, maxFee \in MaxFees, tip \in Tips :
                Begin(kind, from, to, c, value, gas, price, maxFee, tip)
  BY <1>1, BeginInv
<1>2. CASE \E b \in Acct, value \in Amounts, own \in BOOLEAN : Call(b, value, own)
  BY <1>2, CallInv
<1>3. CASE \E c \in NewAccts, value \in Amounts : Create(c, value)
  BY <1>3, CreateInv
<1>4. CASE \E b \in Acct : SelfDestruct(b)
  BY <1>4, SelfDestructInv
<1>5. CASE Return
  BY <1>5, ReturnInv
<1>6. CASE Undo
  BY <1>6, UndoInv
<1>7. CASE Deploy
  BY <1>7, DeployInv
<1>8. CASE \E used \in 0..tx.gas, reverted \in BOOLEAN : EndCall(used, reverted)
  BY <1>8, EndCallInv
<1>9. CASE \E used \in 0..tx.gas, reverted \in BOOLEAN : EndCreate(used, reverted)
  BY <1>9, EndCreateInv
<1>10. CASE UNCHANGED vars
  <2>1. bal' = bal /\ cached' = cached /\ frames' = frames /\ tx' = tx /\ before' = before /\ lost' = lost
    BY <1>10 DEF vars
  <2>2. Top' = Top /\ Depth' = Depth /\ \A i : After(i)' = After(i)
    BY <2>1 DEF Top, Depth, After
  <2>3. \A a : Prepaid(a)' = Prepaid(a) /\ FeesOnly(a)' = FeesOnly(a)
    BY <2>1 DEF Prepaid, Offer, FeesOnly
  <2>4. TypeOK' /\ tx'.from \in Senders
    BY <2>1 DEF Inv, TypeOK
  <2>5. Journaled'
    BY <2>1, <2>2, <2>3 DEF Inv, Journaled
  <2>6. RevertPaysFees'
    BY <2>1, <2>2, <2>3 DEF Inv, RevertPaysFees
  <2> QED
    BY <2>4, <2>5, <2>6 DEF Inv
<1> QED
  BY <1>1, <1>2, <1>3, <1>4, <1>5, <1>6, <1>7, <1>8, <1>9, <1>10 DEF Next

\* The inductive invariant: while a transaction runs, the journal of each frame gives
\* back the balances the frame was entered with.
THEOREM FeesInvariance == Spec => []Inv
BY InitInv, NextInv, PTL DEF Spec

\* Balances are never negative and records have their types, whatever a
\* transaction transfers.
THEOREM FeesTypeCorrect == Spec => []TypeOK
<1>1. Inv => TypeOK
  BY DEF Inv
<1> QED
  BY <1>1, FeesInvariance, PTL

\* Executor::execute: a call that reverts has paid its fees and done nothing else,
\* whatever calls and creations in it moved and undid, to the accounts that its
\* journal accounts for.
THEOREM RevertAlwaysPaysFees == Spec => []RevertPaysFees
<1>1. Inv => RevertPaysFees
  BY DEF Inv
<1> QED
  BY <1>1, FeesInvariance, PTL

-----------------------------------------------------------------------------
(* The sum of the balances *)

\* The least of some natural numbers.
LEMMA LeastElement ==
  ASSUME NEW I, I \subseteq Nat, I # {}
  PROVE  \E i \in I : \A j \in I : i <= j
<1> DEFINE R == OpToRel(<, Nat)
<1>1. IsWellFoundedOn(R, Nat)
  BY NatLessThanWellFounded
<1>2. PICK i \in I : \A j \in I : ~(<<j, i>> \in R)
  <2> HIDE DEF R
  <2> QED BY <1>1, WFMin, Zenon
<1>3. ASSUME NEW j \in I
      PROVE  i <= j
  <2>1. ~(j < i)
    BY <1>2 DEF OpToRel
  <2> QED BY <2>1
<1> QED BY <1>3

\* Induction, on membership in a set.
LEMMA SetInduction ==
  ASSUME NEW S, 0 \in S, \A n \in Nat : n \in S => n + 1 \in S
  PROVE  Nat \subseteq S
<1> SUFFICES ASSUME Nat \ S # {}
             PROVE  FALSE
  OBVIOUS
<1>1. PICK m \in Nat \ S : \A j \in Nat \ S : m <= j
  BY LeastElement
<1>2. m # 0 /\ m - 1 \in Nat
  BY <1>1
<1>3. m - 1 \in S
  BY <1>1, <1>2
<1> QED BY <1>1, <1>2, <1>3

\* What the sum over s is if g has those over smaller sets.
Step(g, b, s) ==
  IF s = {} THEN 0 ELSE LET x == CHOOSE x \in s : TRUE IN b[x] + g[s \ {x}]

\* The sums of b over the sets of accounts.
Sums(g, b) == g = [s \in SUBSET Acct |-> Step(g, b, s)]

\* A set of accounts without the one that is chosen.
LEMMA Smaller ==
  ASSUME NEW s \in SUBSET Acct, s # {}
  PROVE  LET x == CHOOSE x \in s : TRUE
         IN  /\ x \in s /\ x \in Acct /\ s \ {x} \in SUBSET Acct
             /\ Cardinality(s) \in Nat /\ Cardinality(s \ {x}) = Cardinality(s) - 1
<1> DEFINE x == CHOOSE x \in s : TRUE
<1>1. x \in s
  OBVIOUS
<1>2. IsFiniteSet(s)
  BY AccountsAssumption, FS_Subset
<1> HIDE DEF x
<1>3. Cardinality(s) \in Nat /\ Cardinality(s \ {x}) = Cardinality(s) - 1
  BY <1>1, <1>2, FS_CardinalityType, FS_RemoveElement
<1> QED BY <1>1, <1>3 DEF x

\* Induction over sets of accounts.
LEMMA AccountInduction ==
  ASSUME NEW P, {} \in P,
         \A s \in SUBSET Acct : s # {} /\ s \ {CHOOSE x \in s : TRUE} \in P => s \in P
  PROVE  SUBSET Acct \subseteq P
<1> DEFINE Q == {n \in Nat : \A s \in SUBSET Acct : Cardinality(s) = n => s \in P}
<1>1. \A s \in SUBSET Acct : Cardinality(s) \in Nat /\ (Cardinality(s) = 0 => s = {})
  BY AccountsAssumption, FS_Subset, FS_CardinalityType, FS_EmptySet
<1>2. 0 \in Q
  BY <1>1
<1>3. ASSUME NEW n \in Nat, n \in Q
      PROVE  n + 1 \in Q
  <2> SUFFICES ASSUME NEW s \in SUBSET Acct, Cardinality(s) = n + 1
               PROVE  s \in P
    OBVIOUS
  <2>1. s # {}
    <3>1. Cardinality({}) = 0
      BY FS_EmptySet
    <3>2. Cardinality(s) # 0
      BY <1>3
    <3> QED BY <3>1, <3>2
  <2> DEFINE r == s \ {CHOOSE x \in s : TRUE}
  <2>2. r \in SUBSET Acct /\ Cardinality(r) = (n + 1) - 1
    BY <2>1, Smaller
  <2>3. r \in P
    BY <1>3, <2>2
  <2> QED BY <2>1, <2>3
<1>4. Nat \subseteq Q
  <2> HIDE DEF Q
  <2> QED BY <1>2, <1>3, SetInduction
<1>5. ASSUME NEW s \in SUBSET Acct
      PROVE  s \in P
  <2>1. Cardinality(s) \in Q
    BY <1>1, <1>4
  <2> QED BY <2>1
<1> QED BY <1>5

\* The sums exist.
LEMMA SumsExist ==
  ASSUME NEW b
  PROVE  \E g : Sums(g, b)
<1> DEFINE Right(g, n) == \A s \in SUBSET Acct : Cardinality(s) <= n => g[s] = Step(g, b, s)
           Q == {n \in Nat : \E g : Right(g, n)}
<1>1. \A s \in SUBSET Acct : Cardinality(s) \in Nat /\ (Cardinality(s) = 0 => s = {})
                             /\ Cardinality(s) <= Cardinality(Acct)
  BY AccountsAssumption, FS_Subset, FS_CardinalityType, FS_EmptySet
<1>2. 0 \in Q
  <2> DEFINE g == [s \in SUBSET Acct |-> 0]
  <2>1. ASSUME NEW s \in SUBSET Acct, Cardinality(s) <= 0
        PROVE  g[s] = Step(g, b, s)
    <3>1. s = {}
      BY <1>1, <2>1
    <3> QED BY <3>1 DEF Step
  <2> HIDE DEF g
  <2>2. Right(g, 0)
    BY <2>1
  <2> QED BY <2>2
<1>3. ASSUME NEW n \in Nat, n \in Q
      PROVE  n + 1 \in Q
  <2>1. PICK g : Right(g, n)
    BY <1>3
  <2> DEFINE h == [s \in SUBSET Acct |-> IF Cardinality(s) <= n THEN g[s] ELSE Step(g, b, s)]
  <2>2. \A s \in SUBSET Acct : h[s] = Step(g, b, s)
    BY <2>1
  <2>3. \A s \in SUBSET Acct : Cardinality(s) <= n => h[s] = g[s]
    OBVIOUS
  <2> HIDE DEF h
  <2>4. ASSUME NEW s \in SUBSET Acct, Cardinality(s) <= n + 1
        PROVE  h[s] = Step(h, b, s)
    <3>1. CASE s = {}
      BY <2>2, <3>1 DEF Step
    <3>2. CASE s # {}
      <4> DEFINE x == CHOOSE x \in s : TRUE
      <4>1. /\ s \ {x} \in SUBSET Acct /\ Cardinality(s) \in Nat
            /\ Cardinality(s \ {x}) = Cardinality(s) - 1
        BY <3>2, Smaller
      <4>2. Cardinality(s \ {x}) <= n
        BY <2>4, <4>1
      <4>3. h[s \ {x}] = g[s \ {x}]
        BY <2>3, <4>1, <4>2
      <4>4. Step(g, b, s) = Step(h, b, s)
        BY <3>2, <4>3 DEF Step
      <4> QED BY <2>2, <4>4
    <3> QED BY <3>1, <3>2
  <2>5. Right(h, n + 1)
    BY <2>4
  <2> QED BY <2>5
<1>4. Nat \subseteq Q
  <2> HIDE DEF Q
  <2> QED BY <1>2, <1>3, SetInduction
<1>5. PICK g : Right(g, Cardinality(Acct))
  <2>1. Cardinality(Acct) \in Nat
    BY AccountsAssumption, FS_CardinalityType
  <2> QED BY <1>4, <2>1
<1> DEFINE h == [s \in SUBSET Acct |-> g[s]]
<1>6. \A s \in SUBSET Acct : h[s] = g[s] /\ g[s] = Step(g, b, s)
  BY <1>1, <1>5
<1>7. ASSUME NEW s \in SUBSET Acct
      PROVE  Step(g, b, s) = Step(h, b, s)
  <2>1. CASE s = {}
    BY <2>1 DEF Step
  <2>2. CASE s # {}
    BY <1>6, <2>2, Smaller DEF Step
  <2> QED BY <2>1, <2>2
<1>8. h = [s \in SUBSET Acct |-> h[s]]
  OBVIOUS
<1> HIDE DEF h
<1>9. Sums(h, b)
  <2>1. \A s \in SUBSET Acct : h[s] = Step(h, b, s)
    BY <1>6, <1>7
  <2> QED BY <1>8, <2>1 DEF Sums
<1> QED BY <1>9

\* The fold of a function over the accounts is the sum over all of them.
LEMMA TotalIs ==
  ASSUME NEW b, DOMAIN b = Acct
  PROVE  \E g : Sums(g, b) /\ Total(b) = g[Acct]
<1> DEFINE g == CHOOSE g : Sums(g, b)
<1>1. Sums(g, b)
  BY SumsExist
<1>2. Total(b) = g[Acct]
  BY DEF Total, FoldFunction, FoldFunctionOnSet, MapThenFoldSet, Sums, Step
<1> HIDE DEF g
<1> QED BY <1>1, <1>2

\* The balance of a changes by d.
Moves(b, c, a, d) ==
  /\ b \in [Acct -> Int] /\ c \in [Acct -> Int] /\ a \in Acct /\ d \in Int
  /\ \A x \in Acct : c[x] = b[x] + (IF x = a THEN d ELSE 0)

\* The sum changes by what one account gets.
LEMMA TotalMoves ==
  ASSUME NEW b, NEW c, NEW a, NEW d, Moves(b, c, a, d)
  PROVE  Total(b) \in Int /\ Total(c) \in Int /\ Total(c) = Total(b) + d
<1>1. /\ b \in [Acct -> Int] /\ c \in [Acct -> Int] /\ a \in Acct /\ d \in Int
      /\ \A x \in Acct : c[x] = b[x] + (IF x = a THEN d ELSE 0)
  BY DEF Moves
<1>2. PICK g : Sums(g, b) /\ Total(b) = g[Acct]
  BY <1>1, TotalIs
<1>3. PICK h : Sums(h, c) /\ Total(c) = h[Acct]
  BY <1>1, TotalIs
<1>4. \A s \in SUBSET Acct : g[s] = Step(g, b, s) /\ h[s] = Step(h, c, s)
  BY <1>2, <1>3 DEF Sums
<1> DEFINE P == {s \in SUBSET Acct : /\ g[s] \in Int /\ h[s] \in Int
                                     /\ h[s] = g[s] + (IF a \in s THEN d ELSE 0)}
<1>5. {} \in P
  <2>1. g[{}] = 0 /\ h[{}] = 0
    BY <1>4 DEF Step
  <2> QED BY <2>1
<1>6. ASSUME NEW s \in SUBSET Acct, s # {}, s \ {CHOOSE x \in s : TRUE} \in P
      PROVE  s \in P
  <2> DEFINE x == CHOOSE x \in s : TRUE
             r == s \ {x}
  <2>1. x \in s /\ x \in Acct
    BY <1>6
  <2>2. g[s] = b[x] + g[r] /\ h[s] = c[x] + h[r]
    BY <1>4, <1>6 DEF Step
  <2>3. g[r] \in Int /\ h[r] \in Int /\ h[r] = g[r] + (IF a \in r THEN d ELSE 0)
    BY <1>6
  <2>4. a \in r <=> a \in s /\ a # x
    OBVIOUS
  <2> HIDE DEF x, r
  <2>5. b[x] \in Int /\ c[x] \in Int /\ c[x] = b[x] + (IF x = a THEN d ELSE 0)
    BY <1>1, <2>1
  <2>6. /\ g[s] \in Int /\ h[s] \in Int
        /\ h[s] = g[s] + (IF a \in s THEN d ELSE 0)
    BY <1>1, <2>1, <2>2, <2>3, <2>4, <2>5
  <2> QED BY <2>6
<1>7. SUBSET Acct \subseteq P
  <2> HIDE DEF P
  <2> QED BY <1>5, <1>6, AccountInduction
<1>8. Acct \in P
  BY <1>7
<1> QED BY <1>1, <1>2, <1>3, <1>8

-----------------------------------------------------------------------------
(* What a transaction burns *)

\* Taking what an account owns.
LEMMA TakeMoves ==
  ASSUME NEW b \in Balances, NEW a \in Acct, NEW x \in Nat, b[a] >= x
  PROVE  Moves(b, Take(b, a, x), a, -x)
BY SMT DEF Moves, Take, SatSub, Balances

\* Adding to what an account owns.
LEMMA GiveMoves ==
  ASSUME NEW b \in Balances, NEW a \in Acct, NEW x \in Nat
  PROVE  Moves(b, Give(b, a, x), a, x)
BY SMT DEF Moves, Give, Balances

\* What the steps of a transaction do to the sum.
LEMMA TakeTotal ==
  ASSUME NEW b \in Balances, NEW a \in Acct, NEW x \in Nat, b[a] >= x
  PROVE  /\ Take(b, a, x) \in Balances
         /\ Total(b) \in Int /\ Total(Take(b, a, x)) = Total(b) - x
<1>1. Moves(b, Take(b, a, x), a, -x)
  BY TakeMoves
<1> DEFINE c == Take(b, a, x)
<1> HIDE DEF c
<1>2. Total(b) \in Int /\ Total(c) \in Int /\ Total(c) = Total(b) + (-x)
  BY <1>1, TotalMoves DEF c
<1> QED BY <1>2, BalanceTypes DEF c

\* Nothing is lost on the way in.
LEMMA GiveTotal ==
  ASSUME NEW b \in Balances, NEW a \in Acct, NEW x \in Nat
  PROVE  /\ Give(b, a, x) \in Balances
         /\ Total(b) \in Int /\ Total(Give(b, a, x)) = Total(b) + x
BY GiveMoves, TotalMoves, BalanceTypes

\* A share of nobody is burned.
LEMMA PayTotal ==
  ASSUME NEW b \in Balances, NEW x \in Nat, Acct # {}
  PROVE  /\ PayMiner(b, x) \in Balances
         /\ Total(b) \in Int
         /\ Total(PayMiner(b, x)) = Total(b) + (IF Miner \in Acct THEN x ELSE 0)
<1>1. CASE Miner \in Acct
  BY <1>1, GiveTotal DEF PayMiner
<1>2. CASE Miner \notin Acct
  <2>1. PICK a : a \in Acct
    OBVIOUS
  <2>2. Total(b) \in Int
    BY <2>1, GiveTotal
  <2> QED BY <1>2, <2>2 DEF PayMiner
<1> QED BY <1>1, <1>2

\* What of a fee is not the miner's.
LEMMA Burned ==
  ASSUME NEW used \in Nat, NEW price \in Nat, NEW share \in Nat
  PROVE  /\ used * price \in Nat /\ used * share \in Nat
         /\ used * (price - share) = used * price - used * share
<1>1. used * price \in Nat /\ used * share \in Nat
  BY TimesNat
<1>2. used * (price - share) = used * price - used * share
  BY SMT
<1> QED BY <1>1, <1>2

\* Moving what an account owns.
LEMMA MovedTotal ==
  ASSUME NEW b \in Balances, NEW src \in Acct, NEW dst \in Acct, NEW x \in Nat, b[src] >= x
  PROVE  Total(Moved(b, src, dst, x)) = Total(b)
<1> DEFINE c == Take(b, src, x)
<1>1. c \in Balances /\ Total(b) \in Int /\ Total(c) = Total(b) - x
  BY TakeTotal
<1>2. Moved(b, src, dst, x) = Give(c, dst, x)
  BY DEF Moved
<1> HIDE DEF c
<1>3. Total(Give(c, dst, x)) = Total(c) + x
  BY <1>1, GiveTotal
<1> QED
  BY <1>1, <1>2, <1>3

\* The sender of a creation, which pays afterwards, has no code that spends the fee.
Pays == tx.kind = "create" /\ tx.from \notin Contracts

\* Balances b lack the prepaid gas and nothing else, unless l says that some was lost;
\* and the sender of a creation owns what its gas may cost.
KeepsBal(b, l) ==
  /\ ~l => Total(b) = Total(before) - Offer
  /\ Pays => b[tx.from] >= tx.gas * tx.price

\* So do those that frame f was entered with, and its journal has no balance below
\* that cost for the sender.
KeepsFrame(f, l) ==
  /\ KeepsBal(f.entry, l)
  /\ Pays /\ f.journal[tx.from] # None => f.journal[tx.from] >= tx.gas * tx.price

\* While a transaction runs, the balances, and those that each frame was entered with,
\* lack nothing but the prepaid gas.
Balanced ==
  /\ tx.status = "running" =>
       KeepsBal(bal, lost) /\ \A i \in 1..Depth : KeepsFrame(frames[i], lost)
  /\ Conserved

\* What the balances and frames of a running transaction keep.
LEMMA TopKeeps ==
  ASSUME Inv, Balanced, tx.status = "running"
  PROVE  /\ KeepsBal(bal, lost) /\ KeepsFrame(Top, lost)
         /\ Depth > 1 => KeepsFrame(Under, lost)
         /\ tx.from \in Acct /\ tx.from \notin NewAccts /\ tx.gas * tx.price \in Nat
         /\ lost \in BOOLEAN
<1>1. Depth \in Nat /\ Depth >= 1 /\ \A i \in 1..Depth : KeepsFrame(frames[i], lost)
  BY TopFields DEF Balanced, Stacked
<1>2. Depth \in 1..Depth /\ (Depth > 1 => Depth - 1 \in 1..Depth)
  BY <1>1
<1>3. KeepsFrame(Top, lost) /\ (Depth > 1 => KeepsFrame(Under, lost))
  BY <1>1, <1>2 DEF Top, Under
<1>4. /\ tx.from \in Acct /\ tx.from \notin NewAccts /\ tx.gas \in Nat /\ tx.price \in Nat
      /\ lost \in BOOLEAN
  BY AccountsAssumption DEF Inv, TypeOK
<1> QED
  BY <1>3, <1>4, TimesNat DEF Balanced

\* A step of a running transaction.
LEMMA BalancedKept ==
  ASSUME Balanced, tx.status = "running", tx'.status = "running",
         tx'.from = tx.from, tx'.kind = tx.kind, tx'.gas = tx.gas, tx'.price = tx.price,
         before' = before,
         KeepsBal(bal', lost'), \A i \in 1..Depth' : KeepsFrame(frames'[i], lost')
  PROVE  Balanced'
<1>1. Offer' = Offer /\ Pays' = Pays
  BY DEF Offer, Pays
<1>2. KeepsBal(bal, lost)'
  BY <1>1 DEF KeepsBal
<1>3. ASSUME NEW i \in 1..Depth'
      PROVE  KeepsFrame(frames[i], lost)'
  BY <1>1, <1>3 DEF KeepsFrame, KeepsBal
<1>4. Conserved'
  BY DEF Conserved
<1> QED
  BY <1>2, <1>3, <1>4 DEF Balanced

\* What is not lost later was not lost before.
LEMMA KeepsLater ==
  ASSUME lost \in BOOLEAN, lost' \in BOOLEAN, lost => lost'
  PROVE  /\ \A b : KeepsBal(b, lost) => KeepsBal(b, lost')
         /\ \A f : KeepsFrame(f, lost) => KeepsFrame(f, lost')
BY DEF KeepsFrame, KeepsBal

\* A frame is entered.
LEMMA EnterBalanced ==
  ASSUME Inv, Balanced, tx.status = "running", lost' \in BOOLEAN, lost => lost',
         tx' = [tx EXCEPT !.entered = @ + 1], before' = before,
         NEW f \in Frame, NEW g \in Frame, Enter(f, g),
         KeepsBal(bal', lost'), KeepsFrame(f, lost'), KeepsFrame(g, lost')
  PROVE  Balanced'
<1>1. /\ Depth' = Depth + 1 /\ Depth \in Nat /\ Depth >= 1
      /\ frames'[Depth + 1] = g /\ frames'[Depth] = f
      /\ \A i \in 1..(Depth - 1) : frames'[i] = frames[i]
  <2>1. Stacked
    BY TopFields
  <2> QED
    BY <2>1, Entered DEF Stacked, Enter, Depth
<1>2. ASSUME NEW i \in 1..Depth'
      PROVE  KeepsFrame(frames'[i], lost')
  <2>1. CASE i \in 1..(Depth - 1)
    <3>1. i \in 1..Depth /\ frames'[i] = frames[i]
      BY <1>1, <2>1
    <3>2. KeepsFrame(frames[i], lost')
      BY <3>1, TopKeeps, KeepsLater DEF Balanced
    <3> QED
      BY <3>1, <3>2
  <2>2. CASE i \in {Depth, Depth + 1}
    BY <1>1, <2>2
  <2> QED
    BY <1>1, <2>1, <2>2
<1> QED
  BY <1>2, TxFields, BalancedKept DEF Inv

\* A frame is left.
LEMMA LeaveBalanced ==
  ASSUME Inv, Balanced, tx.status = "running", Depth > 1, lost' \in BOOLEAN, lost => lost',
         NEW f \in Frame, NEW b, Leave(f, b),
         KeepsBal(b, lost'), KeepsFrame(f, lost')
  PROVE  Balanced'
<1>1. /\ Depth' = Depth - 1 /\ Depth \in Nat
      /\ frames'[Depth - 1] = f
      /\ \A i \in 1..(Depth - 2) : frames'[i] = frames[i]
  <2>1. Stacked
    BY TopFields
  <2> QED
    BY <2>1, Left DEF Stacked, Leave, Depth
<1>2. bal' = b /\ tx' = tx /\ before' = before
  BY DEF Leave
<1>3. ASSUME NEW i \in 1..Depth'
      PROVE  KeepsFrame(frames'[i], lost')
  <2>1. CASE i \in 1..(Depth - 2)
    <3>1. i \in 1..Depth /\ frames'[i] = frames[i]
      BY <1>1, <2>1
    <3>2. KeepsFrame(frames[i], lost')
      BY <3>1, TopKeeps, KeepsLater DEF Balanced
    <3> QED
      BY <3>1, <3>2
  <2>2. CASE i = Depth - 1
    BY <1>1, <2>2
  <2> QED
    BY <1>1, <2>1, <2>2
<1> QED
  BY <1>2, <1>3, BalancedKept

\* The initial balances.
LEMMA InitBalanced == Init => Balanced
BY DEF Init, Balanced, Conserved

\* The start of a transaction.
LEMMA BeginBalanced ==
  ASSUME Inv,
         NEW kind \in Kinds, NEW from \in Senders, NEW to \in Acct, NEW c \in NewAccts,
         NEW value \in Amounts, NEW gas \in GasLimits, NEW price \in Prices,
         NEW maxFee \in MaxFees, NEW tip \in Tips,
         Begin(kind, from, to, c, value, gas, price, maxFee, tip)
  PROVE  Balanced'
<1> DEFINE p    == EffectiveGasPrice(price, maxFee, tip)
           fee  == gas * p
           dst  == IF kind = "call" THEN to ELSE c
           hid  == Hides(c) /\ ~(kind = "call" /\ c = to)
           seen == IF hid THEN Hidden(c) ELSE bal
           paid == IF kind = "call" THEN Take(seen, from, fee) ELSE seen
           new  == IF value # 0 THEN SetValues(paid, {from, dst}) ELSE NoTouches
           gone == IF hid THEN {c} ELSE {}
           top  == Outermost(kind, dst, value, paid, new, gone)
<1>1. p \in Nat /\ gas \in Nat /\ value \in Nat /\ fee \in Nat
  <2>1. p \in Nat
    BY PriceTypes
  <2>2. gas \in Nat /\ value \in Nat
    BY AmountsAssumption
  <2> QED
    BY <2>1, <2>2, TimesNat
<1>2. /\ bal \in Balances /\ from \in Acct /\ c \in Acct /\ from # c /\ dst \in Acct
      /\ kind \in {"call", "create"}
  BY AccountsAssumption, AmountsAssumption DEF Inv, TypeOK
<1>3. /\ bal[from] >= fee + value
      /\ tx' = [ status |-> "running", kind |-> kind, from |-> from, gas |-> gas, price |-> p,
                 entered |-> 1, used |-> 0, reverted |-> FALSE ]
      /\ bal' = IF value # 0 THEN Moved(paid, from, dst, value) ELSE paid
      /\ frames' = <<top>>
      /\ lost' = hid
      /\ before' = bal
  BY DEF Begin, Outermost
<1>4. tx'.gas * tx'.price = fee /\ tx'.from = from /\ tx'.kind = kind /\ tx'.status = "running"
  BY <1>3
<1>5. Depth' = 1 /\ frames'[1] = top
  BY <1>3 DEF Depth
<1>6. top.entry = paid /\ top.journal = new
  BY DEF Outermost, NewFrame
<1>7. seen \in Balances /\ seen[from] = bal[from] /\ (~hid => seen = bal)
  BY <1>2, HiddenIs
<1>8. Total(bal) \in Int /\ bal[from] \in Nat
  BY <1>1, <1>2, GiveTotal DEF Balances
<1>9. new[from] # None => new[from] = paid[from]
  BY <1>2 DEF SetValues, NoTouches
<1> HIDE DEF p, fee, top, seen, dst, hid, new
<1>10. /\ paid \in Balances
       /\ ~hid => Total(paid) = Total(bal) - (IF kind = "call" THEN fee ELSE 0)
       /\ paid[from] = bal[from] - (IF kind = "call" THEN fee ELSE 0)
  <2>1. seen[from] >= fee /\ seen[from] \in Nat
    BY <1>1, <1>3, <1>7, <1>8
  <2>2. CASE kind = "call"
    <3>1. paid = Take(seen, from, fee)
      BY <2>2
    <3>2. Take(seen, from, fee)[from] = seen[from] - fee
      BY <1>1, <1>2, <1>7, <2>1, SMT DEF Take, SatSub, Balances
    <3>3. Take(seen, from, fee) \in Balances /\ Total(Take(seen, from, fee)) = Total(seen) - fee
      BY <1>1, <1>2, <1>7, <2>1, TakeTotal
    <3> QED
      BY <1>7, <2>2, <3>1, <3>2, <3>3
  <2>3. CASE kind # "call"
    <3>1. paid = seen
      BY <2>3
    <3> QED
      BY <1>7, <1>8, <2>3, <3>1
  <2> QED
    BY <2>2, <2>3
<1> HIDE DEF paid
<1>11. paid[from] \in Nat /\ paid[from] >= value
  BY <1>1, <1>2, <1>3, <1>8, <1>10 DEF Balances
<1>12. Total(bal') = Total(paid) /\ bal'[from] \in Nat /\ bal'[from] >= paid[from] - value
  <2>1. CASE value = 0
    BY <1>1, <1>3, <1>11, <2>1
  <2>2. CASE value # 0
    <3> DEFINE mid == Take(paid, from, value)
    <3>1. mid \in Balances
      BY <1>1, <1>2, <1>10, BalanceTypes
    <3>2. mid[from] = paid[from] - value
      BY <1>1, <1>2, <1>10, <1>11, SMT DEF Take, SatSub, Balances
    <3>3. bal' = Give(mid, dst, value)
      BY <1>3, <2>2 DEF Moved
    <3> HIDE DEF mid
    <3>4. Give(mid, dst, value)[from] >= mid[from] /\ Give(mid, dst, value)[from] \in Nat
      BY <1>1, <1>2, <3>1, SMT DEF Give, Balances
    <3>5. Total(bal') = Total(paid)
      BY <1>1, <1>2, <1>3, <1>10, <1>11, <2>2, MovedTotal
    <3> QED
      BY <3>2, <3>3, <3>4, <3>5
  <2> QED
    BY <2>1, <2>2
<1>13. Offer' = IF kind = "call" THEN fee ELSE 0
  BY <1>4 DEF Offer
<1>14. kind = "create" => bal'[from] >= fee /\ paid[from] >= fee
  BY <1>1, <1>3, <1>8, <1>10, <1>11, <1>12
<1>15. Pays' => kind = "create"
  BY <1>4 DEF Pays
<1>16. KeepsBal(bal, lost)'
  BY <1>3, <1>4, <1>8, <1>10, <1>12, <1>13, <1>14, <1>15 DEF KeepsBal
<1>17. KeepsFrame(frames[1], lost)'
  BY <1>3, <1>4, <1>5, <1>6, <1>9, <1>10, <1>13, <1>14, <1>15 DEF KeepsFrame, KeepsBal
<1>18. Conserved'
  BY <1>4 DEF Conserved
<1> QED
  BY <1>5, <1>16, <1>17, <1>18 DEF Balanced

\* A call moves what the caller owns, which is no sender of a creation.
LEMMA CallBalanced ==
  ASSUME Inv, Balanced, NEW b \in Acct, NEW value \in Amounts, NEW own \in BOOLEAN,
         Call(b, value, own)
  PROVE  Balanced'
<1> DEFINE this  == Top.this
           moves == value # 0 /\ bal[this] >= value /\ this # b
           sent  == IF moves THEN Moved(bal, this, b, value) ELSE bal
           new   == IF moves THEN SetValues(bal, {this, b}) ELSE NoTouches
           f     == [Top EXCEPT !.journal = Then(@, new)]
           g     == NewFrame("call", IF own THEN this ELSE b, 0, sent)
<1>1. tx.status = "running" /\ Top.this \in Contracts
  BY DEF Call, CanEnter
<1>2. Top \in Frame /\ bal \in Balances /\ value \in Nat
  BY <1>1, TopFields, AmountsAssumption
<1>3. this \in Acct /\ Top.journal \in Touches
  BY <1>2, FrameFields
<1>4. /\ Enter(f, g) /\ bal' = sent
      /\ tx' = [tx EXCEPT !.entered = @ + 1] /\ before' = before /\ lost' = lost
  BY DEF Call
<1>5. /\ KeepsBal(bal, lost) /\ KeepsFrame(Top, lost) /\ lost \in BOOLEAN
      /\ tx.from \in Acct /\ tx.gas * tx.price \in Nat
  BY <1>1, TopKeeps
<1>6. /\ sent \in Balances /\ Total(sent) = Total(bal)
      /\ \A a \in Acct \ {this} : sent[a] >= bal[a]
  <2>1. CASE moves
    BY <1>2, <1>3, <2>1, MovedIs, MovedTotal
  <2>2. CASE ~moves
    BY <1>2, <2>2 DEF Balances
  <2> QED
    BY <2>1, <2>2
<1>7. new \in Touches /\ \A a \in Acct : new[a] # None => new[a] = bal[a]
  <2>1. SetValues(bal, {this, b}) \in Touches /\ NoTouches \in Touches
    BY <1>2, <1>3, SMT DEF SetValues, NoTouches, Touches, Balances
  <2> QED
    BY <2>1 DEF SetValues, NoTouches
<1>8. f \in Frame /\ f.entry = Top.entry /\ f.journal = Then(Top.journal, new)
  <2>1. Then(Top.journal, new) \in Touches
    BY <1>3, <1>7, Zenon DEF Then, Touches
  <2> HIDE DEF new
  <2> QED
    BY <1>2, <2>1, WithJournal
<1>9. g \in Frame /\ g.entry = sent /\ g.journal = NoTouches
  <2>1. (IF own THEN this ELSE b) \in Acct /\ 0 \in Nat
    BY <1>3
  <2> HIDE DEF sent
  <2>2. g \in Frame /\ g.entry = sent
    BY <1>6, <2>1, NewFrameSound
  <2> QED
    BY <2>2 DEF NewFrame
<1> HIDE DEF f, g, sent, new, moves, this
<1>10. Pays => tx.from # this
  BY <1>1 DEF Pays, this
<1>11. \A a \in Acct : sent[a] \in Nat /\ bal[a] \in Nat
  BY <1>2, <1>6 DEF Balances
<1>12. KeepsBal(sent, lost)
  BY <1>5, <1>6, <1>10, <1>11 DEF KeepsBal
<1>13. KeepsFrame(f, lost)
  <2>1. f.journal[tx.from] = IF Top.journal[tx.from] # None THEN Top.journal[tx.from]
                                                           ELSE new[tx.from]
    BY <1>5, <1>8 DEF Then
  <2> QED
    BY <1>5, <1>7, <1>8, <2>1 DEF KeepsFrame, KeepsBal
<1>14. KeepsFrame(g, lost)
  BY <1>5, <1>9, <1>12 DEF KeepsFrame, NoTouches
<1> QED
  BY <1>1, <1>4, <1>5, <1>8, <1>9, <1>12, <1>13, <1>14, EnterBalanced

\* A creation hides no funds unless they are lost.
LEMMA CreateBalanced ==
  ASSUME Inv, Balanced, NEW c \in NewAccts, NEW value \in Amounts, Create(c, value)
  PROVE  Balanced'
<1> DEFINE M == IF Hides(c) THEN {c} ELSE {}
           f == [Top EXCEPT !.moved = @ \cup M]
           g == NewFrame("create", c, value, Hidden(c))
<1>1. tx.status = "running" /\ Top.this \in Contracts
  BY DEF Create, CanEnter
<1>2. Top \in Frame /\ bal \in Balances /\ value \in Nat /\ c \in Acct /\ M \in SUBSET Acct
  BY <1>1, TopFields, AccountsAssumption, AmountsAssumption
<1>3. /\ Enter(f, g) /\ bal' = Hidden(c)
      /\ tx' = [tx EXCEPT !.entered = @ + 1] /\ before' = before
      /\ lost' = (lost \/ Hides(c))
  BY DEF Create
<1>4. /\ KeepsBal(bal, lost) /\ KeepsFrame(Top, lost) /\ lost \in BOOLEAN
      /\ tx.from \in Acct /\ tx.from \notin NewAccts /\ tx.gas * tx.price \in Nat
  BY <1>1, TopKeeps
<1>5. lost' \in BOOLEAN /\ (lost => lost')
  BY <1>3
<1>6. /\ Hidden(c) \in Balances /\ Hidden(c)[tx.from] = bal[tx.from]
      /\ ~Hides(c) => Hidden(c) = bal
  BY <1>2, <1>4, HiddenIs
<1> HIDE DEF M
<1>7. f \in Frame /\ f.entry = Top.entry /\ f.journal = Top.journal
  BY <1>2, WithMoved
<1>8. g \in Frame /\ g.entry = Hidden(c) /\ g.journal = NoTouches
  <2>1. g \in Frame /\ g.entry = Hidden(c)
    BY <1>2, <1>6, NewFrameSound
  <2> QED
    BY <2>1 DEF NewFrame
<1> HIDE DEF f, g
<1>9. KeepsBal(Hidden(c), lost')
  BY <1>3, <1>4, <1>6 DEF KeepsBal
<1>10. KeepsFrame(f, lost')
  BY <1>4, <1>5, <1>7 DEF KeepsFrame, KeepsBal
<1>11. KeepsFrame(g, lost')
  BY <1>4, <1>8, <1>9 DEF KeepsFrame, NoTouches
<1> QED
  BY <1>1, <1>3, <1>5, <1>7, <1>8, <1>9, <1>10, <1>11, EnterBalanced

\* SELFDESTRUCT moves a balance as a whole.
LEMMA SelfDestructBalanced ==
  ASSUME Inv, Balanced, NEW b \in Acct, SelfDestruct(b)
  PROVE  Balanced'
<1> DEFINE a   == Top.this
           M   == {Top.this, b}
           f   == [Top EXCEPT !.moved = @ \cup M]
           all == bal[a]
           mid == [x \in Acct |-> IF x = a THEN 0 ELSE bal[x]]
<1>1. tx.status = "running" /\ Top.this \in Contracts
  BY DEF SelfDestruct
<1>2. /\ Stacked /\ Top \in Frame /\ bal \in Balances /\ a \in Acct /\ M \in SUBSET Acct
  BY <1>1, TopFields, FrameFields
<1>3. /\ bal' = [x \in Acct |-> (IF x = a THEN 0 ELSE bal[x]) + (IF x = b THEN all ELSE 0)]
      /\ frames' = [frames EXCEPT ![Depth] = f]
      /\ tx' = tx /\ before' = before /\ lost' = lost
  BY DEF SelfDestruct
<1>4. /\ KeepsBal(bal, lost) /\ KeepsFrame(Top, lost) /\ lost \in BOOLEAN
      /\ tx.from \in Acct /\ tx.gas * tx.price \in Nat
  BY <1>1, TopKeeps
<1>5. Pays => tx.from # a
  BY <1>1 DEF Pays
<1> HIDE DEF M
<1>6. f \in Frame /\ f.entry = Top.entry /\ f.journal = Top.journal
  BY <1>2, WithMoved
<1> HIDE DEF a, f
<1>7. all \in Nat /\ mid \in [Acct -> Int] /\ bal \in [Acct -> Int] /\ bal' \in [Acct -> Int]
  BY <1>2, <1>3, SMT DEF Balances
<1>8. Moves(bal, mid, a, -all)
  BY <1>2, <1>7, SMT DEF Moves
<1>9. Moves(mid, bal', b, all)
  BY <1>3, <1>7, SMT DEF Moves
<1>10. \A x \in Acct : x # a => bal'[x] >= bal[x] /\ bal'[x] \in Int /\ bal[x] \in Int
  BY <1>2, <1>3, <1>7, SMT DEF Balances
<1> HIDE DEF mid, all
<1>11. Total(bal') = Total(bal)
  <2>1. Total(bal) \in Int /\ Total(mid) \in Int /\ Total(mid) = Total(bal) + (-all)
    BY <1>8, TotalMoves
  <2>2. Total(bal') = Total(mid) + all
    BY <1>9, TotalMoves
  <2> QED
    BY <1>7, <2>1, <2>2
<1>12. KeepsBal(bal', lost')
  BY <1>3, <1>4, <1>5, <1>10, <1>11 DEF KeepsBal
<1>13. KeepsFrame(f, lost)
  BY <1>4, <1>6 DEF KeepsFrame
<1>14. /\ Depth' = Depth /\ Depth \in Nat /\ Depth >= 1 /\ frames'[Depth] = f
       /\ \A i \in 1..(Depth - 1) : frames'[i] = frames[i]
  BY <1>2, <1>3, <1>6, Replaced DEF Stacked, Depth
<1>15. ASSUME NEW i \in 1..Depth'
       PROVE  KeepsFrame(frames'[i], lost')
  <2>1. CASE i \in 1..(Depth - 1)
    <3>1. i \in 1..Depth /\ frames'[i] = frames[i]
      BY <1>14, <2>1
    <3>2. KeepsFrame(frames[i], lost)
      BY <1>1, <3>1 DEF Balanced
    <3> QED
      BY <1>3, <3>1, <3>2
  <2>2. CASE i = Depth
    BY <1>3, <1>13, <1>14, <2>2
  <2> QED
    BY <1>14, <2>1, <2>2
<1> QED
  BY <1>1, <1>3, <1>12, <1>15, BalancedKept

\* The frame under the innermost one keeps what it did if it records no balance that
\* is too low for the sender of a creation.
LEMMA JoinedKeeps ==
  ASSUME Inv, Balanced, tx.status = "running", Depth > 1, lost' \in BOOLEAN, lost => lost',
         NEW j \in Touches, NEW C \in SUBSET Acct, NEW M \in SUBSET Acct, NEW b,
         Leave(Joined(j, C, M), b), KeepsBal(b, lost'),
         Pays /\ j[tx.from] # None => j[tx.from] >= tx.gas * tx.price
  PROVE  Balanced'
<1> DEFINE f == Joined(j, C, M)
           k == Then(Under.journal, j)
           c == Under.created \cup C
           m == Under.moved \cup Top.moved \cup M
           g == [Under EXCEPT !.journal = k, !.created = c, !.moved = m]
<1>1. Top \in Frame /\ Under \in Frame
  BY TopFields
<1>2. k \in Touches
  BY <1>1, FrameFields, Zenon DEF Then, Touches
<1>3. c \in SUBSET Acct /\ m \in SUBSET Acct
  BY <1>1, FrameFields
<1>4. f = g
  BY DEF Joined
<1>5. /\ KeepsFrame(Under, lost) /\ lost \in BOOLEAN /\ tx.from \in Acct
  BY TopKeeps
<1>6. k[tx.from] = IF Under.journal[tx.from] # None THEN Under.journal[tx.from]
                                                    ELSE j[tx.from]
  BY <1>5 DEF Then
<1> HIDE DEF f, k, c, m
<1>7. g \in Frame /\ g.entry = Under.entry /\ g.journal = k
  BY <1>1, <1>2, <1>3 DEF Frame
<1> HIDE DEF g
<1>8. f \in Frame /\ KeepsFrame(f, lost')
  BY <1>4, <1>5, <1>6, <1>7 DEF KeepsFrame, KeepsBal
<1>9. Leave(f, b)
  BY DEF f
<1> QED
  BY <1>8, <1>9, LeaveBalanced

\* A call that succeeds.
LEMMA ReturnBalanced ==
  ASSUME Inv, Balanced, Return
  PROVE  Balanced'
<1>1. /\ tx.status = "running" /\ Depth > 1
      /\ Leave(Joined(Top.journal, Top.created, {}), bal) /\ lost' = lost
  BY DEF Return, Runs
<1>2. Top.journal \in Touches /\ Top.created \in SUBSET Acct
  BY <1>1, TopFields, FrameFields
<1>3. /\ KeepsBal(bal, lost) /\ KeepsFrame(Top, lost) /\ lost \in BOOLEAN
  BY <1>1, TopKeeps
<1>4. KeepsBal(bal, lost') /\ lost' \in BOOLEAN /\ (lost => lost')
  BY <1>1, <1>3
<1>5. Pays /\ Top.journal[tx.from] # None => Top.journal[tx.from] >= tx.gas * tx.price
  BY <1>3 DEF KeepsFrame
<1> QED
  BY <1>1, <1>2, <1>4, <1>5, JoinedKeeps

\* Undoing a frame gives back all that it was entered with, or something is lost.
LEMMA RevertedKeeps ==
  ASSUME NEW f \in Frame, NEW b \in Balances, Sound(f, b), Unaccounted(f) = {}
  PROVE  Reverted(b, f.journal) = f.entry
<1>1. \A a \in Acct : Reverted(b, f.journal)[a] = f.entry[a]
  BY DEF Sound, Restores
<1>2. f.entry = [a \in Acct |-> f.entry[a]]
  BY FrameFields DEF Balances
<1> DEFINE c == Reverted(b, f.journal)
<1>3. c = [a \in Acct |-> c[a]]
  BY DEF Reverted
<1> HIDE DEF c
<1>4. \A a \in Acct : c[a] = f.entry[a]
  BY <1>1 DEF c
<1>5. c = f.entry
  BY <1>2, <1>3, <1>4
<1> QED
  BY <1>5 DEF c

\* A frame that is undone.
LEMMA UndoBalanced ==
  ASSUME Inv, Balanced, Undo
  PROVE  Balanced'
<1> DEFINE b == Reverted(bal, Top.journal)
           j == Creates(Top.created)
<1>1. /\ tx.status = "running" /\ Depth > 1
      /\ Leave(Joined(j, Top.created, {}), b) /\ lost' = (lost \/ Unaccounted(Top) # {})
  BY DEF Undo
<1>2. Top \in Frame /\ Sound(Top, bal) /\ bal \in Balances
  BY <1>1, TopFields
<1>3. Top.created \in SUBSET Acct /\ Top.created \subseteq NewAccts
  BY <1>2, FrameFields DEF Sound
<1>4. j \in Touches
  BY <1>3, SMT DEF Creates, Touches
<1>5. /\ KeepsBal(bal, lost) /\ KeepsFrame(Top, lost) /\ lost \in BOOLEAN
      /\ tx.from \in Acct /\ tx.from \notin NewAccts
  BY <1>1, TopKeeps
<1>6. lost' \in BOOLEAN /\ (lost => lost')
  BY <1>1
<1>7. ~lost' => b = Top.entry
  BY <1>1, <1>2, RevertedKeeps
<1>8. b[tx.from] = IF Top.journal[tx.from] # None THEN Top.journal[tx.from] ELSE bal[tx.from]
  BY <1>5 DEF Reverted
<1>9. j[tx.from] = None
  BY <1>3, <1>5 DEF Creates
<1> HIDE DEF b, j
<1>10. KeepsBal(b, lost')
  BY <1>5, <1>6, <1>7, <1>8 DEF KeepsBal, KeepsFrame
<1> QED
  BY <1>1, <1>3, <1>4, <1>6, <1>9, <1>10, JoinedKeeps

\* A creation that succeeds moves what the creator owns, which is no sender of a
\* creation.
LEMMA DeployBalanced ==
  ASSUME Inv, Balanced, Deploy
  PROVE  Balanced'
<1> DEFINE from  == Under.this
           c     == Top.this
           moves == Top.value # 0 /\ bal[from] >= Top.value
           S     == IF moves THEN {from, c} ELSE {}
           own   == Then(Creates({c}), Top.journal)
           j     == Then(SetValues(bal, S), own)
           C     == Top.created \cup {c}
           M     == {a \in S : Top.journal[a] # None}
           b     == IF moves THEN Moved(bal, from, c, Top.value) ELSE bal
<1>1. tx.status = "running" /\ Depth > 1 /\ Leave(Joined(j, C, M), b) /\ lost' = lost
      /\ Top.kind = "create"
  BY DEF Deploy, Runs
<1>2. Top \in Frame /\ Under \in Frame /\ bal \in Balances /\ from \in Contracts
  BY <1>1, TopFields
<1>3. /\ Top.journal \in Touches /\ Top.created \in SUBSET Acct /\ Top.value \in Nat
      /\ c \in Acct /\ from \in Acct /\ c \in NewAccts
  BY <1>1, <1>2, TopFields, FrameFields DEF Sound
<1>4. C \in SUBSET Acct /\ S \in SUBSET Acct /\ M \in SUBSET Acct
  BY <1>3
<1>5. j \in Touches
  <2>1. Creates({c}) \in Touches
    BY <1>3, SMT DEF Creates, Touches
  <2>2. own \in Touches
    BY <1>3, <2>1, Zenon DEF Then, Touches
  <2>3. SetValues(bal, S) \in Touches
    <3> HIDE DEF S
    <3> QED
      BY <1>2, <1>4, SMT DEF SetValues, Touches, Balances
  <2> QED
    BY <2>2, <2>3, Zenon DEF Then, Touches
<1>6. /\ KeepsBal(bal, lost) /\ KeepsFrame(Top, lost) /\ lost \in BOOLEAN
      /\ tx.from \in Acct /\ tx.from \notin NewAccts /\ tx.gas * tx.price \in Nat
  BY <1>1, TopKeeps
<1>7. /\ b \in Balances /\ Total(b) = Total(bal)
      /\ \A a \in Acct \ {from} : b[a] >= bal[a]
  <2>1. CASE moves
    BY <1>2, <1>3, <2>1, MovedIs, MovedTotal
  <2>2. CASE ~moves
    BY <1>2, <2>2 DEF Balances
  <2> QED
    BY <2>1, <2>2
<1>8. Pays => tx.from # from
  BY <1>2 DEF Pays
<1>9. /\ j[tx.from] = IF tx.from \in S THEN bal[tx.from] ELSE own[tx.from]
      /\ own[tx.from] = Top.journal[tx.from]
  <2>1. bal[tx.from] # None /\ tx.from # c
    BY <1>2, <1>3, <1>6, BalancesAreSome
  <2>2. own[tx.from] = Top.journal[tx.from]
    BY <1>6, <2>1 DEF Then, Creates
  <2>3. SetValues(bal, S)[tx.from] = IF tx.from \in S THEN bal[tx.from] ELSE None
    BY <1>6 DEF SetValues
  <2> HIDE DEF own, S
  <2>4. j[tx.from] = IF tx.from \in S THEN bal[tx.from] ELSE own[tx.from]
    BY <1>6, <2>1, <2>3 DEF Then
  <2> QED
    BY <2>2, <2>4
<1>10. bal[tx.from] \in Nat /\ b[tx.from] \in Nat
  BY <1>2, <1>6, <1>7 DEF Balances
<1> HIDE DEF b, j, own, S, C, M, from, c, moves
<1>11. KeepsBal(b, lost')
  BY <1>1, <1>6, <1>7, <1>8, <1>10 DEF KeepsBal
<1>12. Pays /\ j[tx.from] # None => j[tx.from] >= tx.gas * tx.price
  BY <1>6, <1>9 DEF KeepsBal, KeepsFrame
<1>13. lost' \in BOOLEAN /\ (lost => lost')
  BY <1>1, <1>6
<1> QED
  BY <1>1, <1>4, <1>5, <1>11, <1>12, <1>13, JoinedKeeps

\* The end of a call: of the gas offered, the sender keeps what it did not use, and
\* the miner gets its share of the rest.
LEMMA EndCallBalanced ==
  ASSUME Inv, Balanced, NEW used \in 0..tx.gas, NEW reverted \in BOOLEAN, EndCall(used, reverted)
  PROVE  Balanced'
<1> DEFINE kept  == IF reverted THEN Reverted(bal, Top.journal) ELSE bal
           offer == tx.gas * tx.price
           fee   == used * tx.price
           share == CoinbaseGasPrice(tx)
           tip   == used * share
           paid  == Give(kept, tx.from, offer - fee)
<1>1. /\ tx.kind = "call" /\ Done(used, reverted)
      /\ bal' = PayMiner(paid, tip)
  BY DEF EndCall
<1>2. /\ tx'.status = "done" /\ tx'.used = used /\ tx'.reverted = reverted
      /\ tx'.kind = "call" /\ tx'.price = tx.price
      /\ CoinbaseGasPrice(tx') = share
      /\ UNCHANGED <<frames, before, lost>> /\ Depth = 1 /\ tx.status = "running"
      /\ tx.gas \in Nat /\ tx.price \in Nat /\ tx.from \in Acct /\ used \in Nat
      /\ share \in Nat /\ used <= tx.gas
      /\ bal \in Balances /\ before \in Balances /\ Top.journal \in Touches
  BY <1>1, DoneFields
<1>3. offer \in Nat /\ fee \in Nat /\ tip \in Nat /\ fee <= offer
  BY <1>2, TimesNat, TimesMonotone
<1>4. kept \in Balances
  BY <1>2, TouchTypes
<1>5. Top' = Top
  BY <1>2 DEF Top, Depth
<1>6. ASSUME ~lost, reverted => Unaccounted(Top) = {}
      PROVE  Total(kept) = Total(before) - offer
  <2>1. Offer = offer
    BY <1>1 DEF Offer
  <2>2. CASE reverted
    <3>1. Top \in Frame /\ Sound(Top, bal)
      BY <1>2, TopFields
    <3>2. kept = Top.entry
      BY <1>2, <1>6, <2>2, <3>1, RevertedKeeps
    <3> QED
      BY <1>2, <1>6, <2>1, <3>2, TopKeeps DEF KeepsFrame, KeepsBal
  <2>3. CASE ~reverted
    <3>1. kept = bal
      BY <2>3
    <3> QED
      BY <1>2, <1>6, <2>1, <3>1, TopKeeps DEF KeepsBal
  <2> QED
    BY <2>2, <2>3
<1>7. used * (tx.price - share) = fee - tip
  BY <1>2, Burned
<1>8. fee = used * tx.price
  OBVIOUS
<1> HIDE DEF kept, share, offer, fee, tip
<1>9. offer - fee \in Nat /\ Acct # {}
  BY <1>2, <1>3, SMT
<1>10. paid \in Balances /\ Total(kept) \in Int /\ Total(paid) = Total(kept) + (offer - fee)
  BY <1>2, <1>4, <1>9, GiveTotal
<1>11. Total(before) \in Int
  BY <1>2, <1>9, GiveTotal
<1> HIDE DEF paid
<1>12. Total(bal') = Total(paid) + (IF Miner \in Acct THEN tip ELSE 0)
  BY <1>1, <1>3, <1>9, <1>10, PayTotal
<1>13. ASSUME ~lost, reverted => Unaccounted(Top) = {}
       PROVE  Total(bal') = Total(before) - (fee - (IF Miner \in Acct THEN tip ELSE 0))
  BY <1>3, <1>6, <1>10, <1>11, <1>12, <1>13
<1>14. used * (IF Miner \in Acct THEN tx.price - share ELSE tx.price)
         = fee - (IF Miner \in Acct THEN tip ELSE 0)
  BY <1>3, <1>7, <1>8
<1>15. Conserved'
  BY <1>2, <1>5, <1>13, <1>14 DEF Conserved
<1> QED
  BY <1>2, <1>15 DEF Balanced

\* The end of a creation: the sender still owns the fee.
LEMMA EndCreateBalanced ==
  ASSUME Inv, Balanced, NEW used \in 0..tx.gas, NEW reverted \in BOOLEAN, EndCreate(used, reverted)
  PROVE  Balanced'
<1> DEFINE fee   == used * tx.price
           share == CoinbaseGasPrice(tx)
           tip   == used * share
           paid  == PayMiner(bal, tip)
           kept  == IF reverted THEN Reverted(paid, Top.journal) ELSE paid
<1>1. /\ tx.kind = "create" /\ Done(used, reverted)
      /\ bal' = Take(kept, tx.from, fee)
  BY DEF EndCreate
<1>2. /\ tx'.status = "done" /\ tx'.used = used /\ tx'.reverted = reverted
      /\ tx'.kind = "create" /\ tx'.from = tx.from /\ tx'.price = tx.price
      /\ CoinbaseGasPrice(tx') = share
      /\ UNCHANGED <<frames, before, lost>> /\ tx.status = "running"
      /\ tx.gas \in Nat /\ tx.price \in Nat /\ tx.from \in Acct /\ used \in Nat
      /\ share \in Nat /\ used <= tx.gas
      /\ bal \in Balances /\ before \in Balances
  BY <1>1, DoneFields
<1>3. fee \in Nat /\ tip \in Nat /\ fee <= tx.gas * tx.price /\ tx.gas * tx.price \in Nat
  BY <1>2, TimesNat, TimesMonotone
<1>4. used * (tx.price - share) = fee - tip
  BY <1>2, Burned
<1>5. ~reverted => kept = paid
  OBVIOUS
<1>6. fee = used * tx.price
  OBVIOUS
<1>7. KeepsBal(bal, lost) /\ Offer = 0
  BY <1>1, <1>2, TopKeeps DEF Offer
<1> HIDE DEF kept, share, fee, tip
<1>8. Acct # {}
  BY <1>2
<1>9. /\ paid \in Balances /\ Total(bal) \in Int /\ Total(before) \in Int
      /\ Total(paid) = Total(bal) + (IF Miner \in Acct THEN tip ELSE 0)
  BY <1>2, <1>3, <1>8, PayTotal
<1>10. paid[tx.from] \in Nat /\ paid[tx.from] >= bal[tx.from] /\ bal[tx.from] \in Nat
  BY <1>2, <1>3, SMT DEF PayMiner, Give, Balances
<1> HIDE DEF paid
<1>11. ASSUME ~reverted, ~lost, tx.from \notin Contracts
       PROVE  Total(bal') = Total(before) - (fee - (IF Miner \in Acct THEN tip ELSE 0))
  <2>1. Pays
    BY <1>1, <1>11 DEF Pays
  <2>2. bal[tx.from] >= tx.gas * tx.price /\ Total(bal) = Total(before)
    BY <1>7, <1>9, <1>11, <2>1 DEF KeepsBal
  <2>3. paid[tx.from] >= fee
    BY <1>3, <1>10, <2>2
  <2>4. Total(Take(paid, tx.from, fee)) = Total(paid) - fee
    BY <1>2, <1>3, <1>9, <2>3, TakeTotal
  <2> QED
    BY <1>1, <1>3, <1>5, <1>9, <1>11, <2>2, <2>4
<1>12. used * (IF Miner \in Acct THEN tx.price - share ELSE tx.price)
         = fee - (IF Miner \in Acct THEN tip ELSE 0)
  BY <1>3, <1>4, <1>6
<1>13. Conserved'
  BY <1>2, <1>11, <1>12 DEF Conserved, MaySpendFee
<1> QED
  BY <1>2, <1>13 DEF Balanced

\* Every step keeps the sums.
LEMMA NextBalanced == Inv /\ Balanced /\ [Next]_vars => Balanced'
<1> SUFFICES ASSUME Inv, Balanced, [Next]_vars PROVE Balanced'
  OBVIOUS
<1>1. CASE \E kind \in Kinds, from \in Senders, to \in Acct, c \in NewAccts, value \in Amounts,
              gas \in GasLimits, price \in Prices, maxFee \in MaxFees, tip \in Tips :
                Begin(kind, from, to, c, value, gas, price, maxFee, tip)
  BY <1>1, BeginBalanced
<1>2. CASE \E b \in Acct, value \in Amounts, own \in BOOLEAN : Call(b, value, own)
  BY <1>2, CallBalanced
<1>3. CASE \E c \in NewAccts, value \in Amounts : Create(c, value)
  BY <1>3, CreateBalanced
<1>4. CASE \E b \in Acct : SelfDestruct(b)
  BY <1>4, SelfDestructBalanced
<1>5. CASE Return
  BY <1>5, ReturnBalanced
<1>6. CASE Undo
  BY <1>6, UndoBalanced
<1>7. CASE Deploy
  BY <1>7, DeployBalanced
<1>8. CASE \E used \in 0..tx.gas, reverted \in BOOLEAN : EndCall(used, reverted)
  BY <1>8, EndCallBalanced
<1>9. CASE \E used \in 0..tx.gas, reverted \in BOOLEAN : EndCreate(used, reverted)
  BY <1>9, EndCreateBalanced
<1>10. CASE UNCHANGED vars
  <2>1. bal' = bal /\ frames' = frames /\ tx' = tx /\ before' = before /\ lost' = lost
    BY <1>10 DEF vars
  <2>2. Top' = Top /\ Depth' = Depth /\ Offer' = Offer /\ Pays' = Pays
        /\ MaySpendFee' = MaySpendFee
    BY <2>1 DEF Top, Depth, Offer, Pays, MaySpendFee
  <2>3. KeepsBal(bal, lost)' = KeepsBal(bal, lost)
        /\ \A i : KeepsFrame(frames[i], lost)' = KeepsFrame(frames[i], lost)
    BY <2>1, <2>2 DEF KeepsBal, KeepsFrame
  <2>4. Conserved'
    BY <2>1, <2>2 DEF Balanced, Conserved
  <2> QED
    BY <2>1, <2>2, <2>3, <2>4 DEF Balanced
<1> QED
  BY <1>1, <1>2, <1>3, <1>4, <1>5, <1>6, <1>7, <1>8, <1>9, <1>10 DEF Next

\* Executor::execute and the end of Runner::apply: a transaction burns the base fee
\* of the gas it used, and creates or destroys nothing else, however the accounts
\* and prices coincide and whatever calls and creations in it moved and undid, as
\* long as no revert met an account its journal does not account for and no funds
\* were hidden.
THEOREM AlwaysConserved == Spec => []Conserved
<1>1. Init => Inv /\ Balanced
  BY InitInv, InitBalanced
<1>2. Inv /\ Balanced /\ [Next]_vars => (Inv /\ Balanced)'
  BY NextInv, NextBalanced
<1>3. Inv /\ Balanced => Conserved
  BY DEF Balanced
<1> QED
  BY <1>1, <1>2, <1>3, PTL DEF Spec
=============================================================================
