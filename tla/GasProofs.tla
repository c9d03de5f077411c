------------------------------ MODULE GasProofs ------------------------------
(***************************************************************************)
(* Proofs about module Gas, for every choice of its constants.             *)
(***************************************************************************)
EXTENDS Gas, TLAPS, FiniteSetTheorems, WellFoundedInduction

(***************************************************************************)
(* The inductive invariant.  Between a suspended frame f and the frame g   *)
(* it waits for, Settles says that f can pay for whatever g does and keeps *)
(* a 64th; the refund counters of a stack add up to prior; and at every    *)
(* level they cover the slots cleared when the frame was entered.          *)
(***************************************************************************)
Settles(f, g) ==
  LET r == Remaining(f) - g.base
  IN  /\ f.status = "running"
      /\ r >= 0
      /\ g.stipend <= g.base
      /\ g.kind = "create" => g.stipend = 0
      /\ g.limit - g.stipend <= r - r \div 64
      /\ g.prior = f.prior + f.refund

InBounds(f) == 0 <= f.used /\ f.used <= f.limit

Stack(fr, o) ==
  /\ fr \in Seq(Frame)
  /\ \A i \in 1..Len(fr) : InBounds(fr[i]) /\ fr[i].prior >= Owed(o, fr[i].entry)
  /\ \A i \in 1..(Len(fr) - 1) : Settles(fr[i], fr[i + 1])
  /\ fr # <<>> => fr[1].prior = 0 /\ fr[1].base = 0 /\ fr[1].stipend = 0

TxInv ==
  /\ tx.call.gas >= Upfront(tx.call)
  /\ tx.call.gas >= GasFloor(tx.call)
  /\ frames # <<>> => /\ tx.status = "running"
                      /\ frames[1].limit = tx.call.gas - Upfront(tx.call)
                      /\ frames[1].kind = tx.call.kind

Inv ==
  /\ TypeOK
  /\ Stack(frames, orig)
  /\ RefundsBacked
  /\ TxInv
  /\ ChargedWithinLimit

\* The stack with its innermost frame replaced, and with it dropped as well.
Replaced(fr, f) == [fr EXCEPT ![Len(fr)] = f]
Dropped(fr, f)  == [i \in 1..(Len(fr) - 1) |-> IF i = Len(fr) - 1 THEN f ELSE fr[i]]

-----------------------------------------------------------------------------
(* Refunds *)

\* Only finitely many slots can be clear.
LEMMA OwedType == \A o, st \in Storage : Owed(o, st) \in Nat
<1> SUFFICES ASSUME NEW o \in Storage, NEW st \in Storage
             PROVE  Owed(o, st) \in Nat
    OBVIOUS
<1>1. Cleared(o, st) \subseteq Slot
      BY DEF Cleared
<1>2. IsFiniteSet(Cleared(o, st))
      BY <1>1, SlotAssumption, FS_Subset
<1>3. Cardinality(Cleared(o, st)) \in Nat
      BY <1>2, FS_CardinalityType
<1> QED BY <1>3 DEF Owed

\* Nothing is owed for the storage a transaction starts with.
LEMMA OwedAtStart == \A o \in Storage : Owed(o, o) = 0
<1> SUFFICES ASSUME NEW o \in Storage
             PROVE  Owed(o, o) = 0
    OBVIOUS
<1>1. Cleared(o, o) = {}
      BY DEF Cleared
<1> QED BY <1>1, FS_EmptySet DEF Owed

\* An SSTORE adds to the refund counter at least what it adds to the refunds owed.
LEMMA StoreRefundCovers ==
  ASSUME NEW o \in Storage, NEW st \in Storage, NEW s \in Slot, NEW new \in Words
  PROVE  LET st2 == [st EXCEPT ![s] = new]
         IN  /\ st2 \in Storage
             /\ StoreRefund(o[s], st[s], new) \in Int
             /\ Owed(o, st2) <= Owed(o, st) + StoreRefund(o[s], st[s], new)
<1> DEFINE st2 == [st EXCEPT ![s] = new]
           C  == Cleared(o, st)
           C2 == Cleared(o, st2)
           d  == StoreRefund(o[s], st[s], new)
<1>1. st2 \in Storage
      BY DEF Storage
<1>2. o[s] \in Nat /\ st[s] \in Nat /\ new \in Nat
      BY WordsAssumption DEF Storage
<1>3. d \in Int
      BY <1>2 DEF StoreRefund
<1>4. IsFiniteSet(C) /\ IsFiniteSet(C2) /\ Cardinality(C) \in Nat /\ Cardinality(C2) \in Nat
  <2>1. C \subseteq Slot /\ C2 \subseteq Slot
        BY DEF Cleared
  <2> QED BY <2>1, SlotAssumption, FS_Subset, FS_CardinalityType
<1>5. \A x \in Slot : x # s => (x \in C <=> x \in C2)
      BY DEF Cleared, Storage
<1>6. s \in C <=> (o[s] # 0 /\ st[s] = 0)
      BY DEF Cleared
<1>7. s \in C2 <=> (o[s] # 0 /\ new = 0)
      BY DEF Cleared, Storage
<1>8. C \subseteq Slot /\ C2 \subseteq Slot
      BY DEF Cleared
<1>9. 4800 * Cardinality(C2) <= 4800 * Cardinality(C) + d
  <2>1. CASE s \in C /\ s \notin C2
    <3>1. C2 = C \ {s}
          BY <2>1, <1>5, <1>8
    <3>2. Cardinality(C2) = Cardinality(C) - 1
          BY <3>1, <2>1, <1>4, FS_RemoveElement
    <3>3. d >= -4800
          BY <1>2 DEF StoreRefund
    <3> QED BY <3>2, <3>3, <1>3, <1>4
  <2>2. CASE s \notin C /\ s \in C2
    <3>1. C2 = C \cup {s}
          BY <2>2, <1>5, <1>8
    <3>2. Cardinality(C2) = Cardinality(C) + 1
          BY <3>1, <2>2, <1>4, FS_AddElement
    <3>3. d >= 4800
          BY <2>2, <1>2, <1>6, <1>7 DEF StoreRefund
    <3> QED BY <3>2, <3>3, <1>3, <1>4
  <2>3. CASE s \in C <=> s \in C2
    <3>1. \A x : x \in C <=> x \in C2
          BY <2>3, <1>5, <1>8
    <3>2. C2 = C
          BY <3>1
    <3>3. d >= 0
          BY <2>3, <1>2, <1>6, <1>7 DEF StoreRefund
    <3> QED BY <3>2, <3>3, <1>3, <1>4
  <2> QED BY <2>1, <2>2, <2>3
<1>10. Owed(o, st2) = 4800 * Cardinality(C2) /\ Owed(o, st) = 4800 * Cardinality(C)
       BY DEF Owed
<1> QED BY <1>1, <1>3, <1>9, <1>10

-----------------------------------------------------------------------------
(* Stacks *)

\* What the metering of a frame leaves alone.
SameFrame(f, g) ==
  /\ f.limit = g.limit
  /\ f.base = g.base
  /\ f.stipend = g.stipend
  /\ f.entry = g.entry
  /\ f.prior = g.prior
  /\ f.kind = g.kind

\* The innermost frame may be metered within its limit.
LEMMA ReplaceTop ==
  ASSUME NEW fr, NEW o, Stack(fr, o), fr # <<>>, NEW f \in Frame,
         SameFrame(f, fr[Len(fr)]), InBounds(f)
  PROVE  /\ Stack(Replaced(fr, f), o)
         /\ Len(Replaced(fr, f)) = Len(fr)
         /\ Replaced(fr, f)[Len(fr)] = f
         /\ Replaced(fr, f)[1].limit = fr[1].limit
         /\ Replaced(fr, f)[1].kind = fr[1].kind
<1> DEFINE n == Len(fr)
           g == Replaced(fr, f)
<1>1. fr \in Seq(Frame) /\ n \in Nat /\ n > 0
      BY DEF Stack
<1>2. g \in Seq(Frame) /\ Len(g) = n
      BY <1>1 DEF Replaced
<1>3. \A i \in 1..n : g[i] = IF i = n THEN f ELSE fr[i]
      BY <1>1 DEF Replaced
<1>4. \A i \in 1..n : SameFrame(g[i], fr[i])
      BY <1>3 DEF SameFrame
<1>5. \A i \in 1..n : InBounds(g[i]) /\ g[i].prior >= Owed(o, g[i].entry)
      BY <1>1, <1>3, <1>4 DEF Stack, SameFrame
<1>6. \A i \in 1..(n - 1) : Settles(g[i], g[i + 1])
  <2> TAKE i \in 1..(n - 1)
  <2>1. g[i] = fr[i] /\ SameFrame(g[i + 1], fr[i + 1])
        BY <1>1, <1>3, <1>4
  <2>2. Settles(fr[i], fr[i + 1])
        BY DEF Stack
  <2> QED BY <2>1, <2>2 DEF Settles, SameFrame
<1>7. /\ g[1].prior = 0 /\ g[1].base = 0 /\ g[1].stipend = 0
      /\ g[1].limit = fr[1].limit /\ g[1].kind = fr[1].kind
      BY <1>1, <1>4 DEF Stack, SameFrame
<1>8. g[n] = f
      BY <1>1, <1>3
<1>9. Stack(g, o)
  <2> HIDE DEF g
  <2> QED BY <1>1, <1>2, <1>5, <1>6, <1>7 DEF Stack
<1> QED BY <1>2, <1>7, <1>8, <1>9

\* A frame may be entered that the innermost one can pay for.
LEMMA Push ==
  ASSUME NEW fr, NEW o, Stack(fr, o), fr # <<>>, NEW f \in Frame, InBounds(f),
         Settles(fr[Len(fr)], f), f.prior >= Owed(o, f.entry)
  PROVE  /\ Stack(Append(fr, f), o)
         /\ Len(Append(fr, f)) = Len(fr) + 1
         /\ Append(fr, f)[Len(fr) + 1] = f
         /\ Append(fr, f)[1] = fr[1]
<1> DEFINE n == Len(fr)
           g == Append(fr, f)
<1>1. fr \in Seq(Frame) /\ n \in Nat /\ n > 0
      BY DEF Stack
<1>2. g \in Seq(Frame) /\ Len(g) = n + 1
      BY <1>1
<1>3. \A i \in 1..n : g[i] = fr[i]
      BY <1>1
<1>4. g[n + 1] = f
      BY <1>1
<1>5. \A i \in 1..(n + 1) : InBounds(g[i]) /\ g[i].prior >= Owed(o, g[i].entry)
  <2> TAKE i \in 1..(n + 1)
  <2>1. CASE i = n + 1
        BY <2>1, <1>4
  <2>2. CASE i \in 1..n
        BY <2>2, <1>3 DEF Stack
  <2> QED BY <2>1, <2>2, <1>1
<1>6. \A i \in 1..n : Settles(g[i], g[i + 1])
  <2> TAKE i \in 1..n
  <2>1. CASE i = n
        BY <2>1, <1>1, <1>3, <1>4
  <2>2. CASE i \in 1..(n - 1)
    <3>1. g[i] = fr[i] /\ g[i + 1] = fr[i + 1]
          BY <2>2, <1>1, <1>3
    <3> QED BY <3>1, <2>2 DEF Stack
  <2> QED BY <2>1, <2>2, <1>1
<1>7. g[1] = fr[1] /\ fr[1].prior = 0 /\ fr[1].base = 0 /\ fr[1].stipend = 0
      BY <1>1, <1>3 DEF Stack
<1> HIDE DEF g
<1>8. (n + 1) - 1 = n
      BY <1>1
<1> QED BY <1>2, <1>4, <1>5, <1>6, <1>7, <1>8 DEF Stack

\* The innermost frame may be dropped and its caller be metered.
LEMMA Pop ==
  ASSUME NEW fr, NEW o, Stack(fr, o), Len(fr) > 1, NEW f \in Frame,
         SameFrame(f, fr[Len(fr) - 1]), InBounds(f)
  PROVE  /\ Stack(Dropped(fr, f), o)
         /\ Len(Dropped(fr, f)) = Len(fr) - 1
         /\ Dropped(fr, f)[Len(fr) - 1] = f
         /\ Dropped(fr, f)[1].limit = fr[1].limit
         /\ Dropped(fr, f)[1].kind = fr[1].kind
<1> DEFINE n == Len(fr) - 1
           g == Dropped(fr, f)
<1>1. fr \in Seq(Frame) /\ n \in Nat /\ n > 0
      BY DEF Stack
<1>2. g \in Seq(Frame) /\ Len(g) = n
      BY <1>1 DEF Dropped
<1>3. \A i \in 1..n : g[i] = IF i = n THEN f ELSE fr[i]
      BY <1>1 DEF Dropped
<1>4. \A i \in 1..n : SameFrame(g[i], fr[i])
      BY <1>3 DEF SameFrame
<1>5. \A i \in 1..n : InBounds(g[i]) /\ g[i].prior >= Owed(o, g[i].entry)
      BY <1>1, <1>3, <1>4 DEF Stack, SameFrame
<1>6. \A i \in 1..(n - 1) : Settles(g[i], g[i + 1])
  <2> TAKE i \in 1..(n - 1)
  <2>1. g[i] = fr[i] /\ SameFrame(g[i + 1], fr[i + 1])
        BY <1>1, <1>3, <1>4
  <2>2. Settles(fr[i], fr[i + 1])
        BY <1>1 DEF Stack
  <2> QED BY <2>1, <2>2 DEF Settles, SameFrame
<1>7. /\ g[1].prior = 0 /\ g[1].base = 0 /\ g[1].stipend = 0
      /\ g[1].limit = fr[1].limit /\ g[1].kind = fr[1].kind
      BY <1>1, <1>4 DEF Stack, SameFrame
<1>8. g[n] = f
      BY <1>1, <1>3
<1>9. Stack(g, o)
  <2> HIDE DEF g
  <2> QED BY <1>1, <1>2, <1>5, <1>6, <1>7 DEF Stack
<1> QED BY <1>2, <1>7, <1>8, <1>9

-----------------------------------------------------------------------------
(* Steps of the innermost frame *)

\* What the invariant says of the innermost frame.
LEMMA TopFacts ==
  ASSUME Inv, frames # <<>>
  PROVE  /\ Depth \in Nat /\ Depth > 0
         /\ Top \in Frame /\ InBounds(Top)
         /\ Top.prior + Top.refund >= Owed(orig, cur)
         /\ Top.prior >= Owed(orig, Top.entry)
<1>1. frames \in Seq(Frame) /\ Depth \in Nat /\ Depth > 0
      BY DEF Inv, TypeOK, Depth
<1>2. Top \in Frame
      BY <1>1 DEF Top, Depth
<1>3. InBounds(Top) /\ Top.prior >= Owed(orig, Top.entry)
      BY <1>1 DEF Inv, Stack, Top, Depth
<1> QED BY <1>1, <1>2, <1>3 DEF Inv, RefundsBacked

\* A step that meters the innermost frame and, perhaps, writes storage.
LEMMA Metered ==
  ASSUME Inv, frames # <<>>, NEW f \in Frame, SameFrame(f, Top), InBounds(f), Update(f),
         cur' \in Storage, f.prior + f.refund >= Owed(orig, cur'), tx' = tx, orig' = orig
  PROVE  Inv'
<1>1. frames' = Replaced(frames, f)
      BY DEF Update, Replaced, Depth
<1>2. /\ Stack(frames', orig)
      /\ Len(frames') = Len(frames)
      /\ frames'[Len(frames)] = f
      /\ frames'[1].limit = frames[1].limit
      /\ frames'[1].kind = frames[1].kind
      BY <1>1, ReplaceTop DEF Inv, Top, Depth
<1>3. TypeOK'
      BY <1>2 DEF Inv, TypeOK, Stack
<1>4. RefundsBacked'
      BY <1>2 DEF RefundsBacked, Top, Depth
<1>5. Stack(frames, orig)'
      BY <1>2
<1>6. TxInv'
      BY <1>2 DEF Inv, TxInv
<1>7. ChargedWithinLimit'
      BY DEF Inv, ChargedWithinLimit
<1> QED BY <1>3, <1>4, <1>5, <1>6, <1>7 DEF Inv

\* The burning of all its gas keeps a frame within its limit.
LEMMA BurnFacts ==
  ASSUME NEW f \in Frame, InBounds(f)
  PROVE  /\ Burn(f) \in Frame /\ SameFrame(Burn(f), f)
         /\ InBounds(Burn(f)) /\ Burn(f).refund = f.refund
         /\ Burn(f).used >= f.used
<1>1. f.limit \in Nat /\ f.used \in Nat
      BY DEF Frame
<1>2. Burn(f) \in Frame
      BY <1>1 DEF Burn, Frame
<1>3. /\ Burn(f).used = f.limit /\ Burn(f).limit = f.limit
      /\ Burn(f).refund = f.refund
      BY DEF Burn, Frame
<1>4. SameFrame(Burn(f), f)
      BY DEF Burn, Frame, SameFrame
<1>5. InBounds(Burn(f)) /\ Burn(f).used >= f.used
      BY <1>1, <1>3 DEF InBounds
<1> QED BY <1>2, <1>3, <1>4, <1>5

\* So does Evm::gas, whether it succeeds or fails.
LEMMA ChargeFacts ==
  ASSUME NEW f \in Frame, InBounds(f), NEW c \in Nat
  PROVE  /\ Charge(f, c) \in Frame /\ SameFrame(Charge(f, c), f)
         /\ InBounds(Charge(f, c)) /\ Charge(f, c).refund = f.refund
         /\ Charge(f, c).used >= f.used
<1>1. CASE c > Remaining(f)
      BY <1>1, BurnFacts DEF Charge
<1>2. CASE ~(c > Remaining(f))
  <2> DEFINE g == [f EXCEPT !.used = f.used + c]
  <2>1. f.limit \in Nat /\ f.used \in Nat /\ f.used + c \in Nat
        BY DEF Frame
  <2>2. g \in Frame
        BY <2>1 DEF Frame
  <2>3. g.used = f.used + c /\ g.limit = f.limit /\ g.refund = f.refund
        BY DEF Frame
  <2>4. SameFrame(g, f)
        BY DEF Frame, SameFrame
  <2>5. InBounds(g) /\ g.used >= f.used
        BY <1>2, <2>1, <2>3 DEF InBounds, Remaining
  <2> QED BY <1>2, <2>2, <2>3, <2>4, <2>5 DEF Charge
<1> QED BY <1>1, <1>2

\* Burning the gas of the innermost frame preserves the invariant.
LEMMA Burnt ==
  ASSUME Inv, Running, Update(Burn(Top)), UNCHANGED <<tx, cur, orig>>
  PROVE  Inv'
<1>1. frames # <<>>
      BY DEF Running
<1>2. /\ Burn(Top) \in Frame /\ SameFrame(Burn(Top), Top)
      /\ InBounds(Burn(Top)) /\ Burn(Top).refund = Top.refund
      BY <1>1, TopFacts, BurnFacts
<1>3. Burn(Top).prior + Burn(Top).refund >= Owed(orig, cur')
      BY <1>1, <1>2, TopFacts DEF SameFrame
<1>4. cur' \in Storage
      BY DEF Inv, TypeOK
<1> QED BY <1>1, <1>2, <1>3, <1>4, Metered

LEMMA OpcodeInv == ASSUME Inv, NEW c \in OpCosts, Opcode(c) PROVE Inv'
<1>1. frames # <<>> /\ c \in Nat /\ cur' \in Storage /\ cur' = cur
      BY CostsAssumption DEF Opcode, Running, Inv, TypeOK
<1>2. Top \in Frame /\ InBounds(Top) /\ Top.prior + Top.refund >= Owed(orig, cur)
      BY <1>1, TopFacts
<1>3. /\ Charge(Top, c) \in Frame /\ SameFrame(Charge(Top, c), Top)
      /\ InBounds(Charge(Top, c)) /\ Charge(Top, c).refund = Top.refund
      BY <1>1, <1>2, ChargeFacts
<1>4. Charge(Top, c).prior + Charge(Top, c).refund >= Owed(orig, cur')
      BY <1>1, <1>2, <1>3 DEF SameFrame
<1>5. Update(Charge(Top, c)) /\ tx' = tx /\ orig' = orig
      BY DEF Opcode
<1> QED BY <1>1, <1>3, <1>4, <1>5, Metered

LEMMA FailInv == ASSUME Inv, Fail PROVE Inv'
BY Burnt DEF Fail

LEMMA FinishInv ==
  ASSUME Inv, NEW status \in {"stopped", "reverted"}, NEW c \in OpCosts \cup {0},
         NEW size \in ReturnSizes, Finish(status, c, size)
  PROVE  Inv'
<1> DEFINE e == [Top EXCEPT !.status = status,
                            !.ret = IF Top.kind = "create" THEN size ELSE 0]
           f == Charge(e, c)
<1>1. frames # <<>> /\ c \in Nat /\ size \in Nat /\ cur' \in Storage /\ cur' = cur
      BY CostsAssumption DEF Finish, Running, Inv, TypeOK
<1>2. Top \in Frame /\ InBounds(Top) /\ Top.prior + Top.refund >= Owed(orig, cur)
      BY <1>1, TopFacts
<1>3. e \in Frame /\ InBounds(e) /\ SameFrame(e, Top) /\ e.refund = Top.refund
      BY <1>1, <1>2 DEF Frame, InBounds, SameFrame
<1>4. f \in Frame /\ SameFrame(f, e) /\ InBounds(f) /\ f.refund = e.refund
      BY <1>1, <1>3, ChargeFacts
<1>5. SameFrame(f, Top) /\ f.prior + f.refund >= Owed(orig, cur')
      BY <1>1, <1>2, <1>3, <1>4 DEF SameFrame
<1>6. Update(f) /\ tx' = tx /\ orig' = orig
      BY DEF Finish
<1> HIDE DEF f
<1> QED BY <1>1, <1>4, <1>5, <1>6, Metered

LEMMA SstoreInv ==
  ASSUME Inv, NEW s \in Slot, NEW new \in Words, NEW access \in SlotCosts,
         SSTORE(s, new, access)
  PROVE  Inv'
<1> DEFINE cost   == StoreCost(orig[s], cur[s], new) + access
           refund == StoreRefund(orig[s], cur[s], new)
           f      == [Top EXCEPT !.used = Top.used + cost,
                                 !.refund = Top.refund + refund]
           st     == [cur EXCEPT ![s] = new]
<1>1. frames # <<>> /\ cur \in Storage /\ orig \in Storage /\ access \in Nat
      BY CostsAssumption DEF SSTORE, Running, Inv, TypeOK
<1>2. Top \in Frame /\ InBounds(Top) /\ Top.prior + Top.refund >= Owed(orig, cur)
      BY <1>1, TopFacts
<1>3. CASE Update(Burn(Top)) /\ UNCHANGED cur
      BY <1>3, Burnt DEF SSTORE
<1>4. CASE Remaining(Top) >= cost /\ Update(f) /\ cur' = st
  <2>1. st \in Storage /\ refund \in Int /\ Owed(orig, st) <= Owed(orig, cur) + refund
        BY <1>1, StoreRefundCovers
  <2>2. Owed(orig, cur) \in Nat /\ Owed(orig, st) \in Nat
        BY <1>1, <2>1, OwedType
  <2>3. cost \in Nat
        BY <1>1 DEF StoreCost
  <2>4. Top.used \in Nat /\ Top.limit \in Nat /\ Top.refund \in Int /\ Top.prior \in Int
        BY <1>2 DEF Frame
  <2> HIDE DEF cost, refund, st
  <2>5. f \in Frame
    <3>1. Top.used + cost \in Nat /\ Top.refund + refund \in Int
          BY <2>1, <2>3, <2>4
    <3> QED BY <1>2, <3>1 DEF Frame
  <2>6. f.used = Top.used + cost /\ f.limit = Top.limit
        /\ f.refund = Top.refund + refund /\ SameFrame(f, Top)
        BY <1>2 DEF Frame, SameFrame
  <2>7. InBounds(f)
        BY <1>2, <1>4, <2>3, <2>4, <2>6 DEF InBounds, Remaining
  <2>8. f.prior + f.refund >= Owed(orig, cur')
        BY <1>2, <1>4, <2>1, <2>2, <2>4, <2>6 DEF SameFrame
  <2>9. tx' = tx /\ orig' = orig
        BY DEF SSTORE
  <2> HIDE DEF f
  <2> QED BY <1>1, <1>4, <2>1, <2>5, <2>6, <2>7, <2>8, <2>9, Metered
<1> QED BY <1>3, <1>4 DEF SSTORE

LEMMA CallPrecompileInv ==
  ASSUME Inv, NEW ct \in {"Call", "Delegate", "Static"}, NEW carries \in Carries,
         NEW access \in AccessCosts, NEW c \in PrecompileCosts,
         CallPrecompile(ct, carries, access, c)
  PROVE  Inv'
<1> DEFINE value == IF ct = "Static" THEN FALSE
                    ELSE IF ct = "Delegate" THEN Top.value ELSE carries
           base  == CallCost(ct, value, FALSE, access)
           f     == Charge(Top, c)
           g     == Charge(f, base)
<1>1. /\ frames # <<>> /\ Running /\ access \in Nat \ {0} /\ c \in Nat \cup {-1}
      /\ cur' = cur /\ cur \in Storage /\ tx' = tx /\ orig' = orig
      BY CostsAssumption DEF CallPrecompile, Running, Inv, TypeOK
<1>2. Top \in Frame /\ InBounds(Top) /\ Top.prior + Top.refund >= Owed(orig, cur)
      BY <1>1, TopFacts
<1>3. base \in Nat \ {0}
  <2> HIDE DEF value
  <2>1. Transfers(ct, value) \in BOOLEAN
        BY DEF Transfers
  <2> QED BY <1>1, <2>1 DEF CallCost
<1>4. CASE c \in Nat
  <2>1. f \in Frame /\ SameFrame(f, Top) /\ InBounds(f) /\ f.refund = Top.refund
        BY <1>2, <1>4, ChargeFacts
  <2>2. g \in Frame /\ SameFrame(g, f) /\ InBounds(g) /\ g.refund = f.refund
    <3> HIDE DEF f, base
    <3> QED BY <1>3, <2>1, ChargeFacts
  <2>3. SameFrame(g, Top) /\ g.prior + g.refund >= Owed(orig, cur)
    <3> HIDE DEF f, g
    <3> QED BY <1>2, <2>1, <2>2 DEF SameFrame
  <2>4. Update(Burn(Top)) \/ Update(g)
        BY DEF CallPrecompile
  <2> HIDE DEF g
  <2> QED BY <1>1, <2>2, <2>3, <2>4, Burnt, Metered
\* A cost of -1 makes the call cheaper by one.
<1>5. CASE c = -1
  <2> DEFINE h == Charge(Top, base - 1)
  <2>1. base - 1 \in Nat
    <3> HIDE DEF base
    <3> QED BY <1>3
  <2>2. h \in Frame /\ SameFrame(h, Top) /\ InBounds(h) /\ h.refund = Top.refund
    <3> HIDE DEF base
    <3> QED BY <1>2, <2>1, ChargeFacts
  <2>3. SameFrame(h, Top) /\ h.prior + h.refund >= Owed(orig, cur)
    <3> HIDE DEF h
    <3> QED BY <1>2, <2>2 DEF SameFrame
  <2>4. f = [Top EXCEPT !.used = Top.used - 1]
        BY <1>2, <1>5 DEF Charge, Remaining, InBounds, Frame
  <2>5. ~(base > Remaining(Top)) => g = h
    <3> HIDE DEF base
    <3>1. Top.limit \in Nat /\ Top.used \in Nat
          BY <1>2 DEF Frame
    <3>2. f.used = Top.used - 1 /\ f.limit = Top.limit
          BY <1>2, <2>4 DEF Frame
    <3>3. [f EXCEPT !.used = f.used + base] = [Top EXCEPT !.used = Top.used + (base - 1)]
      <4>1. (Top.used - 1) + base = Top.used + (base - 1)
            BY <1>3, <3>1
      <4> QED BY <1>2, <2>4, <4>1 DEF Frame
    <3>4. ~(base > Remaining(Top)) => ~(base > Remaining(f)) /\ ~(base - 1 > Remaining(Top))
          BY <1>3, <3>1, <3>2 DEF Remaining
    <3> QED BY <3>3, <3>4 DEF Charge
  <2>6. Update(Burn(Top)) \/ Update(h)
        BY <2>5 DEF CallPrecompile
  <2> HIDE DEF h
  <2> QED BY <1>1, <2>2, <2>3, <2>6, Burnt, Metered
<1> QED BY <1>1, <1>4, <1>5

-----------------------------------------------------------------------------
(* Entering and leaving a frame *)

\* A frame that the innermost one can pay for may be entered.
LEMMA Entered ==
  ASSUME Inv, frames # <<>>, NEW f \in Frame, Settles(Top, f), InBounds(f),
         f.refund = 0, f.entry = cur, Enter(f), UNCHANGED <<tx, cur, orig>>
  PROVE  Inv'
<1>1. PICK status \in {"running", "stopped", "reverted"} :
        frames' = Append(frames, [f EXCEPT !.status = status])
      BY DEF Enter
<1> DEFINE g == [f EXCEPT !.status = status]
<1>2. Top \in Frame /\ Top.prior + Top.refund >= Owed(orig, cur)
      BY TopFacts
<1>3. g \in Frame
      BY DEF Frame
<1>4. /\ g.limit = f.limit /\ g.used = f.used /\ g.base = f.base
      /\ g.stipend = f.stipend /\ g.prior = f.prior /\ g.entry = f.entry
      /\ g.refund = f.refund /\ g.kind = f.kind
      BY DEF Frame
<1> HIDE DEF g
<1>5. InBounds(g) /\ Settles(Top, g)
      BY <1>4 DEF InBounds, Settles
<1>6. g.prior = Top.prior + Top.refund /\ g.prior \in Int /\ g.refund = 0 /\ g.entry = cur
      BY <1>3, <1>4 DEF Settles, Frame
<1>7. frames' = Append(frames, g)
      BY <1>1 DEF g
<1>8. /\ Stack(frames', orig)
      /\ Len(frames') = Len(frames) + 1
      /\ frames'[Len(frames) + 1] = g
      /\ frames'[1] = frames[1]
      BY <1>2, <1>3, <1>5, <1>6, <1>7, Push DEF Inv, Top, Depth
<1>9. TypeOK' /\ Stack(frames, orig)'
      BY <1>8 DEF Inv, TypeOK, Stack
<1>10. RefundsBacked'
  <2>1. Top' = g
        BY <1>8 DEF Top, Depth
  <2> QED BY <2>1, <1>2, <1>6 DEF RefundsBacked
<1>11. TxInv' /\ ChargedWithinLimit'
       BY <1>8 DEF Inv, TxInv, ChargedWithinLimit
<1> QED BY <1>9, <1>10, <1>11 DEF Inv

LEMMA CallInv ==
  ASSUME Inv, NEW ct \in {"Call", "Delegate", "Static"}, NEW carries \in Carries,
         NEW empty \in BOOLEAN, NEW access \in AccessCosts, NEW g \in CallGas,
         CALL(ct, carries, empty, access, g)
  PROVE  Inv'
<1> DEFINE value == IF ct = "Static" THEN FALSE
                    ELSE IF ct = "Delegate" THEN Top.value ELSE carries
           base  == CallCost(ct, value, empty, access)
           r     == Remaining(Top) - base
           all   == AllButOne64th(r)
           stip  == Stipend(ct, value)
           lim   == (IF g <= all THEN g ELSE all) + stip
           f     == NewFrame("call", lim, base, stip, value)
<1>1. /\ frames # <<>> /\ Running /\ access \in Nat /\ g \in Nat /\ cur \in Storage
      /\ UNCHANGED <<tx, cur, orig>>
      BY CostsAssumption DEF CALL, Running, Inv, TypeOK
<1>2. Top \in Frame /\ InBounds(Top)
      BY <1>1, TopFacts
<1>3. value \in BOOLEAN
      BY <1>2, CostsAssumption DEF Frame
<1>4. base \in Nat /\ stip \in Nat /\ stip <= base
      BY <1>1 DEF CallCost, Stipend, Transfers
<1>5. CASE base > Remaining(Top) /\ Update(Burn(Top))
      BY <1>1, <1>5, Burnt
<1>6. CASE base <= Remaining(Top) /\ Enter(f)
  <2>1. /\ Top.limit \in Nat /\ Top.used \in Nat /\ Top.prior \in Int /\ Top.refund \in Int
        /\ Top.status = "running"
        BY <1>1, <1>2 DEF Frame, Running
  <2> HIDE DEF value, base, stip
  <2>2. r \in Nat
        BY <1>4, <1>6, <2>1 DEF Remaining
  <2> HIDE DEF r
  <2>3. all \in Nat /\ all = r - r \div 64
        BY <2>2 DEF AllButOne64th
  <2> HIDE DEF all
  <2>4. lim \in Nat /\ lim - stip <= all
        BY <1>1, <1>4, <2>3
  <2> HIDE DEF lim
  <2>5. f \in Frame
        BY <1>1, <1>3, <1>4, <2>1, <2>4 DEF NewFrame, Frame
  <2>6. /\ f.limit = lim /\ f.used = 0 /\ f.base = base /\ f.stipend = stip
        /\ f.refund = 0 /\ f.entry = cur /\ f.prior = Top.prior + Top.refund
        /\ f.kind = "call"
        BY DEF NewFrame
  <2> HIDE DEF f
  <2>7. Settles(Top, f)
    <3>1. Remaining(Top) - f.base = r
          BY <2>6 DEF r
    <3> QED BY <1>4, <2>1, <2>2, <2>3, <2>4, <2>6, <3>1 DEF Settles
  <2>8. InBounds(f)
        BY <2>4, <2>6 DEF InBounds
  <2> QED BY <1>1, <1>6, <2>5, <2>6, <2>7, <2>8, Entered
<1> QED BY <1>5, <1>6 DEF CALL

LEMMA CreateInv ==
  ASSUME Inv, NEW cost \in InitCosts, NEW value \in Carries, CREATE(cost, value)
  PROVE  Inv'
<1> DEFINE base == 32000 + cost
           r    == Remaining(Top) - base
           f    == NewFrame("create", AllButOne64th(r), base, 0, value)
<1>1. /\ frames # <<>> /\ Running /\ base \in Nat /\ cur \in Storage
      /\ cur' = cur /\ orig' = orig /\ value \in BOOLEAN
      BY CostsAssumption DEF CREATE, Running, Inv, TypeOK
<1>2. Top \in Frame /\ InBounds(Top)
      BY <1>1, TopFacts
<1>3. /\ Top.limit \in Nat /\ Top.used \in Nat /\ Top.prior \in Int /\ Top.refund \in Int
      /\ Top.status = "running"
      BY <1>1, <1>2 DEF Frame, Running
<1>4. CASE tx' = [tx EXCEPT !.status = "panicked"] /\ frames' = <<>>
  <2>1. tx' \in [status: {"none", "running", "done", "panicked"}, call: Tx,
                 charged: Nat, gas_use: Nat, reverted: BOOLEAN]
        /\ tx'.status = "panicked" /\ tx'.call = tx.call
        BY <1>4 DEF Inv, TypeOK
  <2>2. TypeOK'
        BY <1>1, <1>4, <2>1 DEF Inv, TypeOK
  <2>3. Stack(frames, orig)'
        BY <1>4 DEF Stack
  <2>4. RefundsBacked' /\ TxInv' /\ ChargedWithinLimit'
        BY <1>4, <2>1 DEF Inv, RefundsBacked, TxInv, ChargedWithinLimit
  <2> QED BY <2>2, <2>3, <2>4 DEF Inv
<1>5. CASE r > 0 /\ Enter(f) /\ tx' = tx
  <2> HIDE DEF base
  <2>1. r \in Nat
        BY <1>1, <1>3, <1>5 DEF Remaining
  <2> HIDE DEF r
  <2>2. AllButOne64th(r) \in Nat /\ AllButOne64th(r) = r - r \div 64
        BY <2>1 DEF AllButOne64th
  <2>3. f \in Frame
        BY <1>1, <1>3, <2>2 DEF NewFrame, Frame
  <2>4. /\ f.limit = AllButOne64th(r) /\ f.used = 0 /\ f.base = base /\ f.stipend = 0
        /\ f.refund = 0 /\ f.entry = cur /\ f.prior = Top.prior + Top.refund
        BY DEF NewFrame
  <2> HIDE DEF f
  <2>5. Settles(Top, f)
    <3>1. Remaining(Top) - f.base = r
          BY <2>4 DEF r
    <3> QED BY <1>1, <1>3, <2>1, <2>2, <2>4, <3>1 DEF Settles
  <2>6. InBounds(f)
        BY <2>2, <2>4 DEF InBounds
  <2> QED BY <1>1, <1>5, <2>3, <2>4, <2>5, <2>6, Entered
<1> QED BY <1>4, <1>5 DEF CREATE

\* What the invariant says of a frame and its caller.
LEMMA CallerFacts ==
  ASSUME Inv, Depth > 1
  PROVE  /\ Depth \in Nat /\ frames # <<>>
         /\ Caller \in Frame /\ InBounds(Caller) /\ Settles(Caller, Top)
         /\ Caller = frames[Len(frames) - 1]
         /\ Top \in Frame /\ InBounds(Top)
         /\ Top.prior + Top.refund >= Owed(orig, cur)
         /\ Top.prior >= Owed(orig, Top.entry)
<1>1. frames \in Seq(Frame) /\ Depth \in Nat
      BY DEF Inv, TypeOK, Depth
<1>2. frames # <<>>
      BY <1>1 DEF Depth
<1>3. Depth - 1 \in 1..Len(frames) /\ Depth - 1 \in 1..(Len(frames) - 1)
      BY <1>1 DEF Depth
<1>4. Caller \in Frame /\ InBounds(Caller)
      BY <1>1, <1>3 DEF Caller, Inv, Stack
<1>5. Settles(Caller, Top)
  <2>1. Settles(frames[Depth - 1], frames[(Depth - 1) + 1])
        BY <1>3 DEF Inv, Stack
  <2>2. (Depth - 1) + 1 = Depth
        BY <1>1
  <2> QED BY <2>1, <2>2 DEF Caller, Top
<1>6. Caller = frames[Len(frames) - 1]
      BY DEF Caller, Depth
<1> QED BY <1>1, <1>2, <1>4, <1>5, <1>6, TopFacts

\* The innermost frame may be left if its caller is metered within its limit and
\* credited no less than is owed.
LEMMA Left ==
  ASSUME Inv, Depth > 1, NEW f \in Frame, SameFrame(f, Caller), InBounds(f), Leave(f),
         cur' \in Storage, f.prior + f.refund >= Owed(orig, cur'), tx' = tx, orig' = orig
  PROVE  Inv'
<1>1. frames' = Dropped(frames, f)
      BY DEF Leave, Dropped, Depth
<1>2. Len(frames) > 1 /\ Caller = frames[Len(frames) - 1] /\ Len(frames) \in Nat
      BY CallerFacts DEF Depth
<1>3. /\ Stack(frames', orig)
      /\ Len(frames') = Len(frames) - 1
      /\ frames'[Len(frames) - 1] = f
      /\ frames'[1].limit = frames[1].limit
      /\ frames'[1].kind = frames[1].kind
      BY <1>1, <1>2, Pop DEF Inv
<1>4. TypeOK' /\ Stack(frames, orig)'
      BY <1>3 DEF Inv, TypeOK, Stack
<1>5. RefundsBacked'
      BY <1>3 DEF RefundsBacked, Top, Depth
<1>6. TxInv' /\ ChargedWithinLimit'
      BY <1>2, <1>3, CallerFacts DEF Inv, TxInv, ChargedWithinLimit
<1> QED BY <1>4, <1>5, <1>6 DEF Inv

\* What a caller is after a return: still running, with gas g used by the call
\* beyond its base cost, which is no more than the call could be forwarded.
LEMMA Settled ==
  ASSUME Inv, Depth > 1, NEW g \in Int, NEW refund \in Int, 0 <= Top.base + g,
         g <= Top.limit - Top.stipend, NEW f,
         f = [Caller EXCEPT !.used = Caller.used + Top.base + g,
                            !.refund = Caller.refund + refund]
  PROVE  /\ f \in Frame /\ SameFrame(f, Caller) /\ InBounds(f)
         /\ f.status = "running"
         /\ f.used >= Caller.used
         /\ f.refund = Caller.refund + refund
         /\ Remaining(f) >= (Remaining(Caller) - Top.base) \div 64
<1> DEFINE r == Remaining(Caller) - Top.base
<1>1. Caller \in Frame /\ InBounds(Caller) /\ Settles(Caller, Top) /\ Top \in Frame
      BY CallerFacts
<1>2. /\ Caller.limit \in Nat /\ Caller.used \in Nat /\ Caller.refund \in Int
      /\ Top.base \in Nat /\ Top.limit \in Nat /\ Top.stipend \in Nat
      BY <1>1 DEF Frame
<1>3. r \in Nat /\ r = Caller.limit - Caller.used - Top.base
      BY <1>1, <1>2 DEF Settles, Remaining
<1>4. r \div 64 \in Nat /\ g <= r - r \div 64
  <2>1. Top.limit - Top.stipend <= r - r \div 64
        BY <1>1 DEF Settles
  <2> HIDE DEF r
  <2>2. r \div 64 \in Nat
        BY <1>3
  <2> QED BY <1>2, <1>3, <2>1, <2>2
<1>5. /\ f.used = Caller.used + Top.base + g /\ f.limit = Caller.limit
      /\ f.refund = Caller.refund + refund /\ f.status = Caller.status
      /\ SameFrame(f, Caller)
      BY <1>1 DEF Frame, SameFrame
<1>6. Caller.used + Top.base + g \in Nat /\ Caller.refund + refund \in Int
      BY <1>2
<1>7. f \in Frame
      BY <1>1, <1>6 DEF Frame
<1>8. InBounds(f) /\ f.used >= Caller.used /\ Remaining(f) >= r \div 64
  <2> HIDE DEF r
  <2> QED BY <1>2, <1>3, <1>4, <1>5 DEF InBounds, Remaining
<1>9. f.status = "running"
      BY <1>1, <1>5 DEF Settles
<1> QED BY <1>5, <1>7, <1>8, <1>9

\* A call that ends is settled: the loop's charge for it always succeeds.
LEMMA ReturnCallSettles ==
  ASSUME Inv, Depth > 1
  PROVE  LET refund == IF Top.status = "reverted" THEN 0 ELSE Top.refund
             back   == [Caller EXCEPT !.used = Caller.used + Top.used - Top.stipend,
                                      !.refund = Caller.refund + refund]
             f      == Charge(back, Top.base)
         IN  /\ f \in Frame /\ SameFrame(f, Caller) /\ InBounds(f)
             /\ f.status = "running"
             /\ f.used = Caller.used + Top.base + Top.used - Top.stipend
             /\ f.used >= Caller.used
             /\ f.refund = Caller.refund + refund
             /\ Remaining(f) >= (Remaining(Caller) - Top.base) \div 64
<1> DEFINE refund == IF Top.status = "reverted" THEN 0 ELSE Top.refund
           back   == [Caller EXCEPT !.used = Caller.used + Top.used - Top.stipend,
                                    !.refund = Caller.refund + refund]
           g      == Top.used - Top.stipend
           f      == [Caller EXCEPT !.used = Caller.used + Top.base + g,
                                    !.refund = Caller.refund + refund]
<1>1. Caller \in Frame /\ Settles(Caller, Top) /\ Top \in Frame /\ InBounds(Top)
      BY CallerFacts
<1>2. /\ Caller.limit \in Nat /\ Caller.used \in Nat /\ Caller.refund \in Int
      /\ Top.base \in Nat /\ Top.limit \in Nat /\ Top.stipend \in Nat /\ Top.used \in Nat
      /\ Top.refund \in Int
      BY <1>1 DEF Frame
<1>3. refund \in Int /\ g \in Int /\ 0 <= Top.base + g /\ g <= Top.limit - Top.stipend
      BY <1>1, <1>2 DEF Settles, InBounds
<1>4. /\ f \in Frame /\ SameFrame(f, Caller) /\ InBounds(f)
      /\ f.status = "running"
      /\ f.used >= Caller.used
      /\ f.refund = Caller.refund + refund
      /\ Remaining(f) >= (Remaining(Caller) - Top.base) \div 64
  <2> HIDE DEF g, refund
  <2> QED BY <1>3, Settled
<1>5. f.used = Caller.used + Top.base + g /\ f.limit = Caller.limit
      BY <1>1 DEF Frame
<1>6. back.used = Caller.used + Top.used - Top.stipend /\ back.limit = Caller.limit
      BY <1>1 DEF Frame
<1>7. ~(Top.base > Remaining(back))
  <2>1. f.used <= Caller.limit
        BY <1>4, <1>5 DEF InBounds
  <2> HIDE DEF f, back
  <2> QED BY <1>2, <1>5, <1>6, <2>1 DEF Remaining
<1>8. Charge(back, Top.base) = f
  <2>1. Charge(back, Top.base) = [back EXCEPT !.used = back.used + Top.base]
        BY <1>7 DEF Charge
  <2>2. back.used + Top.base = Caller.used + Top.base + g
        BY <1>2, <1>6
  <2>3. [back EXCEPT !.used = Caller.used + Top.base + g] = f
    <3> HIDE DEF g, refund
    <3> QED BY <1>1 DEF Frame
  <2> HIDE DEF back, f
  <2> QED BY <2>1, <2>2, <2>3
<1>9. f.used = Caller.used + Top.base + Top.used - Top.stipend
      BY <1>2, <1>5
<1> HIDE DEF f
<1> QED BY <1>4, <1>8, <1>9

LEMMA ReturnCallInv == ASSUME Inv, ReturnCall PROVE Inv'
<1> DEFINE refund == IF Top.status = "reverted" THEN 0 ELSE Top.refund
           back   == [Caller EXCEPT !.used = Caller.used + Top.used - Top.stipend,
                                    !.refund = Caller.refund + refund]
           f      == Charge(back, Top.base)
<1>1. /\ Depth > 1 /\ Leave(f) /\ tx' = tx /\ orig' = orig
      /\ cur' = IF Top.status = "reverted" THEN Top.entry ELSE cur
      BY DEF ReturnCall, Ended
<1>2. f \in Frame /\ SameFrame(f, Caller) /\ InBounds(f) /\ f.refund = Caller.refund + refund
      BY <1>1, ReturnCallSettles
<1>3. /\ Caller \in Frame /\ Top \in Frame /\ Settles(Caller, Top)
      /\ Top.prior + Top.refund >= Owed(orig, cur)
      /\ Top.prior >= Owed(orig, Top.entry)
      BY <1>1, CallerFacts
<1>4. Top.entry \in Storage /\ cur \in Storage /\ orig \in Storage /\ cur' \in Storage
      BY <1>1, <1>3 DEF Frame, Inv, TypeOK
<1>5. /\ Caller.prior \in Int /\ Caller.refund \in Int /\ Top.refund \in Int
      /\ Top.prior = Caller.prior + Caller.refund
      BY <1>3 DEF Frame, Settles
<1> HIDE DEF f
<1>6. f.prior + f.refund = Top.prior + refund
      BY <1>2, <1>5 DEF SameFrame
<1>7. f.prior + f.refund >= Owed(orig, cur')
      BY <1>1, <1>3, <1>4, <1>5, <1>6, OwedType
<1> QED BY <1>1, <1>2, <1>4, <1>7, Left

\* A creation that ends is settled, whether the deposit can be paid or not.
LEMMA ReturnCreateSettles ==
  ASSUME Inv, Ended("create")
  PROVE  LET deposit == IF Top.status = "reverted" THEN 0 ELSE 200 * Top.ret
             broke   == Top.limit < Top.used + deposit
             undone  == broke \/ Top.status = "reverted"
             spent   == IF broke THEN Top.limit ELSE deposit + Top.used
             refund  == IF undone THEN 0 ELSE Top.refund
             f       == [Caller EXCEPT !.used = Caller.used + Top.base + spent,
                                       !.refund = Caller.refund + refund]
         IN  /\ f \in Frame /\ SameFrame(f, Caller) /\ InBounds(f)
             /\ f.status = "running"
             /\ f.used >= Caller.used
             /\ f.refund = Caller.refund + refund
             /\ Remaining(f) >= (Remaining(Caller) - Top.base) \div 64
<1> DEFINE deposit == IF Top.status = "reverted" THEN 0 ELSE 200 * Top.ret
           broke   == Top.limit < Top.used + deposit
           undone  == broke \/ Top.status = "reverted"
           spent   == IF broke THEN Top.limit ELSE deposit + Top.used
           refund  == IF undone THEN 0 ELSE Top.refund
           f       == [Caller EXCEPT !.used = Caller.used + Top.base + spent,
                                     !.refund = Caller.refund + refund]
<1>1. Depth > 1 /\ Top \in Frame /\ Top.stipend = 0
      BY CallerFacts DEF Ended, Settles
<1>2. /\ Top.base \in Nat /\ Top.limit \in Nat /\ Top.used \in Nat
      /\ Top.refund \in Int /\ Top.ret \in Nat
      BY <1>1 DEF Frame
<1>3. deposit \in Nat
      BY <1>2
<1>4. spent \in Int /\ 0 <= Top.base + spent /\ spent <= Top.limit - Top.stipend
  <2> HIDE DEF deposit
  <2> QED BY <1>1, <1>2, <1>3
<1>5. refund \in Int
      BY <1>2
<1>6. /\ f \in Frame /\ SameFrame(f, Caller) /\ InBounds(f)
      /\ f.status = "running"
      /\ f.used >= Caller.used
      /\ f.refund = Caller.refund + refund
      /\ Remaining(f) >= (Remaining(Caller) - Top.base) \div 64
  <2> HIDE DEF spent, refund
  <2> QED BY <1>1, <1>4, <1>5, Settled
<1> QED BY <1>6
LEMMA ReturnCreateInv == ASSUME Inv, ReturnCreate PROVE Inv'
<1> DEFINE deposit == IF Top.status = "reverted" THEN 0 ELSE 200 * Top.ret
           broke   == Top.limit < Top.used + deposit
           undone  == broke \/ Top.status = "reverted"
           spent   == IF broke THEN Top.limit ELSE deposit + Top.used
           refund  == IF undone THEN 0 ELSE Top.refund
           f       == [Caller EXCEPT !.used = Caller.used + Top.base + spent,
                                     !.refund = Caller.refund + refund]
<1>1. /\ Ended("create") /\ Depth > 1 /\ Leave(f) /\ tx' = tx /\ orig' = orig
      /\ cur' = IF undone THEN Top.entry ELSE cur
      BY DEF ReturnCreate, Ended
<1>2. f \in Frame /\ SameFrame(f, Caller) /\ InBounds(f) /\ f.refund = Caller.refund + refund
      BY <1>1, ReturnCreateSettles
<1>3. /\ Caller \in Frame /\ Top \in Frame /\ Settles(Caller, Top)
      /\ Top.prior + Top.refund >= Owed(orig, cur)
      /\ Top.prior >= Owed(orig, Top.entry)
      BY <1>1, CallerFacts
<1>4. Top.entry \in Storage /\ cur \in Storage /\ orig \in Storage /\ cur' \in Storage
      BY <1>1, <1>3 DEF Frame, Inv, TypeOK
<1>5. /\ Caller.prior \in Int /\ Caller.refund \in Int /\ Top.refund \in Int
      /\ Top.prior = Caller.prior + Caller.refund
      BY <1>3 DEF Frame, Settles
<1> HIDE DEF f, undone
<1>6. f.prior + f.refund = Top.prior + refund
      BY <1>2, <1>5 DEF SameFrame
<1>7. f.prior + f.refund >= Owed(orig, cur')
      BY <1>1, <1>3, <1>4, <1>5, <1>6, OwedType
<1> QED BY <1>1, <1>2, <1>4, <1>7, Left

-----------------------------------------------------------------------------
(* Transactions *)

\* A transaction offers what it must.
LEMMA MakeCallFacts ==
  ASSUME NEW kind \in {"call", "create"}, NEW data \in Nat \X Nat, NEW access \in Nat,
         NEW value \in BOOLEAN, NEW spare \in Nat
  PROVE  LET t == MakeCall(kind, data, access, value, spare)
         IN  /\ t \in Tx /\ t.kind = kind
             /\ t.gas - Upfront(t) \in Nat
             /\ t.gas >= Upfront(t) /\ t.gas >= GasFloor(t)
<1> DEFINE t0 == [kind |-> kind, gas |-> 0, zeros |-> data[1], nonzeros |-> data[2],
                  access |-> access, value |-> value]
           t  == MakeCall(kind, data, access, value, spare)
           g  == AtLeast(Upfront(t0), GasFloor(t0)) + spare
<1>1. data[1] \in Nat /\ data[2] \in Nat
      OBVIOUS
<1>2. Upfront(t0) \in Nat /\ GasFloor(t0) \in Nat
      BY <1>1 DEF Upfront, GasFloor, DataCost, InitCodeCost
<1>3. g \in Nat /\ g >= Upfront(t0) /\ g >= GasFloor(t0)
  <2> HIDE DEF t0
  <2> QED BY <1>1, <1>2 DEF AtLeast
<1>4. t = [t0 EXCEPT !.gas = g]
      BY DEF MakeCall
<1> HIDE DEF g
<1>5. t = [kind |-> kind, gas |-> g, zeros |-> data[1], nonzeros |-> data[2],
           access |-> access, value |-> value]
      BY <1>4
<1>6. t \in Tx /\ t.gas = g /\ t.kind = kind
      BY <1>1, <1>3, <1>5 DEF Tx
<1>7. Upfront(t) = Upfront(t0) /\ GasFloor(t) = GasFloor(t0)
      BY <1>5 DEF Upfront, GasFloor, DataCost, InitCodeCost
<1>8. t.gas - Upfront(t) \in Nat /\ t.gas >= Upfront(t) /\ t.gas >= GasFloor(t)
  <2> HIDE DEF t0, t
  <2> QED BY <1>2, <1>3, <1>6, <1>7
<1> HIDE DEF t0
<1> QED BY <1>6, <1>8

LEMMA BeginTxInv ==
  ASSUME Inv, NEW kind \in Kinds, NEW data \in Calldata, NEW access \in AccessListCosts,
         NEW value \in Carries, NEW spare \in SpareGas,
         BeginTx(kind, data, access, value, spare)
  PROVE  Inv'
<1> DEFINE t == MakeCall(kind, data, access, value, spare)
<1>40. value \in BOOLEAN /\ kind \in {"call", "create"}
      BY CostsAssumption, KindsAssumption
<1>41. /\ t \in Tx /\ t.kind = kind
      /\ t.gas >= Upfront(t) /\ t.gas >= GasFloor(t)
      /\ t.gas - Upfront(t) \in Nat
      BY <1>40, CostsAssumption, MakeCallFacts
<1> HIDE DEF t
<1>31. cur' = cur /\ orig' = cur /\ cur \in Storage
      BY DEF BeginTx, Inv, TypeOK
<1>4. PICK status \in {"running", "stopped"} :
        frames' = << [ kind |-> kind, status |-> status,
                       limit |-> t.gas - Upfront(t), used |-> 0, refund |-> 0,
                       base |-> 0, stipend |-> 0, value |-> value,
                       ret |-> 0, entry |-> cur, prior |-> 0 ] >>
      BY DEF BeginTx, t
<1> DEFINE f == [ kind |-> kind, status |-> status,
                  limit |-> t.gas - Upfront(t), used |-> 0, refund |-> 0,
                  base |-> 0, stipend |-> 0, value |-> value,
                  ret |-> 0, entry |-> cur, prior |-> 0 ]
<1>5. f \in Frame
      BY <1>40, <1>41, <1>31 DEF Frame
<1>6. /\ f.used = 0 /\ f.limit = t.gas - Upfront(t) /\ f.prior = 0 /\ f.refund = 0
       /\ f.entry = cur /\ f.kind = kind /\ f.base = 0 /\ f.stipend = 0
      OBVIOUS
<1>7. frames' = <<f>>
      BY <1>4
<1> HIDE DEF f
<1>8. /\ frames' \in Seq(Frame) /\ Len(frames') = 1 /\ frames'[1] = f
      BY <1>5, <1>7
<1>9. /\ tx'.status = "running" /\ tx'.call = t
       /\ tx' \in [status: {"none", "running", "done", "panicked"}, call: Tx,
                   charged: Nat, gas_use: Nat, reverted: BOOLEAN]
      BY <1>41 DEF BeginTx, t
<1>10. TypeOK'
      BY <1>31, <1>8, <1>9 DEF TypeOK
<1>11. Owed(cur, cur) = 0
      BY <1>31, OwedAtStart
<1>12. Stack(frames, orig)'
      BY <1>41, <1>31, <1>6, <1>8, <1>11 DEF Stack, InBounds
<1>13. RefundsBacked'
      BY <1>31, <1>6, <1>8, <1>11 DEF RefundsBacked, Top, Depth
<1>14. TxInv'
      BY <1>41, <1>6, <1>8, <1>9 DEF TxInv
<1>15. ChargedWithinLimit'
      BY <1>9 DEF ChargedWithinLimit
<1> QED BY <1>10, <1>12, <1>13, <1>14, <1>15 DEF Inv

\* Gas::finalized charges between nothing and the gas used and the cost, unless
\* the refund counter is negative.
LEMMA FinalizedFacts ==
  ASSUME NEW f \in Frame, NEW cost \in Nat, f.status = "reverted" \/ f.refund >= 0
  PROVE  Finalized(f, cost) \in Nat /\ Finalized(f, cost) <= f.used + cost
<1> DEFINE used == f.used + cost
<1>40. f.used \in Nat /\ f.refund \in Int /\ used \in Nat
      BY DEF Frame
<1> HIDE DEF used
<1>41. used \div 5 \in Nat /\ used \div 5 <= used
      BY <1>40
<1>42. Finalized(f, cost) \in Nat /\ Finalized(f, cost) <= used
      BY <1>40, <1>41 DEF Finalized, used
<1> QED BY <1>42 DEF used

\* The end of a transaction that is charged and reported these amounts.
LEMMA Settlement ==
  ASSUME Inv, NEW final \in Nat, NEW use \in Nat, NEW rev \in BOOLEAN,
         tx' = [tx EXCEPT !.status = "done", !.charged = final, !.gas_use = use,
                          !.reverted = rev],
         frames' = <<>>, cur' \in Storage, orig' = orig,
         ~(tx.call.kind = "create" /\ rev) =>
           /\ final <= tx.call.gas
           /\ tx.call.kind = "call" => final >= GasFloor(tx.call)
  PROVE  Inv'
<1>40. /\ tx'.status = "done" /\ tx'.call = tx.call /\ tx'.charged = final
      /\ tx'.reverted = rev
      /\ tx' \in [status: {"none", "running", "done", "panicked"}, call: Tx,
                  charged: Nat, gas_use: Nat, reverted: BOOLEAN]
      BY DEF Inv, TypeOK
<1>41. TypeOK' /\ Stack(frames, orig)'
      BY <1>40 DEF Inv, TypeOK, Stack
<1>42. RefundsBacked' /\ TxInv'
      BY <1>40 DEF Inv, RefundsBacked, TxInv
<1>43. ChargedWithinLimit'
      BY <1>40 DEF ChargedWithinLimit
<1> QED BY <1>41, <1>42, <1>43 DEF Inv

\* At the end of a transaction the refund counter is not negative, and the gas
\* used and the cost charged up front are at most the gas offered.
LEMMA LastFrame ==
  ASSUME Inv, Depth = 1
  PROVE  /\ Top \in Frame /\ Top.refund >= 0
         /\ tx.call \in Tx /\ Upfront(tx.call) \in Nat /\ GasFloor(tx.call) \in Nat
         /\ tx.call.gas \in Nat /\ tx.call.gas >= GasFloor(tx.call)
         /\ Top.limit = tx.call.gas - Upfront(tx.call)
         /\ Top.used <= Top.limit
         /\ Top.kind = tx.call.kind
         /\ cur \in Storage /\ Top.entry \in Storage
<1>40. frames # <<>> /\ frames[1] = Top
      BY DEF Depth, Top
<1>41. /\ Top \in Frame /\ InBounds(Top) /\ Top.prior + Top.refund >= Owed(orig, cur)
      /\ Top.prior = 0
      BY <1>40, TopFacts DEF Inv, Stack
<1>42. cur \in Storage /\ orig \in Storage /\ Owed(orig, cur) \in Nat
      BY OwedType DEF Inv, TypeOK
<1>43. Top.refund \in Int /\ Top.entry \in Storage
      BY <1>41 DEF Frame
<1>44. Top.refund >= 0
      BY <1>41, <1>42, <1>43
<1>45. tx.call \in Tx
      BY DEF Inv, TypeOK
<1>46. /\ tx.call.gas \in Nat /\ tx.call.zeros \in Nat /\ tx.call.nonzeros \in Nat
      /\ tx.call.access \in Nat
      BY <1>45 DEF Tx
<1>47. Upfront(tx.call) \in Nat /\ GasFloor(tx.call) \in Nat
      BY <1>46 DEF Upfront, GasFloor, DataCost, InitCodeCost
<1>31. /\ tx.call.gas >= GasFloor(tx.call)
      /\ Top.limit = tx.call.gas - Upfront(tx.call)
      /\ Top.kind = tx.call.kind
      BY <1>40 DEF Inv, TxInv
<1> QED BY <1>41, <1>42, <1>43, <1>44, <1>45, <1>46, <1>47, <1>31 DEF InBounds

LEMMA EndCallInv == ASSUME Inv, EndCall PROVE Inv'
<1> DEFINE final == Finalized(Top, Upfront(tx.call))
           floor == GasFloor(tx.call)
           paid  == AtLeast(final, floor)
           rev   == Top.status = "reverted"
<1>40. Depth = 1 /\ frames' = <<>> /\ orig' = orig
      BY DEF EndCall
<1>41. /\ Top \in Frame /\ Top.refund >= 0 /\ Upfront(tx.call) \in Nat /\ floor \in Nat
      /\ tx.call.gas \in Nat /\ tx.call.gas >= floor
      /\ Top.limit = tx.call.gas - Upfront(tx.call) /\ Top.used <= Top.limit
      BY <1>40, LastFrame
<1>42. final \in Nat /\ final <= Top.used + Upfront(tx.call)
      BY <1>41, FinalizedFacts
<1>43. final <= tx.call.gas
  <2>1. Top.used \in Nat
        BY <1>41 DEF Frame
  <2> HIDE DEF final
  <2> QED BY <1>41, <1>42, <2>1
<1>44. paid \in Nat /\ paid <= tx.call.gas /\ paid >= floor
  <2> HIDE DEF final, floor
  <2> QED BY <1>41, <1>42, <1>43 DEF AtLeast
<1>45. cur' \in Storage
      BY <1>40, LastFrame DEF EndCall
<1>46. tx' = [tx EXCEPT !.status = "done", !.charged = paid, !.gas_use = final,
                       !.reverted = rev]
      BY DEF EndCall
<1>47. rev \in BOOLEAN
      OBVIOUS
<1> HIDE DEF paid, final, rev
<1> QED BY <1>40, <1>42, <1>44, <1>45, <1>46, <1>47, Settlement

LEMMA EndCreateInv == ASSUME Inv, EndCreate PROVE Inv'
<1> DEFINE deposit == 200 * Top.ret
           broke   == Top.status # "reverted" /\ Remaining(Top) < deposit
           charge  == Finalized(Top, Upfront(tx.call) + deposit)
           final   == IF broke THEN tx.call.gas ELSE charge
           undone  == broke \/ Top.status = "reverted"
<1>40. Depth = 1 /\ frames' = <<>> /\ orig' = orig
      BY DEF EndCreate
<1>41. /\ Top \in Frame /\ Top.refund >= 0 /\ Upfront(tx.call) \in Nat
      /\ tx.call.gas \in Nat /\ Top.kind = tx.call.kind /\ Top.kind = "create"
      /\ Top.limit = tx.call.gas - Upfront(tx.call) /\ Top.used <= Top.limit
      BY <1>40, LastFrame DEF EndCreate
<1>42. Top.used \in Nat /\ Top.limit \in Nat /\ deposit \in Nat
      BY <1>41 DEF Frame
<1>43. charge \in Nat /\ charge <= Top.used + (Upfront(tx.call) + deposit)
  <2> HIDE DEF deposit
  <2>1. Upfront(tx.call) + deposit \in Nat
        BY <1>41, <1>42
  <2> QED BY <1>41, <2>1, FinalizedFacts
<1>44. final \in Nat /\ (~undone => final <= tx.call.gas)
  <2> HIDE DEF deposit, charge
  <2> QED BY <1>41, <1>42, <1>43 DEF Remaining
<1>45. cur' \in Storage
      BY <1>40, LastFrame DEF EndCreate
<1>46. tx' = [tx EXCEPT !.status = "done", !.charged = final, !.gas_use = final,
                       !.reverted = undone]
      BY DEF EndCreate
<1>47. undone \in BOOLEAN
      OBVIOUS
<1> HIDE DEF final, undone
<1> QED BY <1>40, <1>41, <1>44, <1>45, <1>46, <1>47, Settlement

-----------------------------------------------------------------------------
(* The theorems *)

LEMMA InitInv == Init => Inv
<1> SUFFICES ASSUME Init PROVE Inv
    OBVIOUS
<1> DEFINE t == MakeCall("call", <<0, 0>>, 0, FALSE, 0)
<1>1. <<0, 0>> \in Nat \X Nat
      OBVIOUS
<1>2. t \in Tx /\ t.gas >= Upfront(t) /\ t.gas >= GasFloor(t)
      BY <1>1, MakeCallFacts
<1>3. tx = [status |-> "none", call |-> t, charged |-> 0, gas_use |-> 0, reverted |-> FALSE]
      BY DEF Init
<1>4. cur \in Storage /\ orig \in Storage /\ frames = <<>>
      BY DEF Init
<1> HIDE DEF t
<1>5. TypeOK
      BY <1>2, <1>3, <1>4 DEF TypeOK
<1>6. Stack(frames, orig) /\ RefundsBacked
      BY <1>4 DEF Stack, RefundsBacked
<1>7. TxInv /\ ChargedWithinLimit
      BY <1>2, <1>3, <1>4 DEF TxInv, ChargedWithinLimit
<1> QED BY <1>5, <1>6, <1>7 DEF Inv

LEMMA NextInv == Inv /\ [Next]_vars => Inv'
<1> SUFFICES ASSUME Inv, [Next]_vars PROVE Inv'
    OBVIOUS
<1>1. ASSUME NEW c \in OpCosts, Opcode(c) PROVE Inv'
      BY <1>1, OpcodeInv
<1>2. CASE Fail
      BY <1>2, FailInv
<1>3. ASSUME NEW status \in {"stopped", "reverted"}, NEW c \in OpCosts \cup {0},
             NEW size \in ReturnSizes, Finish(status, c, size) PROVE Inv'
      BY <1>3, FinishInv
<1>4. ASSUME NEW s \in Slot, NEW new \in Words, NEW access \in SlotCosts,
             SSTORE(s, new, access) PROVE Inv'
      BY <1>4, SstoreInv
<1>5. ASSUME NEW ct \in {"Call", "Delegate", "Static"}, NEW carries \in Carries,
             NEW empty \in BOOLEAN, NEW access \in AccessCosts, NEW g \in CallGas,
             CALL(ct, carries, empty, access, g) PROVE Inv'
      BY <1>5, CallInv
<1>6. ASSUME NEW ct \in {"Call", "Delegate", "Static"}, NEW carries \in Carries,
             NEW access \in AccessCosts, NEW c \in PrecompileCosts,
             CallPrecompile(ct, carries, access, c) PROVE Inv'
      BY <1>6, CallPrecompileInv
<1>7. CASE ReturnCall
      BY <1>7, ReturnCallInv
<1>8. ASSUME NEW cost \in InitCosts, NEW value \in Carries, CREATE(cost, value) PROVE Inv'
      BY <1>8, CreateInv
<1>9. CASE ReturnCreate
      BY <1>9, ReturnCreateInv
<1>10. CASE EndCall
      BY <1>10, EndCallInv
<1>11. CASE EndCreate
      BY <1>11, EndCreateInv
<1>12. ASSUME NEW kind \in Kinds, NEW data \in Calldata, NEW access \in AccessListCosts,
              NEW value \in Carries, NEW spare \in SpareGas,
              BeginTx(kind, data, access, value, spare) PROVE Inv'
      BY <1>12, BeginTxInv
<1>13. CASE UNCHANGED vars
      BY <1>13 DEF vars, Inv, TypeOK, RefundsBacked, TxInv, ChargedWithinLimit, Top, Depth
<1>14. CASE Aborted
      BY <1>13, <1>14 DEF Aborted
<1>15. CASE Step
      BY <1>1, <1>2, <1>3, <1>4, <1>5, <1>6, <1>7, <1>8, <1>9, <1>10, <1>11, <1>15 DEF Step
<1> QED BY <1>12, <1>13, <1>14, <1>15 DEF Next

\* Inv is an invariant of the metering of any program.
THEOREM GasInvariance == Spec => []Inv
BY InitInv, NextInv, PTL DEF Spec

\* The gas state is well typed: no gas amount is ever negative.
THEOREM GasTypeCorrect == Spec => []TypeOK
<1>1. Inv => TypeOK
      BY DEF Inv
<1> QED BY <1>1, GasInvariance, PTL

\* No frame of any program uses more gas than Executor::call gave it, nor less than
\* none.
THEOREM GasAlwaysBounded == Spec => []GasBounded
<1>1. Inv => GasBounded
      BY DEF Inv, Stack, GasBounded, InBounds
<1> QED BY <1>1, GasInvariance, PTL

\* The refunds SSTORE has granted always cover the slots that are clear, whatever
\* calls and creations were reverted in between.
THEOREM RefundsAlwaysBacked == Spec => []RefundsBacked
<1>1. Inv => RefundsBacked
      BY DEF Inv
<1> QED BY <1>1, GasInvariance, PTL

\* Executor::execute never charges a call, nor Runner::apply a creation that
\* deploys, for more gas than it offered.
THEOREM AlwaysChargedWithinLimit == Spec => []ChargedWithinLimit
<1>1. Inv => ChargedWithinLimit
      BY DEF Inv
<1> QED BY <1>1, GasInvariance, PTL

\* Every step of the metering that drops a frame settles it.
LEMMA SettleStepHolds == Inv /\ [Next]_vars => SettleStep
<1> SUFFICES ASSUME Inv, [Next]_vars, Depth > 1, Len(frames') = Depth - 1
             PROVE  /\ frames'[Depth - 1].status = "running"
                    /\ frames'[Depth - 1].used >= Caller.used
                    /\ Remaining(frames'[Depth - 1]) >= (Remaining(Caller) - Top.base) \div 64
    BY DEF SettleStep
<1>1. frames \in Seq(Frame) /\ Depth \in Nat /\ frames # <<>> /\ tx.status = "running"
      BY CallerFacts DEF Inv, TypeOK, TxInv
<1>2. ASSUME NEW f, Update(f) PROVE FALSE
  <2>1. Len(frames') = Len(frames)
        BY <1>1, <1>2 DEF Update
  <2> QED BY <1>1, <2>1 DEF Depth
<1>3. ASSUME NEW f, Enter(f) PROVE FALSE
  <2>1. PICK g : frames' = Append(frames, g)
        BY <1>3 DEF Enter
  <2>2. Len(frames') = Len(frames) + 1
        BY <1>1, <2>1
  <2> QED BY <1>1, <2>2 DEF Depth
<1>4. frames' # <<>>
      BY <1>1
<1>5. ~(UNCHANGED vars) /\ ~Aborted
      BY <1>1 DEF vars, Aborted, Depth
<1>6. \A kind, data, access, value, spare : ~BeginTx(kind, data, access, value, spare)
      BY <1>1 DEF BeginTx
<1>7. ~EndCall /\ ~EndCreate
      BY <1>4 DEF EndCall, EndCreate
<1>8. \A c : ~Opcode(c)
      BY <1>2 DEF Opcode
<1>9. ~Fail
      BY <1>2 DEF Fail
<1>10. \A status, c, size : ~Finish(status, c, size)
      BY <1>2 DEF Finish
<1>11. \A s, new, access : ~SSTORE(s, new, access)
      BY <1>2 DEF SSTORE
<1>12. ASSUME NEW ct, NEW carries, NEW empty, NEW access, NEW g,
              CALL(ct, carries, empty, access, g)
       PROVE  FALSE
  <2>1. Update(Burn(Top)) \/ \E f : Enter(f)
        BY <1>12 DEF CALL
  <2> QED BY <1>2, <1>3, <2>1
<1>13. \A ct, carries, access, c : ~CallPrecompile(ct, carries, access, c)
      BY <1>2 DEF CallPrecompile
<1>14. \A cost, value : ~CREATE(cost, value)
      BY <1>3, <1>4 DEF CREATE
<1>15. ReturnCall \/ ReturnCreate
  <2>1. Step
        BY <1>5, <1>6 DEF Next
  <2> QED BY <2>1, <1>7, <1>8, <1>9, <1>10, <1>11, <1>12, <1>13, <1>14 DEF Step
<1>16. ASSUME NEW f, Leave(f) PROVE frames'[Depth - 1] = f
      BY <1>1, <1>16 DEF Leave
<1>17. CASE ReturnCall
  <2> DEFINE refund == IF Top.status = "reverted" THEN 0 ELSE Top.refund
             back   == [Caller EXCEPT !.used = Caller.used + Top.used - Top.stipend,
                                      !.refund = Caller.refund + refund]
             f      == Charge(back, Top.base)
  <2>1. Leave(f)
        BY <1>17 DEF ReturnCall
  <2>2. /\ f.status = "running" /\ f.used >= Caller.used
        /\ Remaining(f) >= (Remaining(Caller) - Top.base) \div 64
        BY ReturnCallSettles
  <2> HIDE DEF f
  <2> QED BY <1>16, <2>1, <2>2
<1>18. CASE ReturnCreate
  <2> DEFINE deposit == IF Top.status = "reverted" THEN 0 ELSE 200 * Top.ret
             broke   == Top.limit < Top.used + deposit
             undone  == broke \/ Top.status = "reverted"
             spent   == IF broke THEN Top.limit ELSE deposit + Top.used
             f       == [Caller EXCEPT !.used = Caller.used + Top.base + spent,
                                       !.refund = Caller.refund
                                                    + (IF undone THEN 0 ELSE Top.refund)]
  <2>1. Ended("create") /\ Leave(f)
        BY <1>18 DEF ReturnCreate
  <2>2. /\ f.status = "running" /\ f.used >= Caller.used
        /\ Remaining(f) >= (Remaining(Caller) - Top.base) \div 64
        BY <2>1, ReturnCreateSettles
  <2> HIDE DEF f
  <2> QED BY <1>16, <2>1, <2>2
<1> QED BY <1>15, <1>17, <1>18

\* A caller always survives what it calls or creates, and keeps a 64th of what it
\* could have forwarded (the all-but-one-64th rule of Executor::call and create).
THEOREM CallerAlwaysKeepsShare == Spec => CallerKeepsShare
<1>1. Spec => []Inv
      BY GasInvariance
<1>2. Inv /\ [Next]_vars => SettleStep
      BY SettleStepHolds
<1> QED BY <1>1, <1>2, PTL DEF Spec, CallerKeepsShare

-----------------------------------------------------------------------------
(* Sums over a stack *)

\* Induction, on membership in a set.
LEMMA SetInduction ==
  ASSUME NEW S, 0 \in S, \A n \in Nat : n \in S => n + 1 \in S
  PROVE  Nat \subseteq S
<1> SUFFICES ASSUME NEW x \in Nat \ S
             PROVE  FALSE
    OBVIOUS
<1> DEFINE R == OpToRel(<, Nat)
<1>1. IsWellFoundedOn(R, Nat)
      BY NatLessThanWellFounded
<1>2. PICK m \in Nat \ S : \A y \in Nat \ S : ~(<<y, m>> \in R)
  <2> HIDE DEF R
  <2>1. Nat \ S \subseteq Nat /\ Nat \ S # {}
        OBVIOUS
  <2> QED BY <1>1, <2>1, WFMin, Zenon
<1>3. \A y \in Nat \ S : ~(y < m)
      BY <1>2 DEF OpToRel
<1>4. m # 0 /\ m - 1 \in Nat /\ m - 1 < m /\ (m - 1) + 1 = m
      OBVIOUS
<1> QED BY <1>3, <1>4

\* The sums of the weights of the first frames.
Sums(w, fr, n) ==
  /\ w[0] = 0
  /\ \A i \in 1..n : w[i] = w[i - 1] + Weight(fr[i])

LEMMA WeightType == \A f \in Frame : Weight(f) \in Int
<1> SUFFICES ASSUME NEW f \in Frame
             PROVE  Weight(f) \in Int
    OBVIOUS
<1>1. f.used \in Nat /\ f.base \in Nat /\ f.stipend \in Nat
      BY DEF Frame
<1> QED BY <1>1 DEF Weight

\* There are such sums.
LEMMA SumsExist ==
  ASSUME NEW fr \in Seq(Frame)
  PROVE  \E w \in [0..Len(fr) -> Int] : Sums(w, fr, Len(fr))
<1> DEFINE Has(n) == \E w \in [0..n -> Int] : Sums(w, fr, n)
           S == {n \in Nat : n <= Len(fr) => Has(n)}
<1>1. 0 \in S
  <2> DEFINE w == [i \in 0..0 |-> 0]
  <2>1. w \in [0..0 -> Int] /\ Sums(w, fr, 0)
        BY DEF Sums
  <2> QED BY <2>1
<1>2. ASSUME NEW n \in Nat, n \in S
      PROVE  n + 1 \in S
  <2> SUFFICES ASSUME n + 1 <= Len(fr)
               PROVE  Has(n + 1)
      OBVIOUS
  <2>1. PICK w \in [0..n -> Int] : Sums(w, fr, n)
        BY <1>2
  <2> DEFINE last == w[n] + Weight(fr[n + 1])
             v == [i \in 0..(n + 1) |-> IF i <= n THEN w[i] ELSE last]
  <2>2. last \in Int
    <3>1. fr[n + 1] \in Frame /\ w[n] \in Int
          OBVIOUS
    <3> QED BY <3>1, WeightType
  <2> HIDE DEF last
  <2>3. v \in [0..(n + 1) -> Int]
        BY <2>2
  <2>4. Sums(v, fr, n + 1)
    <3>1. v[0] = 0
          BY <2>1 DEF Sums
    <3>2. ASSUME NEW i \in 1..(n + 1)
          PROVE  v[i] = v[i - 1] + Weight(fr[i])
      <4>1. CASE i \in 1..n
        <5>1. v[i] = w[i] /\ v[i - 1] = w[i - 1]
              BY <4>1
        <5>2. w[i] = w[i - 1] + Weight(fr[i])
              BY <2>1, <4>1 DEF Sums
        <5> QED BY <5>1, <5>2
      <4>2. CASE i = n + 1
        <5>1. v[i] = last /\ v[i - 1] = w[n]
              BY <4>2
        <5> QED BY <4>2, <5>1 DEF last
      <4> QED BY <4>1, <4>2
    <3> HIDE DEF v
    <3> QED BY <3>1, <3>2 DEF Sums
  <2> HIDE DEF v
  <2> QED BY <2>3, <2>4
<1>3. Nat \subseteq S
  <2> HIDE DEF S
  <2> QED BY <1>1, <1>2, SetInduction
<1>4. Len(fr) \in S
      BY <1>3
<1> QED BY <1>4

\* Stacks that begin alike have the same sums as far as they do.
LEMMA SumsAgree ==
  ASSUME NEW fr, NEW gr, NEW v, NEW w, NEW n \in Nat, Sums(v, fr, n), Sums(w, gr, n),
         \A i \in 1..n : fr[i] = gr[i]
  PROVE  v[n] = w[n]
<1> DEFINE S == {i \in Nat : i <= n => v[i] = w[i]}
<1>1. 0 \in S
      BY DEF Sums
<1>2. ASSUME NEW i \in Nat, i \in S
      PROVE  i + 1 \in S
  <2> SUFFICES ASSUME i + 1 <= n
               PROVE  v[i + 1] = w[i + 1]
      OBVIOUS
  <2>1. i + 1 \in 1..n /\ v[i] = w[i] /\ (i + 1) - 1 = i
        BY <1>2
  <2>2. v[i + 1] = v[i] + Weight(fr[i + 1]) /\ w[i + 1] = w[i] + Weight(gr[i + 1])
        BY <2>1 DEF Sums
  <2> QED BY <2>1, <2>2
<1>3. Nat \subseteq S
  <2> HIDE DEF S
  <2> QED BY <1>1, <1>2, SetInduction
<1> QED BY <1>3

\* The total is the last of the sums.
LEMMA TotalIsSum ==
  ASSUME NEW fr \in Seq(Frame), NEW w \in [0..Len(fr) -> Int], Sums(w, fr, Len(fr))
  PROVE  TotalWeight(fr) = w[Len(fr)]
<1> DEFINE n == Len(fr)
           Total(t) == t = [i \in 0..n |-> IF i = 0 THEN 0 ELSE t[i - 1] + Weight(fr[i])]
           total == CHOOSE t : Total(t)
<1>1. Total(w)
  <2> DEFINE t == [i \in 0..n |-> IF i = 0 THEN 0 ELSE w[i - 1] + Weight(fr[i])]
  <2>1. \A i \in 0..n : w[i] = t[i]
        BY DEF Sums
  <2> HIDE DEF t
  <2>2. w = [i \in 0..n |-> w[i]]
        OBVIOUS
  <2>3. t = [i \in 0..n |-> t[i]]
        BY DEF t
  <2>4. w = t
        BY <2>1, <2>2, <2>3
  <2> QED BY <2>4 DEF t
<1>2. Total(total)
  <2> HIDE DEF Total
  <2> QED BY <1>1
<1>3. TotalWeight(fr) = total[n]
      BY DEF TotalWeight
<1>4. Sums(total, fr, n)
  <2> DEFINE t == [i \in 0..n |-> IF i = 0 THEN 0 ELSE total[i - 1] + Weight(fr[i])]
  <2>1. total = t
        BY <1>2
  <2> HIDE DEF total
  <2>2. n \in Nat /\ t[0] = 0 /\ \A i \in 1..n : t[i] = total[i - 1] + Weight(fr[i])
        OBVIOUS
  <2> HIDE DEF t
  <2> QED BY <2>1, <2>2 DEF Sums
<1> HIDE DEF total
<1>5. n \in Nat
      OBVIOUS
<1> HIDE DEF n
<1>6. total[n] = w[n]
      BY <1>4, <1>5, SumsAgree DEF n
<1> QED BY <1>3, <1>6 DEF n

\* One more frame adds its weight.
LEMMA TotalAppend ==
  ASSUME NEW fr \in Seq(Frame), NEW f \in Frame
  PROVE  /\ TotalWeight(fr) \in Int
         /\ TotalWeight(Append(fr, f)) = TotalWeight(fr) + Weight(f)
<1> DEFINE n == Len(fr)
           g == Append(fr, f)
<1>1. n \in Nat /\ g \in Seq(Frame) /\ Len(g) = n + 1 /\ g[n + 1] = f
      /\ \A i \in 1..n : g[i] = fr[i]
      OBVIOUS
<1>2. PICK v \in [0..n -> Int] : Sums(v, fr, n)
      BY SumsExist
<1>3. PICK w \in [0..(n + 1) -> Int] : Sums(w, g, n + 1)
  <2> HIDE DEF g
  <2>1. \E w \in [0..Len(g) -> Int] : Sums(w, g, Len(g))
        BY <1>1, SumsExist
  <2> QED BY <1>1, <2>1
<1>4. TotalWeight(fr) = v[n] /\ v[n] \in Int
      BY <1>1, <1>2, TotalIsSum
<1> HIDE DEF g
<1>5. TotalWeight(g) = w[n + 1]
      BY <1>1, <1>3, TotalIsSum
<1>6. Sums(w, g, n) /\ w[n + 1] = w[n] + Weight(f)
  <2>1. n + 1 \in 1..(n + 1) /\ (n + 1) - 1 = n
        BY <1>1
  <2> QED BY <1>1, <1>3, <2>1 DEF Sums
<1>7. \A i \in 1..n : g[i] = fr[i]
      BY <1>1
<1>8. n \in Nat
      BY <1>1
<1>9. w[n] = v[n]
  <2> HIDE DEF n
  <2>1. \A h, a, b : (Sums(a, h, n) /\ Sums(b, fr, n) /\ \A i \in 1..n : h[i] = fr[i]) => a[n] = b[n]
        BY <1>8, SumsAgree
  <2>2. ASSUME NEW a, NEW b, Sums(a, g, n), Sums(b, fr, n)
        PROVE  a[n] = b[n]
        BY <1>7, <1>8, <2>1, <2>2
  <2> QED BY <1>2, <1>6, <2>2
<1> QED BY <1>4, <1>5, <1>6, <1>9 DEF g
-----------------------------------------------------------------------------
(* The work that is left *)

\* What a frame takes from the work, its caller cannot use any more.
LEMMA WeightSettled ==
  ASSUME NEW f \in Frame, NEW g \in Frame, InBounds(f), InBounds(g), Settles(f, g)
  PROVE  3 * Remaining(f) + Weight(g) > 3 * Remaining(g)
<1> DEFINE r == Remaining(f) - g.base
           own == IF g.status = "running" THEN 2 ELSE 1
<1>1. /\ f.limit \in Nat /\ f.used \in Nat
      /\ g.limit \in Nat /\ g.used \in Nat /\ g.base \in Nat /\ g.stipend \in Nat
      BY DEF Frame
<1>2. r \in Nat
      BY <1>1 DEF Settles, Remaining
<1>3. g.limit - g.stipend <= r
  <2>1. g.limit - g.stipend <= r - r \div 64
        BY DEF Settles
  <2> HIDE DEF r
  <2>2. r \div 64 \in Nat
        BY <1>2
  <2> QED BY <1>1, <1>2, <2>1, <2>2
<1>4. own \in 1..2
      OBVIOUS
<1>5. Weight(g) = own - 3 * (g.used + g.base - g.stipend)
      BY DEF Weight
<1> HIDE DEF own
<1> QED BY <1>1, <1>3, <1>4, <1>5 DEF Remaining

\* While there is a frame there is work left, and more than the gas it has.
LEMMA WorkBound ==
  ASSUME NEW fr, NEW o, Stack(fr, o), fr # <<>>
  PROVE  Work(fr) \in Nat /\ Work(fr) > 0
<1> DEFINE n == Len(fr)
<1>1. fr \in Seq(Frame) /\ n \in Nat /\ n > 0
      BY DEF Stack
<1>2. PICK w \in [0..n -> Int] : Sums(w, fr, n)
      BY <1>1, SumsExist
<1>3. TotalWeight(fr) = w[n]
      BY <1>1, <1>2, TotalIsSum
<1> DEFINE Left3(i) == 3 * fr[1].limit + w[i]
           S == {i \in Nat : i + 1 <= n => Left3(i + 1) > 3 * Remaining(fr[i + 1])}
<1>4. \A i \in 1..n : /\ fr[i] \in Frame /\ InBounds(fr[i]) /\ Remaining(fr[i]) \in Nat
                      /\ w[i] \in Int /\ w[i - 1] \in Int /\ Weight(fr[i]) \in Int
  <2> TAKE i \in 1..n
  <2>1. fr[i] \in Frame /\ InBounds(fr[i])
        BY <1>1 DEF Stack
  <2>2. Remaining(fr[i]) \in Nat
        BY <2>1 DEF Frame, InBounds, Remaining
  <2>3. Weight(fr[i]) \in Int
        BY <2>1, WeightType
  <2>4. i \in 0..n /\ i - 1 \in 0..n
        BY <1>1
  <2>5. w[i] \in Int /\ w[i - 1] \in Int
        BY <2>4
  <2> QED BY <2>1, <2>2, <2>3, <2>5
<1>5. fr[1].limit \in Nat /\ fr[1].used \in Nat /\ w[1] = w[0] + Weight(fr[1]) /\ w[0] = 0
  <2>1. 1 \in 1..n /\ 1 - 1 = 0
        BY <1>1
  <2>2. fr[1] \in Frame
        BY <1>4, <2>1
  <2>3. w[1] = w[1 - 1] + Weight(fr[1]) /\ w[0] = 0
        BY <1>2, <2>1 DEF Sums
  <2> QED BY <2>1, <2>2, <2>3 DEF Frame
<1> HIDE DEF n
<1>6. 0 \in S
  <2> DEFINE own == IF fr[1].status = "running" THEN 2 ELSE 1
  <2>1. fr[1].base = 0 /\ fr[1].stipend = 0 /\ fr[1].prior = 0
        BY DEF Stack
  <2>2. own \in 1..2 /\ Weight(fr[1]) = own - 3 * (fr[1].used + fr[1].base - fr[1].stipend)
        BY DEF Weight
  <2> HIDE DEF own
  <2>3. w[1] = own - 3 * fr[1].used
        BY <1>5, <2>1, <2>2
  <2>4. Left3(1) > 3 * Remaining(fr[1])
        BY <1>5, <2>2, <2>3 DEF Remaining
  <2> QED BY <2>4
<1>7. ASSUME NEW i \in Nat, i \in S
      PROVE  i + 1 \in S
  <2> DEFINE j == i + 1
  <2> SUFFICES ASSUME j + 1 <= n
               PROVE  Left3(j + 1) > 3 * Remaining(fr[j + 1])
      OBVIOUS
  <2>1. j \in 1..n /\ j + 1 \in 1..n /\ j \in 1..(n - 1) /\ (j + 1) - 1 = j
        BY <1>1
  <2>2. Left3(j) > 3 * Remaining(fr[j])
        BY <1>7, <2>1
  <2>3. w[j + 1] = w[j] + Weight(fr[j + 1])
        BY <1>2, <2>1 DEF Sums
  <2>4. Settles(fr[j], fr[j + 1])
        BY <2>1 DEF Stack, n
  <2>5. 3 * Remaining(fr[j]) + Weight(fr[j + 1]) > 3 * Remaining(fr[j + 1])
        BY <1>4, <2>1, <2>4, WeightSettled
  <2>6. /\ w[j] \in Int /\ w[j + 1] \in Int /\ Weight(fr[j + 1]) \in Int
        /\ Remaining(fr[j]) \in Nat /\ Remaining(fr[j + 1]) \in Nat
        BY <1>4, <2>1
  <2>7. Left3(j) \in Int /\ Left3(j + 1) = Left3(j) + Weight(fr[j + 1])
    <3>2. Left3(j) = 3 * fr[1].limit + w[j]
          OBVIOUS
    <3>3. Left3(j + 1) = 3 * fr[1].limit + w[j + 1]
          OBVIOUS
    <3>4. fr[1].limit \in Int
          BY <1>5
    <3> HIDE DEF j, Left3
    <3>5. Left3(j) \in Int
          BY <3>2, <3>4, <2>6
    <3> QED BY <3>2, <3>3, <3>4, <3>5, <2>3, <2>6
  <2> HIDE DEF j, Left3
  <2> QED BY <2>2, <2>5, <2>6, <2>7
<1>8. Nat \subseteq S
  <2> HIDE DEF S
  <2> QED BY <1>6, <1>7, SetInduction
<1>9. n - 1 \in S /\ (n - 1) + 1 = n /\ n \in 1..n
  <2> HIDE DEF S
  <2> QED BY <1>1, <1>8
<1>10. Left3(n) > 3 * Remaining(fr[n])
  <2>1. \A i \in S : i + 1 <= n => Left3(i + 1) > 3 * Remaining(fr[i + 1])
        OBVIOUS
  <2>2. n <= n
        BY <1>1
  <2> HIDE DEF S, Left3
  <2>3. PICK i \in S : i + 1 = n
        BY <1>9
  <2>4. i + 1 <= n => Left3(i + 1) > 3 * Remaining(fr[i + 1])
        BY <2>1
  <2> QED BY <2>2, <2>3, <2>4, Zenon
<1>11. w[n] \in Int /\ Remaining(fr[n]) \in Nat
       BY <1>4, <1>9
<1>12. Left3(n) = 3 * fr[1].limit + w[n]
       OBVIOUS
<1>13. Work(fr) = Left3(n)
       BY <1>3, <1>12 DEF Work
<1>14. 3 * fr[1].limit \in Int
       BY <1>5
<1> HIDE DEF S, Left3
<1>15. Left3(n) \in Int
       BY <1>11, <1>12, <1>14
<1>16. Left3(n) > 0
       BY <1>10, <1>11, <1>15
<1> QED BY <1>13, <1>15, <1>16

\* The frames below the innermost one.
Below(fr) == [i \in 1..(Len(fr) - 1) |-> fr[i]]

LEMMA BelowTop ==
  ASSUME NEW fr \in Seq(Frame), fr # <<>>
  PROVE  /\ Below(fr) \in Seq(Frame) /\ fr[Len(fr)] \in Frame
         /\ TotalWeight(Below(fr)) \in Int
         /\ TotalWeight(fr) = TotalWeight(Below(fr)) + Weight(fr[Len(fr)])
<1> DEFINE n == Len(fr)
           b == Below(fr)
           g == Append(b, fr[n])
<1>1. n \in Nat /\ n > 0 /\ n - 1 \in Nat /\ fr[n] \in Frame
      OBVIOUS
<1>2. b \in Seq(Frame) /\ Len(b) = n - 1 /\ \A i \in 1..(n - 1) : b[i] = fr[i]
      BY <1>1 DEF Below
<1>3. g = fr
  <2> HIDE DEF b
  <2>1. g \in Seq(Frame) /\ Len(g) = n
        BY <1>1, <1>2
  <2>2. \A i \in 1..n : g[i] = fr[i]
        BY <1>1, <1>2
  <2> QED BY <2>1, <2>2
<1> HIDE DEF b
<1>4. TotalWeight(b) \in Int /\ TotalWeight(g) = TotalWeight(b) + Weight(fr[n])
      BY <1>1, <1>2, TotalAppend
<1> QED BY <1>1, <1>2, <1>3, <1>4 DEF b

\* Another innermost frame changes the work by the difference of their weights.
LEMMA WorkReplaced ==
  ASSUME NEW fr \in Seq(Frame), fr # <<>>, NEW f \in Frame, f.limit = fr[Len(fr)].limit
  PROVE  /\ Work(fr) \in Int
         /\ Work(Replaced(fr, f)) = Work(fr) - Weight(fr[Len(fr)]) + Weight(f)
<1> DEFINE n == Len(fr)
           g == Replaced(fr, f)
<1>1. n \in Nat /\ n > 0 /\ g \in Seq(Frame) /\ Len(g) = n /\ g[n] = f
      /\ \A i \in 1..(n - 1) : g[i] = fr[i]
      BY DEF Replaced
<1>2. g # <<>> /\ Below(g) = Below(fr) /\ g[1].limit = fr[1].limit /\ fr[1] \in Frame
  <2> HIDE DEF g
  <2> QED BY <1>1 DEF Below
<1>3. /\ TotalWeight(fr) = TotalWeight(Below(fr)) + Weight(fr[n])
      /\ TotalWeight(Below(fr)) \in Int /\ fr[n] \in Frame
      BY BelowTop
<1> HIDE DEF g
<1>4. TotalWeight(g) = TotalWeight(Below(fr)) + Weight(f)
      BY <1>1, <1>2, BelowTop
<1>5. Weight(f) \in Int /\ Weight(fr[n]) \in Int /\ fr[1].limit \in Nat
      BY <1>2, <1>3, WeightType DEF Frame
<1> QED BY <1>2, <1>3, <1>4, <1>5 DEF Work, g

\* A frame that is entered adds its weight.
LEMMA WorkAppended ==
  ASSUME NEW fr \in Seq(Frame), fr # <<>>, NEW f \in Frame
  PROVE  Work(fr) \in Int /\ Work(Append(fr, f)) = Work(fr) + Weight(f)
<1>1. /\ TotalWeight(fr) \in Int
      /\ TotalWeight(Append(fr, f)) = TotalWeight(fr) + Weight(f)
      BY TotalAppend
<1>2. Append(fr, f)[1] = fr[1] /\ fr[1] \in Frame
      OBVIOUS
<1>3. fr[1].limit \in Nat /\ Weight(f) \in Int
      BY <1>2, WeightType DEF Frame
<1> QED BY <1>1, <1>2, <1>3 DEF Work

\* A frame that is left takes its weight with it.
LEMMA WorkDropped ==
  ASSUME NEW fr \in Seq(Frame), Len(fr) > 1, NEW f \in Frame,
         f.limit = fr[Len(fr) - 1].limit
  PROVE  /\ Work(fr) \in Int
         /\ Work(Dropped(fr, f)) =
              Work(fr) - Weight(fr[Len(fr)]) - Weight(fr[Len(fr) - 1]) + Weight(f)
<1> DEFINE n == Len(fr)
           b == Below(fr)
<1>1. n \in Nat /\ n - 1 \in Nat /\ n - 1 > 0 /\ fr # <<>> /\ fr[1] \in Frame
      OBVIOUS
<1>2. /\ TotalWeight(fr) = TotalWeight(b) + Weight(fr[n])
      /\ TotalWeight(b) \in Int /\ fr[n] \in Frame /\ b \in Seq(Frame)
  <2>1. fr # <<>>
        BY <1>1
  <2> QED BY <2>1, BelowTop
<1>3. Len(b) = n - 1 /\ b # <<>> /\ b[n - 1] = fr[n - 1] /\ b[1] = fr[1]
  <2>1. Len(b) = n - 1 /\ \A i \in 1..(n - 1) : b[i] = fr[i]
        BY <1>1 DEF Below
  <2>2. n - 1 \in 1..(n - 1) /\ 1 \in 1..(n - 1)
        BY <1>1
  <2> HIDE DEF b, n
  <2> QED BY <1>1, <1>2, <2>1, <2>2
<1>4. Replaced(b, f) = Dropped(fr, f)
      BY <1>1, <1>3 DEF Replaced, Dropped, Below
<1> HIDE DEF b
<1>5. Work(b) \in Int /\ Work(Replaced(b, f)) = Work(b) - Weight(fr[n - 1]) + Weight(f)
      BY <1>2, <1>3, WorkReplaced
<1>6. Work(fr) = Work(b) + Weight(fr[n])
  <2>1. fr[1].limit \in Nat /\ Weight(fr[n]) \in Int
        BY <1>1, <1>2, WeightType DEF Frame
  <2> QED BY <1>2, <1>3, <2>1 DEF Work
<1>7. Weight(fr[n]) \in Int /\ Weight(fr[n - 1]) \in Int /\ Weight(f) \in Int
      BY <1>1, <1>2, WeightType
<1> QED BY <1>4, <1>5, <1>6, <1>7
-----------------------------------------------------------------------------
(* Every step shrinks the work *)

\* A frame whose gas used grows, or that ends, weighs less.
LEMMA Lighter ==
  ASSUME NEW f \in Frame, NEW g \in Frame, SameFrame(g, f), f.status = "running",
         g.used > f.used \/ (g.used >= f.used /\ g.status # "running")
  PROVE  Weight(g) < Weight(f)
<1> DEFINE own == IF g.status = "running" THEN 2 ELSE 1
<1>1. /\ f.used \in Nat /\ f.base \in Nat /\ f.stipend \in Nat /\ g.used \in Nat
      /\ g.base = f.base /\ g.stipend = f.stipend
      BY DEF Frame, SameFrame
<1>2. Weight(f) = 2 - 3 * (f.used + f.base - f.stipend)
      BY DEF Weight
<1>3. Weight(g) = own - 3 * (g.used + g.base - g.stipend)
      BY DEF Weight
<1>4. own \in 1..2 /\ (g.status # "running" => own = 1)
      OBVIOUS
<1> HIDE DEF own
<1> QED BY <1>1, <1>2, <1>3, <1>4

\* So does one whose opcode is charged for, whether it can pay or not.
LEMMA ChargedLighter ==
  ASSUME NEW f \in Frame, InBounds(f), f.status = "running", NEW c \in Nat \ {0}
  PROVE  Weight(Charge(f, c)) < Weight(f)
<1>1. /\ Charge(f, c) \in Frame /\ SameFrame(Charge(f, c), f)
      /\ Charge(f, c).used >= f.used
      BY ChargeFacts
<1>2. f.used \in Nat
      BY DEF Frame
<1>3. Charge(f, c).status = "reverted" \/ Charge(f, c).used = f.used + c
      BY DEF Charge, Burn, Frame
<1>4. Charge(f, c).used > f.used \/ Charge(f, c).status # "running"
      BY <1>2, <1>3
<1> QED BY <1>1, <1>4, Lighter

LEMMA BurntLighter ==
  ASSUME NEW f \in Frame, InBounds(f), f.status = "running"
  PROVE  Weight(Burn(f)) < Weight(f)
<1>1. Burn(f).status = "reverted"
      BY DEF Burn, Frame
<1> QED BY <1>1, BurnFacts, Lighter

\* Metering the innermost frame so that it weighs less shrinks the work.
LEMMA UpdateShrinks ==
  ASSUME Inv, frames # <<>>, NEW f \in Frame, SameFrame(f, Top), Update(f),
         Weight(f) < Weight(Top)
  PROVE  Work(frames') < Work(frames)
<1>1. frames \in Seq(Frame) /\ Top \in Frame /\ Top = frames[Len(frames)]
      BY TopFacts DEF Inv, TypeOK, Top, Depth
<1>2. frames' = Replaced(frames, f)
      BY DEF Update, Replaced, Depth
<1>3. /\ Work(frames) \in Int
      /\ Work(frames') = Work(frames) - Weight(Top) + Weight(f)
      BY <1>1, <1>2, WorkReplaced DEF SameFrame
<1>4. Weight(Top) \in Int /\ Weight(f) \in Int
      BY <1>1, WeightType
<1> QED BY <1>3, <1>4

LEMMA BurnShrinks ==
  ASSUME Inv, Running, Update(Burn(Top))
  PROVE  Work(frames') < Work(frames)
<1>1. frames # <<>> /\ Top.status = "running"
      BY DEF Running
<1>2. Top \in Frame /\ InBounds(Top)
      BY <1>1, TopFacts
<1> QED BY <1>1, <1>2, BurnFacts, BurntLighter, UpdateShrinks

LEMMA ChargeShrinks ==
  ASSUME Inv, Running, NEW c \in Nat \ {0}, Update(Charge(Top, c))
  PROVE  Work(frames') < Work(frames)
<1>1. frames # <<>> /\ Top.status = "running"
      BY DEF Running
<1>2. Top \in Frame /\ InBounds(Top)
      BY <1>1, TopFacts
<1> QED BY <1>1, <1>2, ChargeFacts, ChargedLighter, UpdateShrinks

\* Entering a frame does, if it costs more than the stipend it brings.
LEMMA EnterShrinks ==
  ASSUME Inv, frames # <<>>, NEW f \in Frame, Enter(f),
         f.used = 0, f.base > f.stipend
  PROVE  Work(frames') < Work(frames)
<1>1. PICK status \in {"running", "stopped", "reverted"} :
        frames' = Append(frames, [f EXCEPT !.status = status])
      BY DEF Enter
<1> DEFINE g == [f EXCEPT !.status = status]
           own == IF g.status = "running" THEN 2 ELSE 1
<1>2. /\ g \in Frame /\ g.used = 0 /\ g.base > g.stipend
      /\ g.base \in Nat /\ g.stipend \in Nat
      BY DEF Frame
<1>3. own \in 1..2 /\ Weight(g) = own - 3 * (g.used + g.base - g.stipend)
      BY DEF Weight
<1> HIDE DEF g, own
<1>4. Weight(g) < 0 /\ Weight(g) \in Int
      BY <1>2, <1>3
<1>5. frames \in Seq(Frame)
      BY DEF Inv, TypeOK
<1>6. Work(frames) \in Int /\ Work(frames') = Work(frames) + Weight(g)
      BY <1>1, <1>2, <1>5, WorkAppended DEF g
<1> QED BY <1>4, <1>6

\* Leaving a frame does, if its caller is charged for what it used.
LEMMA LeaveShrinks ==
  ASSUME Inv, Depth > 1, Top.status # "running", NEW f \in Frame, SameFrame(f, Caller),
         f.status = "running", Leave(f),
         f.used >= Caller.used + Top.base + Top.used - Top.stipend
  PROVE  Work(frames') < Work(frames)
<1>1. /\ frames \in Seq(Frame) /\ Len(frames) > 1 /\ Len(frames) \in Nat
      /\ Top \in Frame /\ Top = frames[Len(frames)]
      /\ Caller \in Frame /\ Caller = frames[Len(frames) - 1] /\ Caller.status = "running"
      BY CallerFacts DEF Inv, TypeOK, Top, Depth, Settles
<1>2. frames' = Dropped(frames, f)
      BY DEF Leave, Dropped, Depth
<1>3. /\ Work(frames) \in Int
      /\ Work(frames') = Work(frames) - Weight(Top) - Weight(Caller) + Weight(f)
      BY <1>1, <1>2, WorkDropped DEF SameFrame
<1>4. /\ Top.used \in Nat /\ Top.base \in Nat /\ Top.stipend \in Nat
      /\ Caller.used \in Nat /\ Caller.base \in Nat /\ Caller.stipend \in Nat
      /\ f.used \in Nat /\ f.base = Caller.base /\ f.stipend = Caller.stipend
      BY <1>1 DEF Frame, SameFrame
<1>5. /\ Weight(Top) = 1 - 3 * (Top.used + Top.base - Top.stipend)
      /\ Weight(Caller) = 2 - 3 * (Caller.used + Caller.base - Caller.stipend)
      /\ Weight(f) = 2 - 3 * (f.used + f.base - f.stipend)
      BY <1>1 DEF Weight
<1> QED BY <1>3, <1>4, <1>5

LEMMA FinishShrinks ==
  ASSUME Inv, NEW status \in {"stopped", "reverted"}, NEW c \in OpCosts \cup {0},
         NEW size \in ReturnSizes, Finish(status, c, size)
  PROVE  Work(frames') < Work(frames)
<1> DEFINE e == [Top EXCEPT !.status = status,
                            !.ret = IF Top.kind = "create" THEN size ELSE 0]
           f == Charge(e, c)
<1>1. frames # <<>> /\ Top.status = "running" /\ c \in Nat /\ size \in Nat
      BY CostsAssumption DEF Finish, Running
<1>2. Top \in Frame /\ InBounds(Top)
      BY <1>1, TopFacts
<1>3. /\ e \in Frame /\ InBounds(e) /\ SameFrame(e, Top) /\ e.used = Top.used
      /\ e.status # "running"
      BY <1>1, <1>2 DEF Frame, InBounds, SameFrame
<1> HIDE DEF e
<1>4. f \in Frame /\ SameFrame(f, e) /\ f.used >= e.used
      BY <1>1, <1>3, ChargeFacts
<1>5. f.status # "running"
      BY <1>3 DEF Charge, Burn, Frame
<1>6. Update(f)
      BY DEF Finish, e
<1> HIDE DEF f
<1>7. SameFrame(f, Top)
      BY <1>3, <1>4 DEF SameFrame
<1> QED BY <1>1, <1>2, <1>3, <1>4, <1>5, <1>6, <1>7, Lighter, UpdateShrinks

LEMMA SstoreShrinks ==
  ASSUME Inv, NEW s \in Slot, NEW new \in Words, NEW access \in SlotCosts,
         SSTORE(s, new, access)
  PROVE  Work(frames') < Work(frames)
<1> DEFINE cost   == StoreCost(orig[s], cur[s], new) + access
           refund == StoreRefund(orig[s], cur[s], new)
           f      == [Top EXCEPT !.used = Top.used + cost,
                                 !.refund = Top.refund + refund]
<1>1. /\ frames # <<>> /\ Running /\ Top.status = "running" /\ access \in Nat
      /\ cur \in Storage /\ orig \in Storage
      BY CostsAssumption DEF SSTORE, Running, Inv, TypeOK
<1>2. Top \in Frame /\ InBounds(Top)
      BY <1>1, TopFacts
<1>3. CASE Update(Burn(Top))
      BY <1>1, <1>3, BurnShrinks
<1>4. CASE Update(f)
  <2>1. refund \in Int
        BY <1>1, StoreRefundCovers
  <2>2. cost \in Nat \ {0}
        BY <1>1 DEF StoreCost
  <2> HIDE DEF cost, refund
  <2>3. Top.used \in Nat /\ Top.refund \in Int
        BY <1>2 DEF Frame
  <2>4. Top.used + cost \in Nat /\ Top.refund + refund \in Int /\ Top.used + cost > Top.used
        BY <2>1, <2>2, <2>3
  <2>5. f \in Frame /\ f.used = Top.used + cost /\ SameFrame(f, Top)
        BY <1>2, <2>4 DEF Frame, SameFrame
  <2>6. Weight(f) < Weight(Top)
    <3> HIDE DEF f
    <3> QED BY <1>1, <1>2, <2>4, <2>5, Lighter
  <2> HIDE DEF f
  <2> QED BY <1>1, <1>4, <2>5, <2>6, UpdateShrinks
<1> QED BY <1>3, <1>4 DEF SSTORE

LEMMA CallShrinks ==
  ASSUME Inv, NEW ct \in {"Call", "Delegate", "Static"}, NEW carries \in Carries,
         NEW empty \in BOOLEAN, NEW access \in AccessCosts, NEW g \in CallGas,
         CALL(ct, carries, empty, access, g)
  PROVE  Work(frames') < Work(frames)
<1> DEFINE value == IF ct = "Static" THEN FALSE
                    ELSE IF ct = "Delegate" THEN Top.value ELSE carries
           base  == CallCost(ct, value, empty, access)
           r     == Remaining(Top) - base
           all   == AllButOne64th(r)
           stip  == Stipend(ct, value)
           lim   == (IF g <= all THEN g ELSE all) + stip
           f     == NewFrame("call", lim, base, stip, value)
<1>1. frames # <<>> /\ Running /\ access \in Nat \ {0} /\ g \in Nat /\ cur \in Storage
      BY CostsAssumption DEF CALL, Running, Inv, TypeOK
<1>2. Top \in Frame /\ InBounds(Top)
      BY <1>1, TopFacts
<1>3. value \in BOOLEAN
      BY <1>2, CostsAssumption DEF Frame
<1>4. base \in Nat /\ stip \in Nat /\ base > stip
      BY <1>1 DEF CallCost, Stipend, Transfers
<1>5. CASE Update(Burn(Top))
      BY <1>1, <1>5, BurnShrinks
<1>6. CASE base <= Remaining(Top) /\ Enter(f)
  <2>1. Top.limit \in Nat /\ Top.used \in Nat /\ Top.prior \in Int /\ Top.refund \in Int
        BY <1>2 DEF Frame
  <2> HIDE DEF value, base, stip
  <2>2. r \in Nat
        BY <1>4, <1>6, <2>1 DEF Remaining
  <2> HIDE DEF r
  <2>3. all \in Nat
        BY <2>2 DEF AllButOne64th
  <2> HIDE DEF all
  <2>4. lim \in Nat
        BY <1>1, <1>4, <2>3
  <2> HIDE DEF lim
  <2>5. f \in Frame
        BY <1>1, <1>3, <1>4, <2>1, <2>4 DEF NewFrame, Frame
  <2>6. f.used = 0 /\ f.base = base /\ f.stipend = stip
        BY DEF NewFrame
  <2> HIDE DEF f
  <2> QED BY <1>1, <1>4, <1>6, <2>5, <2>6, EnterShrinks
<1> QED BY <1>5, <1>6 DEF CALL

\* A precompile that gives a gas back is called at a cost of at least two.
LEMMA CallPrecompileShrinks ==
  ASSUME Inv, NEW ct \in {"Call", "Delegate", "Static"}, NEW carries \in Carries,
         NEW access \in AccessCosts, NEW c \in PrecompileCosts,
         CallPrecompile(ct, carries, access, c)
  PROVE  Work(frames') < Work(frames)
<1> DEFINE value == IF ct = "Static" THEN FALSE
                    ELSE IF ct = "Delegate" THEN Top.value ELSE carries
           base  == CallCost(ct, value, FALSE, access)
           f     == Charge(Top, c)
           g     == Charge(f, base)
<1>1. /\ frames # <<>> /\ Running /\ Top.status = "running"
      /\ access \in Nat \ {0, 1} /\ c \in Nat \cup {-1}
      BY CostsAssumption DEF CallPrecompile, Running
<1>2. Top \in Frame /\ InBounds(Top)
      BY <1>1, TopFacts
<1>3. base \in Nat \ {0, 1}
  <2> HIDE DEF value
  <2>1. Transfers(ct, value) \in BOOLEAN
        BY DEF Transfers
  <2> QED BY <1>1, <2>1 DEF CallCost
<1>4. Top.limit \in Nat /\ Top.used \in Nat
      BY <1>2 DEF Frame
<1>5. CASE Update(Burn(Top))
      BY <1>1, <1>5, BurnShrinks
<1>6. CASE ~(base > Remaining(Top) \/ f.status = "reverted") /\ Update(g)
  <2> HIDE DEF base
  <2>1. f = [Top EXCEPT !.used = Top.used + c]
        BY <1>2, <1>6 DEF Charge, Burn, Frame
  <2>2. f.used = Top.used + c /\ f.limit = Top.limit /\ f.status = "running"
        BY <1>1, <1>2, <2>1 DEF Frame
  <2>3. SameFrame(f, Top)
        BY <1>2, <2>1 DEF Frame, SameFrame
  <2>4. CASE base > Remaining(f)
    <3>1. g = [Top EXCEPT !.used = Top.limit, !.status = "reverted", !.ret = 0]
          BY <1>2, <2>1, <2>2, <2>4 DEF Charge, Burn, Frame
    <3>2. g = Burn(Top)
          BY <3>1 DEF Burn
    <3> QED BY <1>1, <1>6, <3>2, BurnShrinks
  <2>5. CASE ~(base > Remaining(f))
    <3>1. g = [Top EXCEPT !.used = (Top.used + c) + base]
          BY <1>2, <2>1, <2>2, <2>5 DEF Charge, Frame
    <3>2. (Top.used + c) + base \in Nat /\ (Top.used + c) + base > Top.used
          BY <1>1, <1>3, <1>4
    <3>3. g \in Frame /\ SameFrame(g, Top) /\ g.used > Top.used
          BY <1>2, <3>1, <3>2 DEF Frame, SameFrame
    <3> HIDE DEF g
    <3> QED BY <1>1, <1>2, <1>6, <3>3, Lighter, UpdateShrinks
  <2> QED BY <2>4, <2>5
<1> QED BY <1>5, <1>6 DEF CallPrecompile

LEMMA CreateShrinks ==
  ASSUME Inv, NEW cost \in InitCosts, NEW value \in Carries, CREATE(cost, value),
         frames' # <<>>
  PROVE  Work(frames') < Work(frames)
<1> DEFINE base == 32000 + cost
           r    == Remaining(Top) - base
           f    == NewFrame("create", AllButOne64th(r), base, 0, value)
<1>1. /\ frames # <<>> /\ base \in Nat \ {0} /\ cur \in Storage /\ value \in BOOLEAN
      BY CostsAssumption DEF CREATE, Running, Inv, TypeOK
<1>2. Top \in Frame
      BY <1>1, TopFacts
<1>3. Top.limit \in Nat /\ Top.used \in Nat /\ Top.prior \in Int /\ Top.refund \in Int
      BY <1>2 DEF Frame
<1>4. r > 0 /\ Enter(f)
      BY DEF CREATE
<1> HIDE DEF base
<1>5. r \in Nat
      BY <1>1, <1>3, <1>4 DEF Remaining
<1> HIDE DEF r
<1>6. AllButOne64th(r) \in Nat
      BY <1>5 DEF AllButOne64th
<1>7. f \in Frame
      BY <1>1, <1>3, <1>6 DEF NewFrame, Frame
<1>8. f.used = 0 /\ f.base = base /\ f.stipend = 0
      BY DEF NewFrame
<1> HIDE DEF f
<1> QED BY <1>1, <1>4, <1>7, <1>8, EnterShrinks

LEMMA ReturnCallShrinks == ASSUME Inv, ReturnCall PROVE Work(frames') < Work(frames)
<1> DEFINE refund == IF Top.status = "reverted" THEN 0 ELSE Top.refund
           back   == [Caller EXCEPT !.used = Caller.used + Top.used - Top.stipend,
                                    !.refund = Caller.refund + refund]
           f      == Charge(back, Top.base)
<1>1. Depth > 1 /\ Leave(f) /\ Top.status # "running"
      BY DEF ReturnCall, Ended
<1>2. /\ f \in Frame /\ SameFrame(f, Caller) /\ f.status = "running"
      /\ f.used = Caller.used + Top.base + Top.used - Top.stipend
      BY <1>1, ReturnCallSettles
<1>3. f.used \in Nat
      BY <1>2 DEF Frame
<1> HIDE DEF f
<1>4. f.used >= Caller.used + Top.base + Top.used - Top.stipend
      BY <1>2, <1>3
<1> QED BY <1>1, <1>2, <1>4, LeaveShrinks

LEMMA ReturnCreateShrinks == ASSUME Inv, ReturnCreate PROVE Work(frames') < Work(frames)
<1> DEFINE deposit == IF Top.status = "reverted" THEN 0 ELSE 200 * Top.ret
           broke   == Top.limit < Top.used + deposit
           undone  == broke \/ Top.status = "reverted"
           spent   == IF broke THEN Top.limit ELSE deposit + Top.used
           refund  == IF undone THEN 0 ELSE Top.refund
           f       == [Caller EXCEPT !.used = Caller.used + Top.base + spent,
                                     !.refund = Caller.refund + refund]
<1>1. Ended("create") /\ Depth > 1 /\ Leave(f) /\ Top.status # "running"
      BY DEF ReturnCreate, Ended
<1>2. f \in Frame /\ SameFrame(f, Caller) /\ f.status = "running"
      BY <1>1, ReturnCreateSettles
<1>3. Caller \in Frame /\ Top \in Frame /\ InBounds(Top) /\ Top.stipend = 0
      BY <1>1, CallerFacts DEF Ended, Settles
<1>4. /\ Top.base \in Nat /\ Top.limit \in Nat /\ Top.used \in Nat /\ Top.ret \in Nat
      /\ Top.used <= Top.limit /\ Caller.used \in Nat
      BY <1>3 DEF Frame, InBounds
<1>5. spent \in Nat /\ spent >= Top.used
  <2>1. deposit \in Nat
        BY <1>4
  <2> HIDE DEF deposit
  <2> QED BY <1>4, <2>1
<1>6. f.used = Caller.used + Top.base + spent
      BY <1>3 DEF Frame
<1> HIDE DEF f, spent
<1>7. f.used >= Caller.used + Top.base + Top.used - Top.stipend
      BY <1>3, <1>4, <1>5, <1>6
<1> QED BY <1>1, <1>2, <1>7, LeaveShrinks

\* While a transaction runs, every step leaves less to do.
LEMMA WorkStepHolds == Inv /\ [Next]_vars => [WorkStep]_vars
<1> SUFFICES ASSUME Inv, Next, frames # <<>>, frames' # <<>>, ~(UNCHANGED vars)
             PROVE  0 < Work(frames') /\ Work(frames') < Work(frames)
    BY DEF WorkStep
<1>1. 0 < Work(frames')
  <2>1. Inv'
        BY NextInv
  <2>2. Stack(frames', orig')
        BY <2>1 DEF Inv
  <2> QED BY <2>2, WorkBound
<1>2. ASSUME NEW c \in OpCosts, Opcode(c) PROVE Work(frames') < Work(frames)
      BY <1>2, ChargeShrinks, CostsAssumption DEF Opcode
<1>3. CASE Fail
      BY <1>1, <1>3, BurnShrinks DEF Fail
<1>4. ASSUME NEW status \in {"stopped", "reverted"}, NEW c \in OpCosts \cup {0},
             NEW size \in ReturnSizes, Finish(status, c, size)
      PROVE  Work(frames') < Work(frames)
      BY <1>4, FinishShrinks
<1>5. ASSUME NEW s \in Slot, NEW new \in Words, NEW access \in SlotCosts,
             SSTORE(s, new, access)
      PROVE  Work(frames') < Work(frames)
      BY <1>5, SstoreShrinks
<1>6. ASSUME NEW ct \in {"Call", "Delegate", "Static"}, NEW carries \in Carries,
             NEW empty \in BOOLEAN, NEW access \in AccessCosts, NEW g \in CallGas,
             CALL(ct, carries, empty, access, g)
      PROVE  Work(frames') < Work(frames)
      BY <1>6, CallShrinks
<1>7. ASSUME NEW ct \in {"Call", "Delegate", "Static"}, NEW carries \in Carries,
             NEW access \in AccessCosts, NEW c \in PrecompileCosts,
             CallPrecompile(ct, carries, access, c)
      PROVE  Work(frames') < Work(frames)
      BY <1>7, CallPrecompileShrinks
<1>8. ASSUME NEW cost \in InitCosts, NEW value \in Carries, CREATE(cost, value)
      PROVE  Work(frames') < Work(frames)
      BY <1>8, CreateShrinks
<1>9. CASE ReturnCall
      BY <1>1, <1>9, ReturnCallShrinks
<1>10. CASE ReturnCreate
       BY <1>1, <1>10, ReturnCreateShrinks
\* Transactions begin and end with no frame.
<1>11. ~EndCall /\ ~EndCreate /\ ~Aborted
       BY DEF EndCall, EndCreate, Aborted
<1>12. \A kind, data, access, value, spare : ~BeginTx(kind, data, access, value, spare)
       BY DEF BeginTx, Inv, TxInv
<1>13. Step
       BY <1>11, <1>12 DEF Next
<1> QED BY <1>1, <1>2, <1>3, <1>4, <1>5, <1>6, <1>7, <1>8, <1>9, <1>10, <1>11, <1>13 DEF Step

\* Why the opcode loop and the recursion of Executor::call and create end: until
\* a transaction does, each step leaves less to do, and there is always some left.
THEOREM WorkAlwaysShrinks == Spec => WorkShrinks
<1>1. Spec => []Inv
      BY GasInvariance
<1>2. Inv /\ [Next]_vars => [WorkStep]_vars
      BY WorkStepHolds
<1> QED BY <1>1, <1>2, PTL DEF Spec, WorkShrinks
=============================================================================
