----------------------------- MODULE FramesProofs -----------------------------
(***************************************************************************)
(* For every set of addresses, keys and values, every genesis, every       *)
(* nesting of calls and creations: the journal of each frame leads back    *)
(* exactly to the world it was entered with, so a reverted frame leaves    *)
(* storage, transient storage and warm addresses as they were, and nothing *)
(* under a STATICCALL changes storage.                                     *)
(***************************************************************************)
EXTENDS Frames, WellFoundedInduction, TLAPS

-----------------------------------------------------------------------------
(* Laws of Revert: on one touch it is the match arm of Evm::revert, and undoing *)
(* a concatenation undoes the second journal, then the first.                  *)

\* A non-empty set of indices has an earliest one, and Earliest picks it.
LEMMA EarliestIsLeast ==
  ASSUME NEW I, I \subseteq Nat, I # {}
  PROVE  Earliest(I) \in I /\ \A j \in I : Earliest(I) <= j
<1> DEFINE R == OpToRel(<, Nat)
<1>1. IsWellFoundedOn(R, Nat)
  BY NatLessThanWellFounded
<1>2. PICK i \in I : \A j \in I : ~(<<j, i>> \in R)
  <2> HIDE DEF R
  <2> QED BY <1>1, WFMin, Zenon
<1>3. \A j \in I : i <= j
  <2> SUFFICES ASSUME NEW j \in I PROVE i <= j
    OBVIOUS
  <2>1. ~(j < i)
    BY <1>2 DEF OpToRel
  <2> QED BY <2>1
<1> QED BY <1>3 DEF Earliest

\* The values Rewind takes from a journal compose over concatenation.
LEMMA RewindConcat ==
  ASSUME NEW S, NEW p \in Seq(S), NEW q \in Seq(S),
         NEW I \in SUBSET (DOMAIN p), NEW J \in SUBSET (DOMAIN q), NEW v
  PROVE  Rewind(p \o q, I \cup {Len(p) + j : j \in J}, v)
           = Rewind(p, I, Rewind(q, J, v))
<1> DEFINE K == I \cup {Len(p) + j : j \in J}
<1>1. I \subseteq Nat /\ J \subseteq Nat /\ K \subseteq Nat
  OBVIOUS
<1>2. CASE I # {}
  <2>1. Earliest(I) \in I /\ \A j \in I : Earliest(I) <= j
    BY <1>1, <1>2, EarliestIsLeast
  <2>2. Earliest(K) \in K /\ \A j \in K : Earliest(K) <= j
    BY <1>1, <1>2, EarliestIsLeast
  <2>3. Earliest(K) = Earliest(I)
    <3> HIDE DEF K
    <3>1. Earliest(K) <= Earliest(I)
      BY <2>1, <2>2 DEF K
    <3>2. Earliest(I) <= Len(p)
      BY <2>1
    <3>3. Earliest(K) \in I
      BY <3>1, <3>2, <2>2, <2>1 DEF K
    <3> QED BY <3>1, <3>3, <2>1
  <2>4. (p \o q)[Earliest(I)] = p[Earliest(I)]
    BY <2>1
  <2> QED BY <1>2, <2>3, <2>4 DEF Rewind
<1>3. CASE I = {} /\ J # {}
  <2>1. Earliest(J) \in J /\ \A j \in J : Earliest(J) <= j
    BY <1>1, <1>3, EarliestIsLeast
  <2>2. K # {}
    BY <1>3
  <2>3. Earliest(K) \in K /\ \A j \in K : Earliest(K) <= j
    BY <1>1, <2>2, EarliestIsLeast
  <2>4. PICK m \in J : Earliest(K) = Len(p) + m
    BY <2>3, <1>3
  <2>5. m = Earliest(J)
    <3>1. Len(p) + Earliest(J) \in K
      BY <2>1
    <3>2. Earliest(K) <= Len(p) + Earliest(J)
      BY <3>1, <2>3
    <3>3. m <= Earliest(J) /\ Earliest(J) <= m
      BY <3>2, <2>4, <2>1, <1>1
    <3> QED BY <3>3, <2>1, <1>1
  <2>6. (p \o q)[Len(p) + m] = q[m]
    OBVIOUS
  <2> QED BY <1>3, <2>2, <2>4, <2>5, <2>6 DEF Rewind
<1>4. CASE I = {} /\ J = {}
  BY <1>4 DEF Rewind
<1> QED BY <1>2, <1>3, <1>4

-----------------------------------------------------------------------------
(* The index sets of a concatenation *)

\* An index of p \o q is one of p, or one of q shifted by the length of p.
LEMMA ConcatIndices ==
  ASSUME NEW S, NEW p \in Seq(S), NEW q \in Seq(S)
  PROVE  /\ DOMAIN (p \o q) = DOMAIN p \cup {Len(p) + j : j \in DOMAIN q}
         /\ \A i \in DOMAIN p : (p \o q)[i] = p[i]
         /\ \A j \in DOMAIN q : (p \o q)[Len(p) + j] = q[j]
<1>1. DOMAIN (p \o q) = 1..(Len(p) + Len(q)) /\ DOMAIN p = 1..Len(p) /\ DOMAIN q = 1..Len(q)
  OBVIOUS
<1>2. Len(p) \in Nat /\ Len(q) \in Nat
  OBVIOUS
<1>3. ASSUME NEW m \in Nat, NEW n \in Nat
      PROVE  1..(m + n) = 1..m \cup {m + j : j \in 1..n}
  <2>1. ASSUME NEW i \in 1..(m + n), i \notin 1..m
        PROVE  i \in {m + j : j \in 1..n}
    <3>1. i - m \in 1..n /\ i = m + (i - m)
      BY <2>1
    <3> QED BY <3>1
  <2>2. ASSUME NEW i \in {m + j : j \in 1..n} PROVE i \in 1..(m + n)
    OBVIOUS
  <2>3. ASSUME NEW i \in 1..m PROVE i \in 1..(m + n)
    OBVIOUS
  <2> QED BY <2>1, <2>2, <2>3
<1>4. DOMAIN (p \o q) = DOMAIN p \cup {Len(p) + j : j \in DOMAIN q}
  <2>1. 1..(Len(p) + Len(q)) = 1..Len(p) \cup {Len(p) + j : j \in 1..Len(q)}
    BY <1>2, <1>3, Zenon
  <2> QED BY <1>1, <2>1, Zenon
<1>5. \A i \in DOMAIN p : (p \o q)[i] = p[i]
  OBVIOUS
<1>6. \A j \in DOMAIN q : (p \o q)[Len(p) + j] = q[j]
  OBVIOUS
<1> QED BY <1>4, <1>5, <1>6

LEMMA SlotTouchesConcat ==
  ASSUME NEW p \in Seq(Touch), NEW q \in Seq(Touch), NEW op, NEW s
  PROVE  SlotTouches(p \o q, op, s)
           = SlotTouches(p, op, s) \cup {Len(p) + j : j \in SlotTouches(q, op, s)}
<1> DEFINE L == SlotTouches(p \o q, op, s)
           I == SlotTouches(p, op, s)
           J == SlotTouches(q, op, s)
<1>1. /\ DOMAIN (p \o q) = DOMAIN p \cup {Len(p) + j : j \in DOMAIN q}
      /\ \A i \in DOMAIN p : (p \o q)[i] = p[i]
      /\ \A j \in DOMAIN q : (p \o q)[Len(p) + j] = q[j]
  BY ConcatIndices
<1>2. ASSUME NEW i \in L PROVE i \in I \cup {Len(p) + j : j \in J}
  <2>1. CASE i \in DOMAIN p
    BY <2>1, <1>1, Zenon DEF SlotTouches
  <2>2. CASE i \in {Len(p) + j : j \in DOMAIN q}
    <3>1. PICK j \in DOMAIN q : i = Len(p) + j
      BY <2>2, Zenon
    <3>2. j \in J
      BY <3>1, <1>1, Zenon DEF SlotTouches
    <3> QED BY <3>1, <3>2, Zenon
  <2>3. i \in DOMAIN (p \o q)
    BY Zenon DEF SlotTouches
  <2> QED BY <2>1, <2>2, <2>3, <1>1, Zenon
<1>3. ASSUME NEW i \in I PROVE i \in L
  BY <1>1, Zenon DEF SlotTouches
<1>4. ASSUME NEW j \in J PROVE Len(p) + j \in L
  <2>1. j \in DOMAIN q
    BY Zenon DEF SlotTouches
  <2>2. Len(p) + j \in DOMAIN (p \o q)
    BY <2>1, <1>1, Zenon
  <2> QED BY <2>1, <2>2, <1>1, Zenon DEF SlotTouches
<1> HIDE DEF L, I, J
<1>5. L = I \cup {Len(p) + j : j \in J}
  BY <1>2, <1>3, <1>4, Zenon
<1> QED BY <1>5 DEF L, I, J

LEMMA AddrTouchesConcat ==
  ASSUME NEW p \in Seq(Touch), NEW q \in Seq(Touch), NEW ops, NEW a
  PROVE  AddrTouches(p \o q, ops, a)
           = AddrTouches(p, ops, a) \cup {Len(p) + j : j \in AddrTouches(q, ops, a)}
<1> DEFINE L == AddrTouches(p \o q, ops, a)
           I == AddrTouches(p, ops, a)
           J == AddrTouches(q, ops, a)
<1>1. /\ DOMAIN (p \o q) = DOMAIN p \cup {Len(p) + j : j \in DOMAIN q}
      /\ \A i \in DOMAIN p : (p \o q)[i] = p[i]
      /\ \A j \in DOMAIN q : (p \o q)[Len(p) + j] = q[j]
  BY ConcatIndices
<1>2. ASSUME NEW i \in L PROVE i \in I \cup {Len(p) + j : j \in J}
  <2>1. CASE i \in DOMAIN p
    BY <2>1, <1>1, Zenon DEF AddrTouches
  <2>2. CASE i \in {Len(p) + j : j \in DOMAIN q}
    <3>1. PICK j \in DOMAIN q : i = Len(p) + j
      BY <2>2, Zenon
    <3>2. j \in J
      BY <3>1, <1>1, Zenon DEF AddrTouches
    <3> QED BY <3>1, <3>2, Zenon
  <2>3. i \in DOMAIN (p \o q)
    BY Zenon DEF AddrTouches
  <2> QED BY <2>1, <2>2, <2>3, <1>1, Zenon
<1>3. ASSUME NEW i \in I PROVE i \in L
  BY <1>1, Zenon DEF AddrTouches
<1>4. ASSUME NEW j \in J PROVE Len(p) + j \in L
  <2>1. j \in DOMAIN q
    BY Zenon DEF AddrTouches
  <2>2. Len(p) + j \in DOMAIN (p \o q)
    BY <2>1, <1>1, Zenon
  <2> QED BY <2>1, <2>2, <1>1, Zenon DEF AddrTouches
<1> HIDE DEF L, I, J
<1>5. L = I \cup {Len(p) + j : j \in J}
  BY <1>2, <1>3, <1>4, Zenon
<1> QED BY <1>5 DEF L, I, J

LEMMA CoolersConcat ==
  ASSUME NEW p \in Seq(Touch), NEW q \in Seq(Touch), NEW s
  PROVE  Coolers(p \o q, s)
           = Coolers(p, s) \cup {Len(p) + j : j \in Coolers(q, s)}
<1> DEFINE L == Coolers(p \o q, s)
           I == Coolers(p, s)
           J == Coolers(q, s)
<1>1. /\ DOMAIN (p \o q) = DOMAIN p \cup {Len(p) + j : j \in DOMAIN q}
      /\ \A i \in DOMAIN p : (p \o q)[i] = p[i]
      /\ \A j \in DOMAIN q : (p \o q)[Len(p) + j] = q[j]
  BY ConcatIndices
<1>2. ASSUME NEW i \in L PROVE i \in I \cup {Len(p) + j : j \in J}
  <2>1. CASE i \in DOMAIN p
    BY <2>1, <1>1, Zenon DEF Coolers
  <2>2. CASE i \in {Len(p) + j : j \in DOMAIN q}
    <3>1. PICK j \in DOMAIN q : i = Len(p) + j
      BY <2>2, Zenon
    <3>2. j \in J
      BY <3>1, <1>1, Zenon DEF Coolers
    <3> QED BY <3>1, <3>2, Zenon
  <2>3. i \in DOMAIN (p \o q)
    BY Zenon DEF Coolers
  <2> QED BY <2>1, <2>2, <2>3, <1>1, Zenon
<1>3. ASSUME NEW i \in I PROVE i \in L
  BY <1>1, Zenon DEF Coolers
<1>4. ASSUME NEW j \in J PROVE Len(p) + j \in L
  <2>1. j \in DOMAIN q
    BY Zenon DEF Coolers
  <2>2. Len(p) + j \in DOMAIN (p \o q)
    BY <2>1, <1>1, Zenon
  <2> QED BY <2>1, <2>2, <1>1, Zenon DEF Coolers
<1> HIDE DEF L, I, J
<1>5. L = I \cup {Len(p) + j : j \in J}
  BY <1>2, <1>3, <1>4, Zenon
<1> QED BY <1>5 DEF L, I, J

-----------------------------------------------------------------------------
(* Each part of the world *)

LEMMA UndoStorageConcat ==
  ASSUME NEW p \in Seq(Touch), NEW q \in Seq(Touch), NEW f
  PROVE  UndoStorage(p \o q, f) = UndoStorage(p, UndoStorage(q, f))
<1> SUFFICES ASSUME NEW s \in Slots
             PROVE  UndoStorage(p \o q, f)[s] = UndoStorage(p, UndoStorage(q, f))[s]
  BY DEF UndoStorage
<1> DEFINE I == SlotTouches(p, "SetState", s)
           J == SlotTouches(q, "SetState", s)
<1>1. I \in SUBSET (DOMAIN p) /\ J \in SUBSET (DOMAIN q)
  BY DEF SlotTouches
<1>2. SlotTouches(p \o q, "SetState", s) = I \cup {Len(p) + j : j \in J}
  BY SlotTouchesConcat
<1> HIDE DEF I, J
<1>3. Rewind(p \o q, I \cup {Len(p) + j : j \in J}, f[s])
        = Rewind(p, I, Rewind(q, J, f[s]))
  BY <1>1, RewindConcat
<1> QED BY <1>2, <1>3 DEF UndoStorage, I, J

LEMMA UndoTransientConcat ==
  ASSUME NEW p \in Seq(Touch), NEW q \in Seq(Touch), NEW f
  PROVE  UndoTransient(p \o q, f) = UndoTransient(p, UndoTransient(q, f))
<1> SUFFICES ASSUME NEW s \in Slots
             PROVE  UndoTransient(p \o q, f)[s] = UndoTransient(p, UndoTransient(q, f))[s]
  BY DEF UndoTransient
<1> DEFINE I == SlotTouches(p, "SetTransientState", s)
           J == SlotTouches(q, "SetTransientState", s)
<1>1. I \in SUBSET (DOMAIN p) /\ J \in SUBSET (DOMAIN q)
  BY DEF SlotTouches
<1>2. SlotTouches(p \o q, "SetTransientState", s) = I \cup {Len(p) + j : j \in J}
  BY SlotTouchesConcat
<1> HIDE DEF I, J
<1>3. Rewind(p \o q, I \cup {Len(p) + j : j \in J}, f[s])
        = Rewind(p, I, Rewind(q, J, f[s]))
  BY <1>1, RewindConcat
<1> QED BY <1>2, <1>3 DEF UndoTransient, I, J

LEMMA UndoNonceConcat ==
  ASSUME NEW p \in Seq(Touch), NEW q \in Seq(Touch), NEW f
  PROVE  UndoNonce(p \o q, f) = UndoNonce(p, UndoNonce(q, f))
<1> SUFFICES ASSUME NEW a \in Addr
             PROVE  UndoNonce(p \o q, f)[a] = UndoNonce(p, UndoNonce(q, f))[a]
  BY DEF UndoNonce
<1> DEFINE I == AddrTouches(p, {"SetNonce", "Create"}, a)
           J == AddrTouches(q, {"SetNonce", "Create"}, a)
<1>1. I \in SUBSET (DOMAIN p) /\ J \in SUBSET (DOMAIN q)
  BY DEF AddrTouches
<1>2. AddrTouches(p \o q, {"SetNonce", "Create"}, a) = I \cup {Len(p) + j : j \in J}
  BY AddrTouchesConcat
<1> HIDE DEF I, J
<1>3. Rewind(p \o q, I \cup {Len(p) + j : j \in J}, f[a])
        = Rewind(p, I, Rewind(q, J, f[a]))
  BY <1>1, RewindConcat
<1> QED BY <1>2, <1>3 DEF UndoNonce, I, J

LEMMA UndoBalanceConcat ==
  ASSUME NEW p \in Seq(Touch), NEW q \in Seq(Touch), NEW f
  PROVE  UndoBalance(p \o q, f) = UndoBalance(p, UndoBalance(q, f))
<1> SUFFICES ASSUME NEW a \in Addr
             PROVE  UndoBalance(p \o q, f)[a] = UndoBalance(p, UndoBalance(q, f))[a]
  BY DEF UndoBalance
<1> DEFINE I == AddrTouches(p, {"SetValue", "Create"}, a)
           J == AddrTouches(q, {"SetValue", "Create"}, a)
<1>1. I \in SUBSET (DOMAIN p) /\ J \in SUBSET (DOMAIN q)
  BY DEF AddrTouches
<1>2. AddrTouches(p \o q, {"SetValue", "Create"}, a) = I \cup {Len(p) + j : j \in J}
  BY AddrTouchesConcat
<1> HIDE DEF I, J
<1>3. Rewind(p \o q, I \cup {Len(p) + j : j \in J}, f[a])
        = Rewind(p, I, Rewind(q, J, f[a]))
  BY <1>1, RewindConcat
<1> QED BY <1>2, <1>3 DEF UndoBalance, I, J

LEMMA UndoCodeConcat ==
  ASSUME NEW p \in Seq(Touch), NEW q \in Seq(Touch), NEW f
  PROVE  UndoCode(p \o q, f) = UndoCode(p, UndoCode(q, f))
<1>1. ASSUME NEW a \in Addr
      PROVE  AddrTouches(p \o q, {"Create"}, a) = {} <=>
               AddrTouches(p, {"Create"}, a) = {} /\ AddrTouches(q, {"Create"}, a) = {}
  <2>1. AddrTouches(p \o q, {"Create"}, a)
          = AddrTouches(p, {"Create"}, a) \cup {Len(p) + n : n \in AddrTouches(q, {"Create"}, a)}
    BY AddrTouchesConcat
  <2>2. AddrTouches(p, {"Create"}, a) \cup {Len(p) + n : n \in AddrTouches(q, {"Create"}, a)} = {}
          <=> AddrTouches(p, {"Create"}, a) = {} /\ AddrTouches(q, {"Create"}, a) = {}
    OBVIOUS
  <2> QED BY <2>1, <2>2
<1> QED BY <1>1 DEF UndoCode

LEMMA UndoWarmAddrConcat ==
  ASSUME NEW p \in Seq(Touch), NEW q \in Seq(Touch), NEW W
  PROVE  UndoWarmAddr(p \o q, W) = UndoWarmAddr(p, UndoWarmAddr(q, W))
<1>1. ASSUME NEW a
      PROVE  AddrTouches(p \o q, {"WarmUp"}, a) = {} <=>
               AddrTouches(p, {"WarmUp"}, a) = {} /\ AddrTouches(q, {"WarmUp"}, a) = {}
  <2>1. AddrTouches(p \o q, {"WarmUp"}, a)
          = AddrTouches(p, {"WarmUp"}, a) \cup {Len(p) + n : n \in AddrTouches(q, {"WarmUp"}, a)}
    BY AddrTouchesConcat
  <2>2. AddrTouches(p, {"WarmUp"}, a) \cup {Len(p) + n : n \in AddrTouches(q, {"WarmUp"}, a)} = {}
          <=> AddrTouches(p, {"WarmUp"}, a) = {} /\ AddrTouches(q, {"WarmUp"}, a) = {}
    OBVIOUS
  <2> QED BY <2>1, <2>2
<1> QED BY <1>1 DEF UndoWarmAddr

LEMMA UndoWarmSlotConcat ==
  ASSUME NEW p \in Seq(Touch), NEW q \in Seq(Touch), NEW W
  PROVE  UndoWarmSlot(p \o q, W) = UndoWarmSlot(p, UndoWarmSlot(q, W))
<1>1. ASSUME NEW s
      PROVE  Coolers(p \o q, s) = {} <=> Coolers(p, s) = {} /\ Coolers(q, s) = {}
  <2>1. Coolers(p \o q, s)
          = Coolers(p, s) \cup {Len(p) + n : n \in Coolers(q, s)}
    BY CoolersConcat
  <2>2. Coolers(p, s) \cup {Len(p) + n : n \in Coolers(q, s)} = {}
          <=> Coolers(p, s) = {} /\ Coolers(q, s) = {}
    OBVIOUS
  <2> QED BY <2>1, <2>2
<1> QED BY <1>1 DEF UndoWarmSlot

LEMMA UndoPresentConcat ==
  ASSUME NEW p \in Seq(Touch), NEW q \in Seq(Touch), NEW P
  PROVE  UndoPresent(p \o q, P) = UndoPresent(p, UndoPresent(q, P))
<1>1. ASSUME NEW s
      PROVE  SlotTouches(p \o q, "SetState", s) = {} <=>
               /\ SlotTouches(p, "SetState", s) = {}
               /\ SlotTouches(q, "SetState", s) = {}
  <2>1. SlotTouches(p \o q, "SetState", s)
          = SlotTouches(p, "SetState", s) \cup {Len(p) + n : n \in SlotTouches(q, "SetState", s)}
    BY SlotTouchesConcat
  <2>2. SlotTouches(p, "SetState", s) \cup {Len(p) + n : n \in SlotTouches(q, "SetState", s)} = {}
          <=> SlotTouches(p, "SetState", s) = {} /\ SlotTouches(q, "SetState", s) = {}
    OBVIOUS
  <2> QED BY <2>1, <2>2
<1> QED BY <1>1 DEF UndoPresent

\* Undoing the journal p \o q is undoing q, then undoing p: Revert is the replay of
\* Evm::revert from the last touch to the first.
THEOREM RevertConcat ==
  ASSUME NEW p \in Seq(Touch), NEW q \in Seq(Touch), NEW e \in Ext
  PROVE  Revert(p \o q, e) = Revert(p, Revert(q, e))
BY UndoStorageConcat, UndoTransientConcat, UndoNonceConcat, UndoBalanceConcat,
   UndoCodeConcat, UndoWarmAddrConcat, UndoWarmSlotConcat, UndoPresentConcat
   DEF Revert

\* The value a journal of one touch rewinds to.
LEMMA RewindOne ==
  ASSUME NEW t, NEW v
  PROVE  Rewind(<<t>>, {}, v) = v /\ Rewind(<<t>>, {1}, v) = Old(t)
<1>1. Earliest({1}) = 1
  BY DEF Earliest
<1> QED BY <1>1 DEF Rewind

\* On a journal of one touch Revert is the arm of the match in Evm::revert.
THEOREM RevertOne ==
  ASSUME NEW t \in Touch, NEW e \in Ext
  PROVE  Revert(<<t>>, e) = UndoTouch(t, e)
<1> DEFINE ts == <<t>>
<1>1. \A op, s : SlotTouches(ts, op, s) = IF t.op = op /\ t.slot = s THEN {1} ELSE {}
  BY DEF SlotTouches
<1>2. \A ops, a : AddrTouches(ts, ops, a) = IF t.op \in ops /\ t.addr = a THEN {1} ELSE {}
  BY DEF AddrTouches
<1>3. \A s : Coolers(ts, s) = IF t.op \in {"GetState", "SetState"} /\ t.slot = s /\ ~t.warm
                              THEN {1} ELSE {}
  BY DEF Coolers
<1>4. \A v : Rewind(ts, {}, v) = v /\ Rewind(ts, {1}, v) = Old(t)
  BY RewindOne
<1> HIDE DEF ts
<1>5. UndoStorage(ts, e.storage)
        = [s \in Slots |-> IF t.op = "SetState" /\ t.slot = s THEN t.old ELSE e.storage[s]]
  BY <1>1, <1>4 DEF UndoStorage, Old
<1>6. UndoTransient(ts, e.transient)
        = [s \in Slots |-> IF t.op = "SetTransientState" /\ t.slot = s THEN t.old
                           ELSE e.transient[s]]
  BY <1>1, <1>4 DEF UndoTransient, Old
<1>7. UndoNonce(ts, e.nonce)
        = [a \in Addr |-> IF t.op \in {"SetNonce", "Create"} /\ t.addr = a THEN Old(t)
                          ELSE e.nonce[a]]
  BY <1>2, <1>4 DEF UndoNonce
<1>8. UndoBalance(ts, e.balance)
        = [a \in Addr |-> IF t.op \in {"SetValue", "Create"} /\ t.addr = a THEN Old(t)
                          ELSE e.balance[a]]
  BY <1>2, <1>4 DEF UndoBalance
<1>9. UndoCode(ts, e.code)
        = [a \in Addr |-> IF t.op = "Create" /\ t.addr = a THEN Empty ELSE e.code[a]]
  BY <1>2 DEF UndoCode
<1>10. UndoWarmAddr(ts, e.warmAddr) = IF t.op = "WarmUp" THEN e.warmAddr \ {t.addr}
                                      ELSE e.warmAddr
  BY <1>2 DEF UndoWarmAddr
<1>11. UndoWarmSlot(ts, e.warmSlot)
         = IF t.op \in {"GetState", "SetState"} /\ ~t.warm THEN e.warmSlot \ {t.slot}
           ELSE e.warmSlot
  BY <1>3 DEF UndoWarmSlot
<1>12. UndoPresent(ts, e.present) = IF t.op = "SetState" THEN e.present \cup {t.slot}
                                    ELSE e.present
  BY <1>1 DEF UndoPresent, Touch
<1>13. CASE t.op = "SetState"
  <2>1. t.slot \in Slots /\ t.warm \in BOOLEAN
    BY <1>13 DEF Touch
  <2>2. UndoTouch(t, e) = [e EXCEPT !.storage = [e.storage EXCEPT ![t.slot] = t.old],
                                    !.present = e.present \cup {t.slot},
                                    !.warmSlot = UndoWarmSlot(ts, e.warmSlot)]
    BY <1>13, <1>11, <2>1 DEF UndoTouch
  <2>3. UndoStorage(ts, e.storage) = [e.storage EXCEPT ![t.slot] = t.old]
    BY <1>13, <1>5, <2>1 DEF Ext
  <2>4. /\ UndoTransient(ts, e.transient) = e.transient
        /\ UndoNonce(ts, e.nonce) = e.nonce
        /\ UndoBalance(ts, e.balance) = e.balance
        /\ UndoCode(ts, e.code) = e.code
        /\ UndoWarmAddr(ts, e.warmAddr) = e.warmAddr
        /\ UndoPresent(ts, e.present) = e.present \cup {t.slot}
    BY <1>13, <1>6, <1>7, <1>8, <1>9, <1>10, <1>12 DEF Ext
  <2> QED BY <2>2, <2>3, <2>4 DEF Revert, Ext, ts
<1>14. CASE t.op = "SetTransientState"
  BY <1>14, <1>5, <1>6, <1>7, <1>8, <1>9, <1>10, <1>11, <1>12
     DEF Revert, UndoTouch, Ext, Touch, ts
<1>15. CASE t.op = "GetState"
  <2>1. t.slot \in Slots /\ t.warm \in BOOLEAN
    BY <1>15 DEF Touch
  <2>2. UndoTouch(t, e) = [e EXCEPT !.warmSlot = UndoWarmSlot(ts, e.warmSlot)]
    BY <1>15, <1>11, <2>1 DEF UndoTouch
  <2> QED BY <1>15, <2>2, <1>5, <1>6, <1>7, <1>8, <1>9, <1>10, <1>12 DEF Revert, Ext, ts
<1>16. CASE t.op = "SetNonce"
  BY <1>16, <1>5, <1>6, <1>7, <1>8, <1>9, <1>10, <1>11, <1>12
     DEF Revert, UndoTouch, Ext, Touch, ts, Old
<1>17. CASE t.op = "SetValue"
  BY <1>17, <1>5, <1>6, <1>7, <1>8, <1>9, <1>10, <1>11, <1>12
     DEF Revert, UndoTouch, Ext, Touch, ts, Old
<1>18. CASE t.op = "Create"
  <2>1. t.addr \in Addr /\ Old(t) = 0
    BY <1>18 DEF Touch, Old
  <2>2. UndoTouch(t, e) = [e EXCEPT !.code = [e.code EXCEPT ![t.addr] = Empty],
                                    !.nonce = [e.nonce EXCEPT ![t.addr] = 0],
                                    !.balance = [e.balance EXCEPT ![t.addr] = 0]]
    BY <1>18 DEF UndoTouch
  <2>3. /\ UndoCode(ts, e.code) = [e.code EXCEPT ![t.addr] = Empty]
        /\ UndoNonce(ts, e.nonce) = [e.nonce EXCEPT ![t.addr] = 0]
        /\ UndoBalance(ts, e.balance) = [e.balance EXCEPT ![t.addr] = 0]
    BY <1>18, <1>7, <1>8, <1>9, <2>1 DEF Ext
  <2>4. /\ UndoStorage(ts, e.storage) = e.storage
        /\ UndoTransient(ts, e.transient) = e.transient
        /\ UndoWarmAddr(ts, e.warmAddr) = e.warmAddr
        /\ UndoWarmSlot(ts, e.warmSlot) = e.warmSlot
        /\ UndoPresent(ts, e.present) = e.present
    BY <1>18, <1>5, <1>6, <1>10, <1>11, <1>12 DEF Ext
  <2> QED BY <2>2, <2>3, <2>4 DEF Revert, Ext, ts
<1>19. CASE t.op = "WarmUp"
  <2>1. UndoTouch(t, e) = [e EXCEPT !.warmAddr = UndoWarmAddr(ts, e.warmAddr)]
    BY <1>19, <1>10 DEF UndoTouch
  <2> QED BY <1>19, <2>1, <1>5, <1>6, <1>7, <1>8, <1>9, <1>11, <1>12 DEF Revert, Ext, ts
<1>20. CASE t.op = "Noop"
  BY <1>20, <1>5, <1>6, <1>7, <1>8, <1>9, <1>10, <1>11, <1>12
     DEF Revert, UndoTouch, Ext, Touch, ts
<1>21. t.op \in {"SetState", "SetTransientState", "GetState", "SetNonce", "SetValue",
                 "Create", "WarmUp", "Noop"}
  BY DEF Touch
<1> QED BY <1>13, <1>14, <1>15, <1>16, <1>17, <1>18, <1>19, <1>20, <1>21

-----------------------------------------------------------------------------
(* Steps and the touches that account for them *)

\* A step of the world that the touches ts account for.
Sound(e, ts, f) == Recorded(e, ts, f) /\ KeepsWarm(e, ts, f)

\* The parts of the world that Sound is about are equal.
Same(e, f) == /\ e.storage = f.storage
              /\ e.transient = f.transient
              /\ e.warmAddr = f.warmAddr
              /\ e.warmSlot = f.warmSlot

\* Touches that undo nothing Sound is about, coolers aside.
Neutral(ts) ==
  \A i \in DOMAIN ts : ts[i].op \notin {"SetState", "SetTransientState", "WarmUp"}

-----------------------------------------------------------------------------
(* Sound steps *)

LEMMA SoundCompose ==
  ASSUME NEW p \in Seq(Touch), NEW q \in Seq(Touch), NEW e, NEW f, NEW g,
         Sound(e, p, f), Sound(f, q, g)
  PROVE  Sound(e, p \o q, g)
<1>1. Recorded(e, p \o q, g)
  BY UndoStorageConcat, UndoTransientConcat, UndoWarmAddrConcat DEF Sound, Recorded
<1>2. KeepsWarm(e, p \o q, g)
  <2>1. UndoWarmSlot(p \o q, g.warmSlot) = UndoWarmSlot(p, UndoWarmSlot(q, g.warmSlot))
    BY UndoWarmSlotConcat
  <2>2. UndoWarmSlot(p, f.warmSlot) \subseteq UndoWarmSlot(p, UndoWarmSlot(q, g.warmSlot))
    BY DEF Sound, KeepsWarm, UndoWarmSlot
  <2> QED BY <2>1, <2>2 DEF Sound, KeepsWarm
<1> QED BY <1>1, <1>2 DEF Sound

LEMMA SoundNeutral ==
  ASSUME NEW ts \in Seq(Touch), NEW e \in Ext, NEW f \in Ext,
         Neutral(ts), Same(e, f), \A s : Coolers(ts, s) = {}
  PROVE  Sound(e, ts, f)
<1>1. \A s : SlotTouches(ts, "SetState", s) = {}
  BY DEF Neutral, SlotTouches
<1>2. \A s : SlotTouches(ts, "SetTransientState", s) = {}
  BY DEF Neutral, SlotTouches
<1>3. \A a : AddrTouches(ts, {"WarmUp"}, a) = {}
  BY DEF Neutral, AddrTouches
<1>4. UndoStorage(ts, f.storage) = f.storage
  BY <1>1 DEF UndoStorage, Rewind, Ext
<1>5. UndoTransient(ts, f.transient) = f.transient
  BY <1>2 DEF UndoTransient, Rewind, Ext
<1>6. UndoWarmAddr(ts, f.warmAddr) = f.warmAddr
  BY <1>3 DEF UndoWarmAddr
<1>7. UndoWarmSlot(ts, f.warmSlot) = f.warmSlot
  BY DEF UndoWarmSlot
<1> QED BY <1>4, <1>5, <1>6, <1>7 DEF Sound, Recorded, KeepsWarm, Same

LEMMA SoundNothing ==
  ASSUME NEW e \in Ext, NEW f \in Ext, Same(e, f)
  PROVE  Sound(e, <<>>, f)
<1>1. <<>> \in Seq(Touch) /\ Neutral(<<>>) /\ \A s : Coolers(<<>>, s) = {}
  BY DEF Neutral, Coolers
<1> QED BY <1>1, SoundNeutral

LEMMA SoundTransfer ==
  ASSUME NEW e \in Ext, NEW f \in Ext, Same(e, f),
         NEW g \in Ext, NEW src \in Addr, NEW dst \in Addr
  PROVE  /\ TransferTouches(g, src, dst) \in Seq(Touch)
         /\ Sound(e, TransferTouches(g, src, dst), f)
<1> DEFINE ts == TransferTouches(g, src, dst)
<1>1. ts \in Seq(Touch)
  BY DEF TransferTouches, SetValue, Touch, Ext
<1>2. Neutral(ts) /\ \A s : Coolers(ts, s) = {}
  BY DEF TransferTouches, SetValue, Neutral, Coolers
<1> QED BY <1>1, <1>2, SoundNeutral

LEMMA SoundNonce ==
  ASSUME NEW e \in Ext, NEW f \in Ext, Same(e, f), NEW a \in Addr, NEW n \in Nat
  PROVE  /\ <<SetNonce(a, n)>> \in Seq(Touch)
         /\ Sound(e, <<SetNonce(a, n)>>, f)
<1>1. <<SetNonce(a, n)>> \in Seq(Touch)
  BY DEF SetNonce, Touch
<1>2. Neutral(<<SetNonce(a, n)>>) /\ \A s : Coolers(<<SetNonce(a, n)>>, s) = {}
  BY DEF SetNonce, Neutral, Coolers
<1> QED BY <1>1, <1>2, SoundNeutral

LEMMA SoundCreate ==
  ASSUME NEW e \in Ext, NEW f \in Ext, Same(e, f), NEW a \in Addr
  PROVE  /\ <<CreateTouch(a)>> \in Seq(Touch)
         /\ Sound(e, <<CreateTouch(a)>>, f)
<1>1. <<CreateTouch(a)>> \in Seq(Touch)
  BY DEF CreateTouch, Touch
<1>2. Neutral(<<CreateTouch(a)>>) /\ \A s : Coolers(<<CreateTouch(a)>>, s) = {}
  BY DEF CreateTouch, Neutral, Coolers
<1> QED BY <1>1, <1>2, SoundNeutral

LEMMA SoundWarm ==
  ASSUME NEW e \in Ext, NEW a \in Addr
  PROVE  /\ WarmTouch(e, a) \in Seq(Touch)
         /\ WarmAddress(e, a) \in Ext
         /\ Sound(e, WarmTouch(e, a), WarmAddress(e, a))
<1>1. WarmAddress(e, a) \in Ext
  BY DEF WarmAddress, Ext
<1>2. CASE a \in e.warmAddr
  <2>1. Same(e, WarmAddress(e, a))
    BY <1>2 DEF Same, WarmAddress, Ext
  <2> QED BY <1>1, <1>2, <2>1, SoundNothing DEF WarmTouch
<1>3. CASE a \notin e.warmAddr
  <2> DEFINE ts == <<WarmUp(a)>>
             f == WarmAddress(e, a)
  <2>1. ts \in Seq(Touch)
    BY DEF WarmUp, Touch
  <2>2. /\ f.storage = e.storage /\ f.transient = e.transient
        /\ f.warmSlot = e.warmSlot /\ f.warmAddr = e.warmAddr \cup {a}
    BY DEF WarmAddress, Ext
  <2>3. \A b : AddrTouches(ts, {"WarmUp"}, b) = IF b = a THEN {1} ELSE {}
    BY DEF AddrTouches, WarmUp
  <2>4. \A s : /\ SlotTouches(ts, "SetState", s) = {}
               /\ SlotTouches(ts, "SetTransientState", s) = {}
               /\ Coolers(ts, s) = {}
    BY DEF SlotTouches, Coolers, WarmUp
  <2> HIDE DEF ts, f
  <2>5. UndoWarmAddr(ts, f.warmAddr) = e.warmAddr
    BY <1>3, <2>2, <2>3 DEF UndoWarmAddr
  <2>6. /\ UndoStorage(ts, f.storage) = e.storage
        /\ UndoTransient(ts, f.transient) = e.transient
    BY <2>2, <2>4 DEF UndoStorage, UndoTransient, Rewind, Ext
  <2>7. UndoWarmSlot(ts, f.warmSlot) = e.warmSlot
    BY <2>2, <2>4 DEF UndoWarmSlot
  <2>8. Sound(e, ts, f)
    BY <2>5, <2>6, <2>7 DEF Sound, Recorded, KeepsWarm
  <2> QED BY <1>1, <1>3, <2>1, <2>8 DEF WarmTouch, ts, f
<1> QED BY <1>2, <1>3

LEMMA SoundAccess ==
  ASSUME NEW e \in Ext, NEW a \in Addr
  PROVE  /\ AccessTouch(e, a) \in Seq(Touch)
         /\ Access(e, a) \in Ext
         /\ Sound(e, AccessTouch(e, a), Access(e, a))
<1>1. CASE a \in Precompile
  <2>1. Same(e, e)
    BY DEF Same
  <2> QED BY <1>1, <2>1, SoundNothing DEF Access, AccessTouch
<1>2. CASE a \notin Precompile
  BY <1>2, SoundWarm DEF Access, AccessTouch
<1> QED BY <1>1, <1>2

LEMMA SoundGetState ==
  ASSUME NEW e \in Ext, NEW f \in Ext, NEW s \in Slots,
         f.storage = e.storage, f.transient = e.transient, f.warmAddr = e.warmAddr,
         f.warmSlot = e.warmSlot \cup {s}
  PROVE  /\ <<GetState(s, s \in e.warmSlot)>> \in Seq(Touch)
         /\ Sound(e, <<GetState(s, s \in e.warmSlot)>>, f)
<1> DEFINE w == s \in e.warmSlot
<1>0. w \in BOOLEAN /\ (w <=> s \in e.warmSlot)
  OBVIOUS
<1> HIDE DEF w
<1> DEFINE ts == <<GetState(s, w)>>
<1>1. ts \in Seq(Touch)
  BY <1>0 DEF GetState, Touch
<1>2. \A r : /\ SlotTouches(ts, "SetState", r) = {}
             /\ SlotTouches(ts, "SetTransientState", r) = {}
  BY DEF SlotTouches, GetState
<1>3. \A a : AddrTouches(ts, {"WarmUp"}, a) = {}
  BY DEF AddrTouches, GetState
<1>4. \A r \in e.warmSlot : Coolers(ts, r) = {}
  <2> SUFFICES ASSUME NEW r \in e.warmSlot, NEW i \in Coolers(ts, r) PROVE FALSE
    OBVIOUS
  <2>1. i \in DOMAIN ts /\ ts[i].slot = r /\ ~ts[i].warm
    BY DEF Coolers
  <2>2. ts[i].slot = s /\ ts[i].warm = w
    BY <2>1 DEF GetState
  <2> QED BY <2>1, <2>2, <1>0
<1> HIDE DEF ts
<1>5. /\ UndoStorage(ts, f.storage) = e.storage
      /\ UndoTransient(ts, f.transient) = e.transient
  BY <1>2 DEF UndoStorage, UndoTransient, Rewind, Ext
<1>6. UndoWarmAddr(ts, f.warmAddr) = e.warmAddr
  BY <1>3 DEF UndoWarmAddr
<1>7. e.warmSlot \subseteq UndoWarmSlot(ts, f.warmSlot)
  BY <1>4 DEF UndoWarmSlot
<1>8. Sound(e, ts, f)
  BY <1>5, <1>6, <1>7 DEF Sound, Recorded, KeepsWarm
<1> QED BY <1>1, <1>8 DEF ts, w

LEMMA SoundSetState ==
  ASSUME NEW e \in Ext, NEW f \in Ext, NEW s \in Slots,
         \A r \in Slots \ {s} : f.storage[r] = e.storage[r],
         f.transient = e.transient, f.warmAddr = e.warmAddr,
         f.warmSlot = e.warmSlot \cup {s}
  PROVE  /\ <<SetState(s, e.storage[s], s \in e.warmSlot)>> \in Seq(Touch)
         /\ Sound(e, <<SetState(s, e.storage[s], s \in e.warmSlot)>>, f)
<1> DEFINE w == s \in e.warmSlot
           v == e.storage[s]
<1>0. w \in BOOLEAN /\ (w <=> s \in e.warmSlot)
  OBVIOUS
<1> HIDE DEF w
<1> DEFINE ts == <<SetState(s, v, w)>>
<1>1. ts \in Seq(Touch)
  <2>1. v \in Values
    BY DEF Ext
  <2> QED BY <2>1, <1>0 DEF SetState, Touch
<1>2. \A r : /\ SlotTouches(ts, "SetState", r) = IF r = s THEN {1} ELSE {}
             /\ SlotTouches(ts, "SetTransientState", r) = {}
  BY DEF SlotTouches, SetState
<1>3. \A a : AddrTouches(ts, {"WarmUp"}, a) = {}
  BY DEF AddrTouches, SetState
<1>4. \A r \in e.warmSlot : Coolers(ts, r) = {}
  <2> SUFFICES ASSUME NEW r \in e.warmSlot, NEW i \in Coolers(ts, r) PROVE FALSE
    OBVIOUS
  <2>1. i \in DOMAIN ts /\ ts[i].slot = r /\ ~ts[i].warm
    BY DEF Coolers
  <2>2. ts[i].slot = s /\ ts[i].warm = w
    BY <2>1 DEF SetState
  <2> QED BY <2>1, <2>2, <1>0
<1>5. \A x : Rewind(ts, {}, x) = x /\ Rewind(ts, {1}, x) = v
  <2>1. Old(SetState(s, v, w)) = v
    BY DEF Old, SetState
  <2>2. \A x : Rewind(<<SetState(s, v, w)>>, {}, x) = x
    BY DEF Rewind
  <2>3. \A x : Rewind(<<SetState(s, v, w)>>, {1}, x) = Old(SetState(s, v, w))
    BY RewindOne
  <2> QED BY <2>1, <2>2, <2>3
<1> HIDE DEF ts
<1>6. UndoStorage(ts, f.storage) = e.storage
  <2>1. \A r \in Slots : Rewind(ts, SlotTouches(ts, "SetState", r), f.storage[r]) = e.storage[r]
    BY <1>2, <1>5
  <2> QED BY <2>1 DEF UndoStorage, Ext
<1>7. UndoTransient(ts, f.transient) = e.transient
  BY <1>2, <1>5 DEF UndoTransient, Ext
<1>8. UndoWarmAddr(ts, f.warmAddr) = e.warmAddr
  BY <1>3 DEF UndoWarmAddr
<1>9. e.warmSlot \subseteq UndoWarmSlot(ts, f.warmSlot)
  BY <1>4 DEF UndoWarmSlot
<1>10. Sound(e, ts, f)
  BY <1>6, <1>7, <1>8, <1>9 DEF Sound, Recorded, KeepsWarm
<1> QED BY <1>1, <1>10 DEF ts, w

LEMMA SoundSetTransient ==
  ASSUME NEW e \in Ext, NEW f \in Ext, NEW s \in Slots,
         \A r \in Slots \ {s} : f.transient[r] = e.transient[r],
         f.storage = e.storage, f.warmAddr = e.warmAddr, f.warmSlot = e.warmSlot
  PROVE  /\ <<SetTransientState(s, e.transient[s])>> \in Seq(Touch)
         /\ Sound(e, <<SetTransientState(s, e.transient[s])>>, f)
<1> DEFINE v == e.transient[s]
           ts == <<SetTransientState(s, v)>>
<1>1. ts \in Seq(Touch)
  <2>1. v \in Values
    BY DEF Ext
  <2> QED BY <2>1 DEF SetTransientState, Touch
<1>2. \A r : /\ SlotTouches(ts, "SetTransientState", r) = IF r = s THEN {1} ELSE {}
             /\ SlotTouches(ts, "SetState", r) = {}
             /\ Coolers(ts, r) = {}
  BY DEF SlotTouches, SetTransientState, Coolers
<1>3. \A a : AddrTouches(ts, {"WarmUp"}, a) = {}
  BY DEF AddrTouches, SetTransientState
<1>4. \A x : Rewind(ts, {}, x) = x /\ Rewind(ts, {1}, x) = v
  BY RewindOne DEF Old, SetTransientState
<1> HIDE DEF ts
<1>5. UndoTransient(ts, f.transient) = e.transient
  <2>1. \A r \in Slots :
          Rewind(ts, SlotTouches(ts, "SetTransientState", r), f.transient[r]) = e.transient[r]
    BY <1>2, <1>4
  <2> QED BY <2>1 DEF UndoTransient, Ext
<1>6. UndoStorage(ts, f.storage) = e.storage
  <2>1. \A r \in Slots : Rewind(ts, SlotTouches(ts, "SetState", r), f.storage[r]) = e.storage[r]
    BY <1>2, <1>4
  <2> QED BY <2>1 DEF UndoStorage, Ext
<1>7. UndoWarmAddr(ts, f.warmAddr) = e.warmAddr
  BY <1>3 DEF UndoWarmAddr
<1>8. UndoWarmSlot(ts, f.warmSlot) = e.warmSlot
  BY <1>2 DEF UndoWarmSlot
<1>9. Sound(e, ts, f)
  BY <1>5, <1>6, <1>7, <1>8 DEF Sound, Recorded, KeepsWarm
<1> QED BY <1>1, <1>9 DEF ts

\* A revert ends in the recorded world, and what survives of the journal is sound
\* from there.
LEMMA SoundRevert ==
  ASSUME NEW e \in Ext, NEW f \in Ext, NEW ts \in Seq(Touch), Sound(e, ts, f)
  PROVE  /\ Revert(ts, f).storage = e.storage
         /\ Revert(ts, f).transient = e.transient
         /\ Revert(ts, f).warmAddr = e.warmAddr
         /\ Survivors(ts) \in Seq(Touch)
         /\ Sound(e, Survivors(ts), Revert(ts, f))
<1> DEFINE g == Revert(ts, f)
           ss == Survivors(ts)
<1>1. /\ g.storage = e.storage /\ g.transient = e.transient /\ g.warmAddr = e.warmAddr
      /\ g.warmSlot = UndoWarmSlot(ts, f.warmSlot)
  BY DEF Revert, Sound, Recorded
<1>2. ss \in Seq(Touch)
  <2>1. Noop \in Touch
    BY DEF Noop, Touch
  <2>2. \A i \in DOMAIN ts : ts[i] \in Touch
    OBVIOUS
  <2>3. DOMAIN ts = 1..Len(ts) /\ Len(ts) \in Nat
    OBVIOUS
  <2>4. ss \in [1..Len(ts) -> Touch]
    BY <2>1, <2>2, <2>3 DEF Survivors
  <2> QED BY <2>3, <2>4
<1>3. \A i \in DOMAIN ss : i \in DOMAIN ts /\ (ss[i] = ts[i] \/ ss[i] = Noop)
  BY DEF Survivors
<1>4. \A i \in DOMAIN ss : ss[i].op \in {"GetState", "Create", "Noop"}
  BY DEF Survivors, SurvivesRevert, Noop
<1> HIDE DEF ss
<1>5. \A s : /\ SlotTouches(ss, "SetState", s) = {}
             /\ SlotTouches(ss, "SetTransientState", s) = {}
  BY <1>4 DEF SlotTouches
<1>6. \A a : AddrTouches(ss, {"WarmUp"}, a) = {}
  BY <1>4 DEF AddrTouches
<1>7. \A s : Coolers(ts, s) = {} => Coolers(ss, s) = {}
  <2> SUFFICES ASSUME NEW s, NEW i \in Coolers(ss, s) PROVE i \in Coolers(ts, s)
    OBVIOUS
  <2>1. /\ i \in DOMAIN ss /\ ss[i].op \in {"GetState", "SetState"}
        /\ ss[i].slot = s /\ ~ss[i].warm
    BY DEF Coolers
  <2>2. ss[i] = ts[i] /\ i \in DOMAIN ts
    BY <1>3, <2>1 DEF Noop
  <2> QED BY <2>1, <2>2, Zenon DEF Coolers
<1> HIDE DEF g
<1>8. UndoStorage(ss, g.storage) = e.storage /\ UndoTransient(ss, g.transient) = e.transient
  BY <1>1, <1>5 DEF UndoStorage, UndoTransient, Rewind, Ext
<1>9. UndoWarmAddr(ss, g.warmAddr) = e.warmAddr
  BY <1>1, <1>6 DEF UndoWarmAddr
<1>10. e.warmSlot \subseteq UndoWarmSlot(ss, g.warmSlot)
  <2>1. e.warmSlot \subseteq UndoWarmSlot(ts, f.warmSlot)
    BY DEF Sound, KeepsWarm
  <2> QED BY <2>1, <1>1, <1>7 DEF UndoWarmSlot
<1>11. Sound(e, ss, g)
  BY <1>8, <1>9, <1>10 DEF Sound, Recorded, KeepsWarm
<1> QED BY <1>1, <1>2, <1>11 DEF ss, g

-----------------------------------------------------------------------------
(* Every operation on the world gives a world, and most leave alone what Sound *)
(* is about                                                                    *)

LEMMA SoundSame ==
  ASSUME NEW e, NEW ts, NEW f, NEW g, Sound(e, ts, f), Same(f, g)
  PROVE  Sound(e, ts, g)
BY DEF Sound, Recorded, KeepsWarm, Same

LEMMA PullWorld ==
  ASSUME NEW e \in Ext, NEW a \in Addr
  PROVE  Pull(e, a) \in Ext /\ Same(e, Pull(e, a))
BY DEF Pull, Ext, Same

LEMMA OrDefaultWorld ==
  ASSUME NEW e \in Ext, NEW a \in Addr
  PROVE  OrDefault(e, a) \in Ext /\ Same(e, OrDefault(e, a))
BY DEF OrDefault, Ext, Same, Code

LEMMA GetWorld ==
  ASSUME NEW e \in Ext, NEW s \in Slots
  PROVE  Get(e, s) \in Ext /\ Same(e, Get(e, s))
BY DEF Get, Ext, Same, Slots

LEMMA PutWorld ==
  ASSUME NEW e \in Ext, NEW s \in Slots, NEW v \in Values
  PROVE  /\ Put(e, s, v) \in Ext
         /\ \A r \in Slots \ {s} : Put(e, s, v).storage[r] = e.storage[r]
         /\ Put(e, s, v).transient = e.transient
         /\ Put(e, s, v).warmAddr = e.warmAddr
         /\ Put(e, s, v).warmSlot = e.warmSlot
BY DEF Put, Ext, Slots

LEMMA WarmStorageWorld ==
  ASSUME NEW e \in Ext, NEW s \in Slots
  PROVE  /\ WarmStorage(e, s) \in Ext
         /\ WarmStorage(e, s).storage = e.storage
         /\ WarmStorage(e, s).transient = e.transient
         /\ WarmStorage(e, s).warmAddr = e.warmAddr
         /\ WarmStorage(e, s).warmSlot = e.warmSlot \cup {s}
BY DEF WarmStorage, Ext

LEMMA TransferWorld ==
  ASSUME NEW e \in Ext, NEW src \in Addr, NEW dst \in Addr, NEW v \in Nat, e.balance[src] >= v
  PROVE  Transfer(e, src, dst, v) \in Ext /\ Same(e, Transfer(e, src, dst, v))
<1>1. e.balance \in [Addr -> Nat]
  BY DEF Ext
<1> DEFINE bal == [a \in Addr |-> (e.balance[a] + (IF a = dst THEN v ELSE 0))
                                   - (IF a = src THEN v ELSE 0)]
<1>2. bal \in [Addr -> Nat]
  BY <1>1
<1>3. Transfer(e, src, dst, v) = [e EXCEPT !.balance = bal]
  BY DEF Transfer
<1> HIDE DEF bal
<1> QED BY <1>2, <1>3 DEF Ext, Same

LEMMA AccountWorld ==
  ASSUME NEW e \in Ext, NEW a \in Addr, NEW c \in Code, NEW n \in Nat, NEW v \in Nat
  PROVE  /\ [e EXCEPT !.nonce[a] = n] \in Ext /\ Same(e, [e EXCEPT !.nonce[a] = n])
         /\ [e EXCEPT !.balance[a] = v] \in Ext /\ Same(e, [e EXCEPT !.balance[a] = v])
         /\ [e EXCEPT !.code[a] = c, !.nonce[a] = n] \in Ext
         /\ Same(e, [e EXCEPT !.code[a] = c, !.nonce[a] = n])
BY DEF Ext, Same

LEMMA ResetWorld ==
  ASSUME NEW e \in Ext
  PROVE  Reset(e) \in Ext
BY GenesisAssumption, ValuesAssumption DEF Reset, Ext, Absent, AccountState, Code

LEMMA RevertWorld ==
  ASSUME NEW e \in Ext, NEW ts \in Seq(Touch)
  PROVE  Revert(ts, e) \in Ext
<1>1. \A I : I # {} /\ I \subseteq DOMAIN ts => Earliest(I) \in I
  <2> SUFFICES ASSUME NEW I, I # {}, I \subseteq DOMAIN ts PROVE Earliest(I) \in I
    OBVIOUS
  <2>1. I \subseteq Nat
    OBVIOUS
  <2> QED BY <2>1, EarliestIsLeast
<1>2. \A i \in DOMAIN ts : ts[i] \in Touch
  OBVIOUS
<1>3. \A i \in DOMAIN ts : ts[i].op \in {"SetState", "SetTransientState"} => Old(ts[i]) \in Values
  BY <1>2 DEF Touch, Old
<1>4. \A i \in DOMAIN ts : ts[i].op \in {"SetNonce", "SetValue", "Create"} => Old(ts[i]) \in Nat
  BY <1>2 DEF Touch, Old
<1>5. UndoStorage(ts, e.storage) \in [Slots -> Values]
  <2>1. ASSUME NEW x \in Slots
        PROVE  Rewind(ts, SlotTouches(ts, "SetState", x), e.storage[x]) \in Values
    <3> DEFINE I == SlotTouches(ts, "SetState", x)
    <3>1. I \subseteq DOMAIN ts /\ \A i \in I : Old(ts[i]) \in Values
      BY <1>3 DEF SlotTouches
    <3>2. e.storage[x] \in Values
      BY DEF Ext
    <3> HIDE DEF I
    <3>3. Rewind(ts, I, e.storage[x]) \in Values
      BY <3>1, <3>2, <1>1 DEF Rewind
    <3> QED BY <3>3 DEF I
  <2> QED BY <2>1 DEF UndoStorage
<1>6. UndoTransient(ts, e.transient) \in [Slots -> Values]
  <2>1. ASSUME NEW x \in Slots
        PROVE  Rewind(ts, SlotTouches(ts, "SetTransientState", x), e.transient[x]) \in Values
    <3> DEFINE I == SlotTouches(ts, "SetTransientState", x)
    <3>1. I \subseteq DOMAIN ts /\ \A i \in I : Old(ts[i]) \in Values
      BY <1>3 DEF SlotTouches
    <3>2. e.transient[x] \in Values
      BY DEF Ext
    <3> HIDE DEF I
    <3>3. Rewind(ts, I, e.transient[x]) \in Values
      BY <3>1, <3>2, <1>1 DEF Rewind
    <3> QED BY <3>3 DEF I
  <2> QED BY <2>1 DEF UndoTransient
<1>7. UndoNonce(ts, e.nonce) \in [Addr -> Nat]
  <2>1. ASSUME NEW x \in Addr
        PROVE  Rewind(ts, AddrTouches(ts, {"SetNonce", "Create"}, x), e.nonce[x]) \in Nat
    <3> DEFINE I == AddrTouches(ts, {"SetNonce", "Create"}, x)
    <3>1. I \subseteq DOMAIN ts /\ \A i \in I : Old(ts[i]) \in Nat
      BY <1>4 DEF AddrTouches
    <3>2. e.nonce[x] \in Nat
      BY DEF Ext
    <3> HIDE DEF I
    <3>3. Rewind(ts, I, e.nonce[x]) \in Nat
      BY <3>1, <3>2, <1>1 DEF Rewind
    <3> QED BY <3>3 DEF I
  <2> QED BY <2>1 DEF UndoNonce
<1>8. UndoBalance(ts, e.balance) \in [Addr -> Nat]
  <2>1. ASSUME NEW x \in Addr
        PROVE  Rewind(ts, AddrTouches(ts, {"SetValue", "Create"}, x), e.balance[x]) \in Nat
    <3> DEFINE I == AddrTouches(ts, {"SetValue", "Create"}, x)
    <3>1. I \subseteq DOMAIN ts /\ \A i \in I : Old(ts[i]) \in Nat
      BY <1>4 DEF AddrTouches
    <3>2. e.balance[x] \in Nat
      BY DEF Ext
    <3> HIDE DEF I
    <3>3. Rewind(ts, I, e.balance[x]) \in Nat
      BY <3>1, <3>2, <1>1 DEF Rewind
    <3> QED BY <3>3 DEF I
  <2> QED BY <2>1 DEF UndoBalance
<1>9. UndoCode(ts, e.code) \in [Addr -> Code]
  BY DEF UndoCode, Ext, Code
<1>10. /\ UndoPresent(ts, e.present) \subseteq Slots
       /\ UndoWarmAddr(ts, e.warmAddr) \subseteq Addr
       /\ UndoWarmSlot(ts, e.warmSlot) \subseteq Slots
  BY DEF UndoPresent, UndoWarmAddr, UndoWarmSlot, Ext
<1>11. /\ e.cached \subseteq Addr /\ e.destroyed \subseteq Addr
       /\ e.original \in [Slots -> Values \cup {None}]
  BY DEF Ext
<1> QED BY <1>5, <1>6, <1>7, <1>8, <1>9, <1>10, <1>11 DEF Revert, Ext

-----------------------------------------------------------------------------
(* The inductive invariant *)

\* A frame called from under a STATICCALL carries the flag too.
StaticInherited ==
  \A i \in DOMAIN frames : \A j \in DOMAIN frames :
    i < j /\ frames[i].static => frames[j].static

\* JournalExact and WarmSlotsKept together: every journal accounts for the steps
\* from the world its frame was entered with to the one its callee was.
Journals ==
  \A i \in DOMAIN frames : Sound(frames[i].entry, frames[i].touches, After(i))

Inv == TypeOK /\ Journals /\ StaticInherited /\ StaticStorageFrozen

\* The frames up to n are the old ones, with the touches new added to the n-th.
Grown(n, new) ==
  /\ n \in DOMAIN frames /\ n \in DOMAIN frames'
  /\ \A i \in 1..n : /\ frames'[i].entry = frames[i].entry
                      /\ frames'[i].static = frames[i].static
  /\ \A i \in 1..(n - 1) : frames'[i].touches = frames[i].touches
  /\ frames'[n].touches = frames[n].touches \o new

LEMMA FrameFields ==
  ASSUME NEW f \in Frame
  PROVE  /\ f.touches \in Seq(Touch) /\ f.entry \in Ext /\ f.this \in Addr /\ f.from \in Addr
         /\ f.static \in BOOLEAN /\ f.value \in Nat /\ f.callType \in CallTypes
         /\ f.tainted \subseteq Addr
BY DEF Frame

LEMMA FrameTypes ==
  ASSUME TypeOK
  PROVE  /\ Depth \in Nat
         /\ DOMAIN frames = 1..Depth
         /\ \A i \in 1..Depth : frames[i] \in Frame /\ frames[i].touches \in Seq(Touch)
         /\ frames # <<>> => Depth \in 1..Depth
<1>1. frames \in Seq(Frame)
  BY DEF TypeOK
<1>2. /\ Depth \in Nat
      /\ DOMAIN frames = 1..Depth
      /\ \A i \in 1..Depth : frames[i] \in Frame
      /\ frames # <<>> => Depth \in 1..Depth
  BY <1>1 DEF Depth
<1> QED BY <1>2, FrameFields

LEMMA IndexBelow ==
  ASSUME NEW n \in Nat, NEW i \in 1..n, i # n
  PROVE  i + 1 \in 1..n /\ i \in 1..(n - 1)
OBVIOUS

\* A step of the innermost frame.
LEMMA InnerStep ==
  ASSUME Inv, NEW e \in Ext, NEW new \in Seq(Touch),
         Sound(ext, new, e), e.storage = ext.storage \/ ~Top.static,
         ext' = e, frames' \in Seq(Frame), Len(frames') = Depth, Grown(Depth, new)
  PROVE  Journals' /\ StaticInherited' /\ StaticStorageFrozen'
<1>1. Depth \in Nat /\ Depth = Len(frames) /\ DOMAIN frames = 1..Depth
      /\ DOMAIN frames' = 1..Depth /\ Depth >= 1
  BY FrameTypes DEF Inv, Depth, Grown
<1>2. Journals'
  <2> SUFFICES ASSUME NEW i \in 1..Depth
               PROVE  Sound(frames'[i].entry, frames'[i].touches, After(i)')
    BY <1>1 DEF Journals
  <2>1. Sound(frames[i].entry, frames[i].touches, After(i))
    BY <1>1 DEF Inv, Journals
  <2>2. CASE i = Depth
    <3>1. After(i) = ext /\ After(i)' = e
      BY <2>2 DEF After, Depth
    <3>2. frames[i].touches \in Seq(Touch)
      BY <1>1, FrameTypes DEF Inv
    <3>3. Sound(frames[i].entry, frames[i].touches \o new, e)
      BY <2>1, <3>1, <3>2, SoundCompose
    <3> QED BY <2>2, <3>1, <3>3 DEF Grown
  <2>3. CASE i # Depth
    <3>1. i + 1 \in 1..Depth /\ i \in 1..(Depth - 1)
      BY <1>1, <2>3, IndexBelow
    <3>2. After(i)' = After(i)
      <4>1. Depth' = Depth
        BY DEF Depth
      <4>2. frames'[i + 1].entry = frames[i + 1].entry
        BY <3>1 DEF Grown
      <4> QED BY <2>3, <4>1, <4>2, Zenon DEF After
    <3> QED BY <2>1, <3>1, <3>2 DEF Grown
  <2> QED BY <2>2, <2>3
<1>3. StaticInherited'
  BY <1>1 DEF Inv, StaticInherited, Grown
<1>4. StaticStorageFrozen'
  <2> SUFFICES ASSUME NEW i \in 1..Depth, frames'[i].static
               PROVE  e.storage = frames'[i].entry.storage
    BY <1>1 DEF StaticStorageFrozen
  <2>1. frames[i].static /\ frames'[i].entry = frames[i].entry
    BY DEF Grown
  <2>2. ext.storage = frames[i].entry.storage
    BY <1>1, <2>1 DEF Inv, StaticStorageFrozen
  <2>3. Top.static
    BY <1>1, <2>1 DEF Inv, StaticInherited, Top
  <2> QED BY <2>1, <2>2, <2>3
<1> QED BY <1>2, <1>3, <1>4

\* A step that enters the frame f.
LEMMA EnterStep ==
  ASSUME Inv, NEW e \in Ext, NEW f \in Frame, NEW new \in Seq(Touch),
         Sound(ext, new, f.entry), f.entry.storage = ext.storage,
         Sound(f.entry, f.touches, e), e.storage = f.entry.storage,
         Top.static => f.static,
         ext' = e, frames' \in Seq(Frame), Len(frames') = Depth + 1,
         Grown(Depth, new), frames'[Depth + 1] = f
  PROVE  Journals' /\ StaticInherited' /\ StaticStorageFrozen'
<1>1. Depth \in Nat /\ Depth = Len(frames) /\ DOMAIN frames = 1..Depth
      /\ DOMAIN frames' = 1..(Depth + 1) /\ Depth >= 1
  BY FrameTypes DEF Inv, Depth, Grown
<1>2. Journals'
  <2> SUFFICES ASSUME NEW i \in 1..(Depth + 1)
               PROVE  Sound(frames'[i].entry, frames'[i].touches, After(i)')
    BY <1>1 DEF Journals
  <2>1. CASE i = Depth + 1
    <3>1. After(i)' = e
      BY <2>1 DEF After, Depth
    <3> QED BY <2>1, <3>1
  <2>2. CASE i = Depth
    <3>1. After(i) = ext /\ After(i)' = f.entry
      <4>1. Depth' = Depth + 1
        BY DEF Depth
      <4>2. i # Depth'
        BY <1>1, <2>2, <4>1
      <4>3. frames'[i + 1] = f
        BY <2>2
      <4> QED BY <2>2, <4>2, <4>3 DEF After
    <3>2. Sound(frames[i].entry, frames[i].touches, ext)
      BY <1>1, <2>2, <3>1 DEF Inv, Journals
    <3>3. frames[i].touches \in Seq(Touch)
      BY <1>1, <2>2, FrameTypes DEF Inv
    <3>4. Sound(frames[i].entry, frames[i].touches \o new, f.entry)
      BY <3>2, <3>3, SoundCompose
    <3> QED BY <1>1, <2>2, <3>1, <3>4 DEF Grown
  <2>3. CASE i # Depth /\ i # Depth + 1
    <3>1. i + 1 \in 1..Depth /\ i \in 1..(Depth - 1) /\ i \in 1..Depth
      BY <1>1, <2>3
    <3>2. After(i)' = After(i)
      <4>1. Depth' = Depth + 1
        BY DEF Depth
      <4>2. frames'[i + 1].entry = frames[i + 1].entry
        BY <3>1 DEF Grown
      <4> QED BY <2>3, <4>1, <4>2, Zenon DEF After
    <3>3. Sound(frames[i].entry, frames[i].touches, After(i))
      BY <1>1, <3>1 DEF Inv, Journals
    <3> QED BY <3>1, <3>2, <3>3 DEF Grown
  <2> QED BY <2>1, <2>2, <2>3
<1>3. StaticInherited'
  <2> SUFFICES ASSUME NEW i \in 1..(Depth + 1), NEW j \in 1..(Depth + 1), i < j, frames'[i].static
               PROVE  frames'[j].static
    BY <1>1 DEF StaticInherited
  <2>1. i \in 1..Depth /\ frames[i].static
    BY <1>1 DEF Grown
  <2>2. CASE j = Depth + 1
    <3>1. Top.static
      BY <1>1, <2>1 DEF Inv, StaticInherited, Top
    <3> QED BY <2>2, <3>1
  <2>3. CASE j # Depth + 1
    <3>1. j \in 1..Depth
      BY <1>1, <2>3
    <3> QED BY <1>1, <2>1, <3>1 DEF Inv, StaticInherited, Grown
  <2> QED BY <2>2, <2>3
<1>4. StaticStorageFrozen'
  <2> SUFFICES ASSUME NEW i \in 1..(Depth + 1), frames'[i].static
               PROVE  e.storage = frames'[i].entry.storage
    BY <1>1 DEF StaticStorageFrozen
  <2>1. CASE i = Depth + 1
    BY <2>1
  <2>2. CASE i # Depth + 1
    <3>1. i \in 1..Depth
      BY <1>1, <2>2
    <3>2. frames[i].static /\ frames'[i].entry = frames[i].entry
      BY <3>1 DEF Grown
    <3> QED BY <1>1, <3>1, <3>2 DEF Inv, StaticStorageFrozen
  <2> QED BY <2>1, <2>2
<1> QED BY <1>2, <1>3, <1>4

\* A step that drops the innermost frame.
LEMMA LeaveStep ==
  ASSUME Inv, Depth > 1, NEW e \in Ext, NEW new \in Seq(Touch),
         Sound(Top.entry, new, e), e.storage = ext.storage \/ e.storage = Top.entry.storage,
         ext' = e, frames' \in Seq(Frame), Len(frames') = Depth - 1, Grown(Depth - 1, new)
  PROVE  Journals' /\ StaticInherited' /\ StaticStorageFrozen'
<1>1. Depth \in Nat /\ Depth = Len(frames) /\ DOMAIN frames = 1..Depth
      /\ DOMAIN frames' = 1..(Depth - 1) /\ Depth >= 2
  BY FrameTypes DEF Inv, Depth
<1>2. Journals'
  <2> SUFFICES ASSUME NEW i \in 1..(Depth - 1)
               PROVE  Sound(frames'[i].entry, frames'[i].touches, After(i)')
    BY <1>1 DEF Journals
  <2>0. Sound(frames[i].entry, frames[i].touches, After(i))
    BY <1>1 DEF Inv, Journals
  <2>1. CASE i = Depth - 1
    <3>1. After(i) = Top.entry /\ After(i)' = e
      BY <1>1, <2>1 DEF After, Depth, Top
    <3>2. frames[i].touches \in Seq(Touch)
      BY <1>1, FrameTypes DEF Inv
    <3>3. Sound(frames[i].entry, frames[i].touches \o new, e)
      BY <2>0, <3>1, <3>2, SoundCompose
    <3> QED BY <1>1, <2>1, <3>1, <3>3 DEF Grown
  <2>2. CASE i # Depth - 1
    <3>1. i + 1 \in 1..(Depth - 1) /\ i \in 1..(Depth - 2)
      BY <1>1, <2>2
    <3>2. After(i)' = After(i)
      <4>1. Depth' = Depth - 1 /\ i # Depth
        BY <1>1 DEF Depth
      <4>2. frames'[i + 1].entry = frames[i + 1].entry
        BY <3>1 DEF Grown
      <4> QED BY <2>2, <4>1, <4>2, Zenon DEF After
    <3> QED BY <1>1, <2>0, <3>1, <3>2 DEF Grown
  <2> QED BY <2>1, <2>2
<1>3. StaticInherited'
  <2> SUFFICES ASSUME NEW i \in 1..(Depth - 1), NEW j \in 1..(Depth - 1), i < j, frames'[i].static
               PROVE  frames'[j].static
    BY <1>1 DEF StaticInherited
  <2>1. frames'[i].static = frames[i].static /\ frames'[j].static = frames[j].static
    BY DEF Grown
  <2>2. i \in DOMAIN frames /\ j \in DOMAIN frames
    BY <1>1
  <2> QED BY <2>1, <2>2 DEF Inv, StaticInherited
<1>4. StaticStorageFrozen'
  <2> SUFFICES ASSUME NEW i \in 1..(Depth - 1), frames'[i].static
               PROVE  e.storage = frames'[i].entry.storage
    BY <1>1 DEF StaticStorageFrozen
  <2>1. frames[i].static /\ frames'[i].entry = frames[i].entry
    BY DEF Grown
  <2>2. ext.storage = frames[i].entry.storage
    BY <1>1, <2>1 DEF Inv, StaticStorageFrozen
  <2>3. Top.static
    BY <1>1, <2>1 DEF Inv, StaticInherited, Top
  <2>4. ext.storage = Top.entry.storage
    BY <1>1, <2>3 DEF Inv, StaticStorageFrozen, Top
  <2> QED BY <2>1, <2>2, <2>4
<1> QED BY <1>2, <1>3, <1>4

-----------------------------------------------------------------------------
(* The three shapes of an action *)

Status == {"running", "stopped", "reverted"}

LEMMA FrameUpdate ==
  ASSUME NEW f \in Frame, NEW ts \in Seq(Touch), NEW st \in Status, NEW tn \in SUBSET Addr
  PROVE  /\ [f EXCEPT !.touches = ts, !.status = st] \in Frame
         /\ [f EXCEPT !.touches = ts, !.tainted = tn] \in Frame
         /\ [f EXCEPT !.status = st, !.tainted = tn] \in Frame
BY DEF Frame, Status

LEMMA AdvanceFrame ==
  ASSUME Inv, frames # <<>>, NEW e \in Ext, NEW new \in Seq(Touch), NEW st \in Status,
         Sound(ext, new, e), e.storage = ext.storage \/ ~Top.static,
         Advance(e, new, st), steps' \in Nat, txs' \in Nat
  PROVE  Inv'
<1>0. /\ Depth \in Nat /\ DOMAIN frames = 1..Depth /\ Depth \in 1..Depth
      /\ Top \in Frame /\ Top.touches \in Seq(Touch)
  BY FrameTypes DEF Inv, Top
<1> DEFINE f == [Top EXCEPT !.touches = @ \o new, !.status = st]
<1>1. /\ f \in Frame /\ f.entry = Top.entry /\ f.static = Top.static
      /\ f.touches = Top.touches \o new
  <2>1. Top.touches \o new \in Seq(Touch) /\ Top.tainted \in SUBSET Addr
    BY <1>0, FrameFields
  <2>2. f \in Frame
    BY <1>0, <2>1, FrameUpdate, Zenon
  <2> QED BY <1>0, <2>2 DEF Frame
<1> HIDE DEF f
<1>2. frames' = [frames EXCEPT ![Depth] = f]
  BY DEF Advance, f
<1>3. frames' \in Seq(Frame) /\ Len(frames') = Depth /\ DOMAIN frames' = 1..Depth
  BY <1>0, <1>1, <1>2 DEF Inv, TypeOK, Depth
<1>4. \A i \in 1..Depth : frames'[i] = IF i = Depth THEN f ELSE frames[i]
  BY <1>0, <1>2
<1>5. Grown(Depth, new)
  <2>1. \A i \in 1..Depth : frames'[i].entry = frames[i].entry /\ frames'[i].static = frames[i].static
    BY <1>1, <1>4 DEF Top
  <2>2. \A i \in 1..(Depth - 1) : i \in 1..Depth /\ i # Depth
    BY <1>0
  <2>3. \A i \in 1..(Depth - 1) : frames'[i].touches = frames[i].touches
    BY <1>4, <2>2
  <2>4. frames'[Depth].touches = frames[Depth].touches \o new
    BY <1>0, <1>1, <1>4 DEF Top
  <2> QED BY <1>0, <1>3, <2>1, <2>3, <2>4 DEF Grown
<1>6. ext' = e
  BY DEF Advance
<1>7. Journals' /\ StaticInherited' /\ StaticStorageFrozen'
  BY <1>3, <1>5, <1>6, InnerStep
<1> QED BY <1>3, <1>6, <1>7 DEF Inv, TypeOK

LEMMA EnterFrame ==
  ASSUME Inv, frames # <<>>, NEW f \in Frame, NEW new \in Seq(Touch), NEW taint \in SUBSET Addr,
         f.touches = WarmTouch(f.entry, f.from),
         Sound(ext, new, f.entry), f.entry.storage = ext.storage,
         Top.static => f.static,
         Enter(new, taint, f), steps' \in Nat, txs' \in Nat
  PROVE  Inv'
<1>0. /\ Depth \in Nat /\ DOMAIN frames = 1..Depth /\ Depth \in 1..Depth
      /\ Top \in Frame /\ Top.touches \in Seq(Touch)
  BY FrameTypes DEF Inv, Top
<1> DEFINE g == [Top EXCEPT !.touches = @ \o new, !.tainted = @ \cup taint]
           rest == [frames EXCEPT ![Depth] = g]
<1>1. /\ g \in Frame /\ g.entry = Top.entry /\ g.static = Top.static
      /\ g.touches = Top.touches \o new
  <2>1. Top.touches \o new \in Seq(Touch) /\ Top.tainted \cup taint \in SUBSET Addr
        /\ "running" \in Status
    BY <1>0, FrameFields DEF Status
  <2>2. g \in Frame
    BY <1>0, <2>1, FrameUpdate, Zenon
  <2> QED BY <1>0, <2>2 DEF Frame
<1> HIDE DEF g
<1>2. frames' = Append(rest, f)
  BY DEF Enter, g
<1>3. rest \in Seq(Frame) /\ Len(rest) = Depth
  BY <1>0, <1>1 DEF Inv, TypeOK, Depth
<1>4. \A i \in 1..Depth : rest[i] = IF i = Depth THEN g ELSE frames[i]
  BY <1>0
<1> HIDE DEF rest
<1>5. /\ frames' \in Seq(Frame) /\ Len(frames') = Depth + 1
      /\ \A i \in 1..Depth : frames'[i] = rest[i]
      /\ frames'[Depth + 1] = f
      /\ DOMAIN frames' = 1..(Depth + 1)
  BY <1>0, <1>2, <1>3
<1>6. Grown(Depth, new)
  <2>1. \A i \in 1..Depth : frames'[i] = IF i = Depth THEN g ELSE frames[i]
    BY <1>4, <1>5
  <2>2. \A i \in 1..Depth : frames'[i].entry = frames[i].entry /\ frames'[i].static = frames[i].static
    BY <1>1, <2>1 DEF Top
  <2>3. \A i \in 1..(Depth - 1) : i \in 1..Depth /\ i # Depth
    BY <1>0
  <2>4. \A i \in 1..(Depth - 1) : frames'[i].touches = frames[i].touches
    BY <2>1, <2>3
  <2>5. Depth \in 1..(Depth + 1)
    BY <1>0
  <2>6. frames'[Depth].touches = frames[Depth].touches \o new
    BY <1>0, <1>1, <2>1 DEF Top
  <2> QED BY <1>0, <1>5, <2>2, <2>4, <2>5, <2>6 DEF Grown
<1> DEFINE e == WarmAddress(f.entry, f.from)
<1>7. e \in Ext /\ Sound(f.entry, f.touches, e)
  BY FrameFields, SoundWarm
<1>8. e.storage = f.entry.storage
  BY FrameFields DEF WarmAddress, Ext
<1>9. ext' = e
  BY DEF Enter
<1> HIDE DEF e
<1>10. Journals' /\ StaticInherited' /\ StaticStorageFrozen'
  BY <1>5, <1>6, <1>7, <1>8, <1>9, EnterStep
<1> QED BY <1>5, <1>7, <1>9, <1>10 DEF Inv, TypeOK

LEMMA LeaveFrame ==
  ASSUME Inv, Depth > 1, NEW e \in Ext, NEW new \in Seq(Touch), NEW taint \in SUBSET Addr,
         Sound(Top.entry, new, e), e.storage = ext.storage \/ e.storage = Top.entry.storage,
         Leave(e, new, taint)
  PROVE  Inv'
<1> DEFINE n == Depth - 1
<1>0. /\ Depth \in Nat /\ n \in Nat /\ n >= 1 /\ DOMAIN frames = 1..Depth
      /\ Top \in Frame /\ frames[n] \in Frame /\ frames[n].touches \in Seq(Touch)
      /\ \A i \in 1..n : frames[i] \in Frame
  BY FrameTypes DEF Inv, Top
<1> DEFINE g == [frames[n] EXCEPT !.touches = @ \o new, !.tainted = @ \cup Top.tainted \cup taint]
<1>1. /\ g \in Frame /\ g.entry = frames[n].entry /\ g.static = frames[n].static
      /\ g.touches = frames[n].touches \o new
  <2>1. /\ frames[n].touches \o new \in Seq(Touch) /\ "running" \in Status
        /\ frames[n].tainted \cup Top.tainted \cup taint \in SUBSET Addr
    BY <1>0, FrameFields DEF Status
  <2>2. g \in Frame
    BY <1>0, <2>1, FrameUpdate, Zenon
  <2> QED BY <1>0, <2>2 DEF Frame
<1>2. frames' = [i \in 1..n |-> IF i = n THEN g ELSE frames[i]]
  BY DEF Leave
<1> HIDE DEF g
<1>3. frames' \in [1..n -> Frame]
  BY <1>0, <1>1, <1>2
<1>4. frames' \in Seq(Frame) /\ Len(frames') = n /\ DOMAIN frames' = 1..n
  BY <1>0, <1>3
<1>5. Grown(n, new)
  BY <1>0, <1>1, <1>2, <1>4 DEF Grown
<1>6. ext' = e /\ steps' = steps /\ txs' = txs
  BY DEF Leave
<1>7. Journals' /\ StaticInherited' /\ StaticStorageFrozen'
  BY <1>4, <1>5, <1>6, LeaveStep
<1> QED BY <1>4, <1>6, <1>7 DEF Inv, TypeOK

-----------------------------------------------------------------------------
(* Every action preserves the invariant *)

LEMMA ExecutingFacts ==
  ASSUME Inv, NEW op, Executing(op)
  PROVE  /\ frames # <<>> /\ steps' \in Nat /\ txs' \in Nat /\ ext \in Ext
         /\ Top \in Frame /\ Top.this \in Addr /\ Top.from \in Addr /\ Top.value \in Nat
         /\ Top.static \in BOOLEAN /\ Top.callType \in CallTypes /\ Top.touches \in Seq(Touch)
         /\ \A k \in Keys : <<Top.this, k>> \in Slots
<1>1. frames # <<>> /\ steps' \in Nat /\ txs' \in Nat /\ ext \in Ext
  BY DEF Executing, Inv, TypeOK
<1>2. Top \in Frame
  BY <1>1, FrameTypes DEF Inv, Top
<1> QED BY <1>1, <1>2, FrameFields DEF Slots

\* A failure before any effect.
LEMMA Refused ==
  ASSUME Inv, frames # <<>>, NEW st \in Status, Advance(ext, <<>>, st), steps' \in Nat, txs' \in Nat
  PROVE  Inv'
<1>1. ext \in Ext /\ Same(ext, ext)
  BY DEF Inv, TypeOK, Same
<1>2. Sound(ext, <<>>, ext) /\ <<>> \in Seq(Touch)
  BY <1>1, SoundNothing
<1> QED BY <1>1, <1>2, AdvanceFrame

LEMMA StatusFacts == /\ "running" \in Status /\ "stopped" \in Status /\ "reverted" \in Status
BY DEF Status

\* Warming a slot without journaling it, as a failing SLOAD or SSTORE does.
LEMMA SoundWarmOnly ==
  ASSUME NEW e \in Ext, NEW f \in Ext, f.storage = e.storage, f.transient = e.transient,
         f.warmAddr = e.warmAddr, e.warmSlot \subseteq f.warmSlot
  PROVE  Sound(e, <<>>, f)
<1>1. Sound(e, <<>>, e)
  BY SoundNothing DEF Same
<1>2. UndoWarmSlot(<<>>, e.warmSlot) \subseteq UndoWarmSlot(<<>>, f.warmSlot)
  BY DEF UndoWarmSlot
<1> QED BY <1>1, <1>2 DEF Sound, Recorded, KeepsWarm

LEMMA SLOADStep ==
  ASSUME Inv, NEW k \in Keys, SLOAD(k)
  PROVE  Inv'
<1> DEFINE s == <<Top.this, k>>
           e == WarmStorage(ext, s)
<1>0. Executing("SLOAD")
  BY DEF SLOAD
<1>1. s \in Slots /\ ext \in Ext /\ frames # <<>> /\ steps' \in Nat /\ txs' \in Nat
  BY <1>0, ExecutingFacts
<1>2. \/ Advance(Get(e, s), <<GetState(s, s \in ext.warmSlot)>>, "running")
      \/ Advance(e, <<>>, "reverted")
  BY DEF SLOAD
<1>3. /\ e \in Ext /\ e.storage = ext.storage /\ e.transient = ext.transient
      /\ e.warmAddr = ext.warmAddr /\ e.warmSlot = ext.warmSlot \cup {s}
  BY <1>1, WarmStorageWorld
<1> HIDE DEF s, e
<1>4. CASE Advance(e, <<>>, "reverted")
  <2>1. Sound(ext, <<>>, e) /\ <<>> \in Seq(Touch)
    BY <1>1, <1>3, SoundWarmOnly
  <2> QED BY <1>1, <1>3, <1>4, <2>1, StatusFacts, AdvanceFrame
<1>5. CASE Advance(Get(e, s), <<GetState(s, s \in ext.warmSlot)>>, "running")
  <2>1. Get(e, s) \in Ext /\ Same(e, Get(e, s))
    BY <1>1, <1>3, GetWorld
  <2>2. /\ <<GetState(s, s \in ext.warmSlot)>> \in Seq(Touch)
        /\ Sound(ext, <<GetState(s, s \in ext.warmSlot)>>, Get(e, s))
    BY <1>1, <1>3, <2>1, SoundGetState DEF Same
  <2>3. Get(e, s).storage = ext.storage
    BY <1>3, <2>1 DEF Same
  <2> QED BY <1>1, <1>5, <2>1, <2>2, <2>3, StatusFacts, AdvanceFrame
<1> QED BY <1>2, <1>4, <1>5

LEMMA SSTOREStep ==
  ASSUME Inv, NEW k \in Keys, NEW v \in Values, SSTORE(k, v)
  PROVE  Inv'
<1> DEFINE s == <<Top.this, k>>
           w == WarmStorage(ext, s)
           e == Get(w, s)
           ts == <<SetState(s, ext.storage[s], s \in ext.warmSlot)>>
<1>0. Executing("SSTORE")
  BY DEF SSTORE
<1>1. s \in Slots /\ ext \in Ext /\ frames # <<>> /\ steps' \in Nat /\ txs' \in Nat
  BY <1>0, ExecutingFacts
<1>2. \/ Advance(ext, <<>>, "reverted")
      \/ ~Top.static /\ Advance(Put(e, s, v), ts, "running")
      \/ Advance(e, <<>>, "reverted")
  BY DEF SSTORE
<1>3. /\ w \in Ext /\ w.storage = ext.storage /\ w.transient = ext.transient
      /\ w.warmAddr = ext.warmAddr /\ w.warmSlot = ext.warmSlot \cup {s}
  BY <1>1, WarmStorageWorld
<1>4. e \in Ext /\ Same(w, e)
  BY <1>1, <1>3, GetWorld
<1> HIDE DEF s, w, e
<1>5. CASE Advance(ext, <<>>, "reverted")
  BY <1>1, <1>5, StatusFacts, Refused
<1>6. CASE Advance(e, <<>>, "reverted")
  <2>1. /\ e.storage = ext.storage /\ e.transient = ext.transient
        /\ e.warmAddr = ext.warmAddr /\ ext.warmSlot \subseteq e.warmSlot
    BY <1>3, <1>4 DEF Same
  <2>2. Sound(ext, <<>>, e) /\ <<>> \in Seq(Touch)
    BY <1>1, <1>4, <2>1, SoundWarmOnly
  <2> QED BY <1>1, <1>4, <1>6, <2>1, <2>2, StatusFacts, AdvanceFrame
<1>7. CASE ~Top.static /\ Advance(Put(e, s, v), ts, "running")
  <2> DEFINE f == Put(e, s, v)
  <2>1. /\ f \in Ext /\ f.transient = e.transient /\ f.warmAddr = e.warmAddr
        /\ f.warmSlot = e.warmSlot /\ \A r \in Slots \ {s} : f.storage[r] = e.storage[r]
    BY <1>1, <1>4, PutWorld
  <2> HIDE DEF f
  <2>2. ts \in Seq(Touch) /\ Sound(ext, ts, f)
    BY <1>1, <1>3, <1>4, <2>1, SoundSetState DEF Same
  <2>3. Advance(f, ts, "running")
    BY <1>7 DEF f
  <2> HIDE DEF ts
  <2> QED BY <1>1, <1>7, <2>1, <2>2, <2>3, StatusFacts, AdvanceFrame
<1> QED BY <1>2, <1>5, <1>6, <1>7

LEMMA TSTOREStep ==
  ASSUME Inv, NEW k \in Keys, NEW v \in Values, TSTORE(k, v)
  PROVE  Inv'
<1> DEFINE s == <<Top.this, k>>
           ts == <<SetTransientState(s, ext.transient[s])>>
           e == [ext EXCEPT !.transient[s] = v]
<1>0. Executing("TSTORE")
  BY DEF TSTORE
<1>1. s \in Slots /\ ext \in Ext /\ frames # <<>> /\ steps' \in Nat /\ txs' \in Nat
  BY <1>0, ExecutingFacts
<1>2. Advance(e, ts, "running")
  BY DEF TSTORE
<1> HIDE DEF s
<1>3. /\ e \in Ext /\ e.storage = ext.storage /\ e.warmAddr = ext.warmAddr
      /\ e.warmSlot = ext.warmSlot
      /\ \A r \in Slots \ {s} : e.transient[r] = ext.transient[r]
  BY <1>1 DEF Ext
<1> HIDE DEF e
<1>4. ts \in Seq(Touch) /\ Sound(ext, ts, e)
  BY <1>1, <1>3, SoundSetTransient
<1> HIDE DEF ts
<1> QED BY <1>1, <1>2, <1>3, <1>4, StatusFacts, AdvanceFrame

LEMMA ReadAccountStep ==
  ASSUME Inv, NEW a \in Operands, ReadAccount(a)
  PROVE  Inv'
<1> DEFINE e == Access(ext, a)
           ts == AccessTouch(ext, a)
<1>0. Executing("BALANCE")
  BY DEF ReadAccount
<1>1. a \in Addr /\ ext \in Ext /\ frames # <<>> /\ steps' \in Nat /\ txs' \in Nat
  BY <1>0, ExecutingFacts, AddressAssumption
<1>2. e \in Ext /\ ts \in Seq(Touch) /\ Sound(ext, ts, e)
  BY <1>1, SoundAccess
<1>3. e.storage = ext.storage
  BY <1>1 DEF Access, WarmAddress, Ext
<1>4. Advance(Pull(e, a), ts, "running") \/ Advance(e, ts, "reverted")
  BY DEF ReadAccount
<1> HIDE DEF e, ts
<1>5. Pull(e, a) \in Ext /\ Same(e, Pull(e, a))
  BY <1>1, <1>2, PullWorld
<1>6. Sound(ext, ts, Pull(e, a)) /\ Pull(e, a).storage = ext.storage
  BY <1>2, <1>3, <1>5, SoundSame DEF Same
<1>7. CASE Advance(e, ts, "reverted")
  BY <1>1, <1>2, <1>3, <1>7, StatusFacts, AdvanceFrame
<1>8. CASE Advance(Pull(e, a), ts, "running")
  BY <1>1, <1>2, <1>5, <1>6, <1>8, StatusFacts, AdvanceFrame
<1> QED BY <1>4, <1>7, <1>8

LEMMA SELFDESTRUCTStep ==
  ASSUME Inv, NEW a \in Operands, SELFDESTRUCT(a)
  PROVE  Inv'
<1> DEFINE this == Top.this
           bal == [x \in Addr |-> (IF x = this THEN 0 ELSE ext.balance[x])
                                    + (IF x = a THEN ext.balance[this] ELSE 0)]
           e == [Pull(ext, a) EXCEPT !.balance = bal, !.destroyed = @ \cup {this}]
<1>0. Executing("SELFDESTRUCT")
  BY DEF SELFDESTRUCT
<1>1. /\ a \in Addr /\ this \in Addr /\ ext \in Ext /\ Top \in Frame
      /\ frames # <<>> /\ steps' \in Nat /\ txs' \in Nat
  BY <1>0, ExecutingFacts, AddressAssumption
<1>2. CASE Advance(ext, <<>>, "reverted")
  BY <1>1, <1>2, StatusFacts, Refused
<1>3. CASE /\ ext' = e
           /\ \E st \in {"stopped", "reverted"} :
                frames' = [frames EXCEPT ![Depth] =
                             [Top EXCEPT !.status = st, !.tainted = @ \cup {this, a}]]
  <2>1. e \in Ext /\ Same(ext, e)
    <3>1. ext.balance \in [Addr -> Nat]
      BY <1>1 DEF Ext
    <3>2. bal \in [Addr -> Nat]
      BY <1>1, <3>1
    <3> HIDE DEF bal
    <3> QED BY <1>1, <3>2 DEF Pull, Ext, Same
  <2> HIDE DEF e
  <2>2. Sound(ext, <<>>, e) /\ <<>> \in Seq(Touch) /\ e.storage = ext.storage
    BY <1>1, <2>1, SoundNothing DEF Same
  <2>3. PICK st \in {"stopped", "reverted"} :
          frames' = [frames EXCEPT ![Depth] =
                       [Top EXCEPT !.status = st, !.tainted = @ \cup {this, a}]]
    BY <1>3
  <2> DEFINE f == [Top EXCEPT !.status = st, !.tainted = @ \cup {this, a}]
  <2>4. f \in Frame
    <3>1. st \in Status /\ Top.tainted \cup {this, a} \in SUBSET Addr /\ Top.touches \in Seq(Touch)
      BY <1>1, FrameFields DEF Status
    <3> QED BY <1>1, <3>1, FrameUpdate, Zenon
  <2>5. f.entry = Top.entry /\ f.static = Top.static /\ f.touches = Top.touches \o <<>>
    <3>1. f.entry = Top.entry /\ f.static = Top.static /\ f.touches = Top.touches
      BY <1>1 DEF Frame
    <3>2. Top.touches \in Seq(Touch)
      BY <1>1, FrameFields
    <3>3. Top.touches \o <<>> = Top.touches
      BY <3>2
    <3> QED BY <3>1, <3>3
  <2>6. /\ Depth \in Nat /\ DOMAIN frames = 1..Depth /\ Depth \in 1..Depth
    BY <1>1, FrameTypes DEF Inv
  <2> HIDE DEF f
  <2>7. frames' = [frames EXCEPT ![Depth] = f]
    BY <2>3 DEF f
  <2>8. frames' \in Seq(Frame) /\ Len(frames') = Depth /\ DOMAIN frames' = 1..Depth
    BY <2>4, <2>6, <2>7 DEF Inv, TypeOK, Depth
  <2>9. \A i \in 1..Depth : frames'[i] = IF i = Depth THEN f ELSE frames[i]
    BY <2>6, <2>7
  <2>10. Grown(Depth, <<>>)
    <3>1. \A i \in 1..Depth : /\ frames'[i].entry = frames[i].entry
                              /\ frames'[i].static = frames[i].static
      BY <2>5, <2>9 DEF Top
    <3>2. \A i \in 1..(Depth - 1) : frames'[i].touches = frames[i].touches
      BY <2>6, <2>9
    <3> QED BY <2>5, <2>6, <2>8, <2>9, <3>1, <3>2 DEF Grown, Top
  <2>11. ext' = e
    BY <1>3
  <2>12. Journals' /\ StaticInherited' /\ StaticStorageFrozen'
    BY <2>1, <2>2, <2>8, <2>10, <2>11, InnerStep
  <2> QED BY <1>1, <2>1, <2>8, <2>11, <2>12 DEF Inv, TypeOK
<1> QED BY <1>2, <1>3 DEF SELFDESTRUCT

LEMMA StopStep ==
  ASSUME Inv, Stop \/ Halt
  PROVE  Inv'
<1>1. /\ frames # <<>> /\ steps' \in Nat /\ txs' \in Nat
      /\ \E st \in Status : Advance(ext, <<>>, st)
  BY StatusFacts DEF Stop, Halt, Inv, TypeOK
<1> QED BY <1>1, Refused

LEMMA CallAccessFacts ==
  ASSUME NEW e \in Ext, NEW a \in Addr
  PROVE  /\ Target(e, a) \in Addr
         /\ CallAccess(e, a) \in Ext
         /\ CallAccessTouches(e, a) \in Seq(Touch)
         /\ Sound(e, CallAccessTouches(e, a), CallAccess(e, a))
         /\ CallAccess(e, a).storage = e.storage
         /\ CallAccess(e, a).balance = e.balance
<1> DEFINE t == Target(e, a)
           e1 == Access(e, a)
           e2 == Access(e1, t)
           e3 == Pull(e2, a)
           e4 == Pull(e3, t)
<1>1. t \in Addr
  BY DEF Target
<1> HIDE DEF t
<1>2. e1 \in Ext /\ AccessTouch(e, a) \in Seq(Touch) /\ Sound(e, AccessTouch(e, a), e1)
  BY SoundAccess
<1>3. e1.storage = e.storage /\ e1.balance = e.balance
  BY DEF Access, WarmAddress, Ext
<1> HIDE DEF e1
<1>4. e2 \in Ext /\ AccessTouch(e1, t) \in Seq(Touch) /\ Sound(e1, AccessTouch(e1, t), e2)
  BY <1>1, <1>2, SoundAccess
<1>5. e2.storage = e1.storage /\ e2.balance = e1.balance
  BY <1>1, <1>2 DEF Access, WarmAddress, Ext
<1> HIDE DEF e2
<1>6. e3 \in Ext /\ Same(e2, e3) /\ e3.balance = e2.balance
  BY <1>4, PullWorld DEF Pull, Ext
<1> HIDE DEF e3
<1>7. e4 \in Ext /\ Same(e3, e4) /\ e4.balance = e3.balance
  BY <1>1, <1>6, PullWorld DEF Pull, Ext
<1> HIDE DEF e4
<1>8. Sound(e, AccessTouch(e, a) \o AccessTouch(e1, t), e2)
  BY <1>2, <1>4, SoundCompose
<1>9. Sound(e, AccessTouch(e, a) \o AccessTouch(e1, t), e4)
  BY <1>6, <1>7, <1>8, SoundSame
<1>10. e4.storage = e.storage /\ e4.balance = e.balance
  BY <1>3, <1>5, <1>6, <1>7 DEF Same
<1>11. AccessTouch(e, a) \o AccessTouch(e1, t) \in Seq(Touch)
  BY <1>2, <1>4
<1>12. CallAccess(e, a) = e4 /\ CallAccessTouches(e, a) = AccessTouch(e, a) \o AccessTouch(e1, t)
  BY DEF CallAccess, CallAccessTouches, e4, e3, e2, e1, t
<1> QED BY <1>1, <1>7, <1>9, <1>10, <1>11, <1>12 DEF t

LEMMA NewFrameType ==
  ASSUME NEW kind \in {"call", "create"}, NEW ct \in CallTypes, NEW static \in BOOLEAN,
         NEW this \in Addr, NEW from \in Addr, NEW v \in Nat, NEW code,
         NEW e \in Ext, NEW before \in [Addr -> Nat]
  PROVE  /\ NewFrame(kind, ct, static, this, from, v, code, e, before) \in Frame
         /\ NewFrame(kind, ct, static, this, from, v, code, e, before).entry = e
         /\ NewFrame(kind, ct, static, this, from, v, code, e, before).from = from
         /\ NewFrame(kind, ct, static, this, from, v, code, e, before).static = static
         /\ NewFrame(kind, ct, static, this, from, v, code, e, before).touches = WarmTouch(e, from)
<1>1. WarmTouch(e, from) \in Seq(Touch)
  BY SoundWarm
<1> QED BY <1>1 DEF NewFrame, Frame

LEMMA DoCallStep ==
  ASSUME Inv, NEW op, Executing(op), NEW ct \in {"Call", "Callcode", "Delegate", "Static"},
         NEW a \in Operands, NEW v \in Nat, DoCall(ct, a, v)
  PROVE  Inv'
<1> DEFINE this  == Top.this
           e     == CallAccess(ext, a)
           new   == CallAccessTouches(ext, a)
           moves == v > 0 /\ ct \in {"Call", "Callcode"} /\ HasFunds(ext, this, v) /\ this # a
           own   == ct \in {"Callcode", "Delegate"}
           ts    == new \o (IF moves THEN TransferTouches(ext, this, a) ELSE <<>>)
           w     == IF moves THEN Transfer(e, this, a, v) ELSE e
           st    == Top.static \/ ct = "Static"
           me    == IF own THEN this ELSE a
           by    == IF own THEN Top.from ELSE this
           code  == Resolve(ext, a)
           f     == NewFrame("call", ct, st, me, by, v, code, w, ext.balance)
<1>1. /\ a \in Addr /\ this \in Addr /\ ext \in Ext /\ Top \in Frame /\ Top.from \in Addr
      /\ frames # <<>> /\ steps' \in Nat /\ txs' \in Nat /\ Top.static \in BOOLEAN
  BY ExecutingFacts, AddressAssumption
<1>2. /\ e \in Ext /\ new \in Seq(Touch) /\ Sound(ext, new, e)
      /\ e.storage = ext.storage /\ e.balance = ext.balance
  BY <1>1, CallAccessFacts
<1>3. \/ Advance(e, new, "running")
      \/ Advance(e, new, "reverted")
      \/ Enter(ts, {}, f)
  BY DEF DoCall
<1> HIDE DEF e, new, this, code
<1>4. CASE Advance(e, new, "running") \/ Advance(e, new, "reverted")
  <2>1. \E x \in Status : Advance(e, new, x)
    BY <1>4, StatusFacts
  <2> QED BY <1>1, <1>2, <2>1, AdvanceFrame
<1>5. CASE Enter(ts, {}, f)
  <2>1. w \in Ext /\ w.storage = ext.storage /\ ts \in Seq(Touch) /\ Sound(ext, ts, w)
    <3>1. CASE moves
      <4>1. w \in Ext /\ Same(e, w)
        BY <1>1, <1>2, <3>1, TransferWorld DEF HasFunds
      <4>2. /\ TransferTouches(ext, this, a) \in Seq(Touch)
            /\ Sound(e, TransferTouches(ext, this, a), w)
        BY <1>1, <1>2, <4>1, SoundTransfer
      <4>3. ts = new \o TransferTouches(ext, this, a)
        BY <3>1
      <4> HIDE DEF w, ts
      <4>4. ts \in Seq(Touch) /\ Sound(ext, ts, w)
        BY <1>2, <4>2, <4>3, SoundCompose
      <4> QED BY <1>2, <4>1, <4>4 DEF Same
    <3>2. CASE ~moves
      <4>1. w = e /\ ts = new
        BY <1>2, <3>2
      <4> QED BY <1>2, <4>1
    <3> QED BY <3>1, <3>2
  <2> HIDE DEF w, ts
  <2>2. /\ st \in BOOLEAN /\ (Top.static => st) /\ me \in Addr /\ by \in Addr
        /\ ct \in CallTypes /\ ext.balance \in [Addr -> Nat]
    BY <1>1 DEF CallTypes, Ext
  <2> HIDE DEF st, me, by, moves, own
  <2> DEFINE bal == ext.balance
             kind == "call"
  <2>5. kind \in {"call", "create"} /\ bal \in [Addr -> Nat]
    BY <2>2
  <2>6. f = NewFrame(kind, ct, st, me, by, v, code, w, bal)
    OBVIOUS
  <2> HIDE DEF f, bal, kind
  <2>3. /\ f \in Frame /\ f.entry = w /\ f.from = by /\ f.static = st
        /\ f.touches = WarmTouch(w, by)
    BY ONLY <2>1, <2>2, <2>5, <2>6, NewFrameType, v \in Nat
  <2> HIDE DEF f
  <2>4. {} \in SUBSET Addr /\ (Top.static => f.static)
    BY <2>2, <2>3
  <2> QED BY <1>1, <1>5, <2>1, <2>3, <2>4, EnterFrame
<1> QED BY <1>3, <1>4, <1>5

LEMMA CallsStep ==
  ASSUME Inv, NEW a \in Operands, NEW v \in Amounts, CALL(a, v) \/ CALLCODE(a, v)
  PROVE  Inv'
<1>0. v \in Nat
  BY BoundAssumption
<1>1. CASE CALL(a, v)
  <2>1. Executing("CALL")
    BY <1>1 DEF CALL
  <2>2. CASE Advance(ext, <<>>, "reverted")
    BY <2>1, <2>2, ExecutingFacts, StatusFacts, Refused
  <2>3. CASE DoCall("Call", a, v)
    BY <1>0, <2>1, <2>3, DoCallStep
  <2> QED BY <1>1, <2>2, <2>3 DEF CALL
<1>2. CASE CALLCODE(a, v)
  BY <1>0, <1>2, DoCallStep DEF CALLCODE
<1> QED BY <1>1, <1>2

LEMMA OtherCallsStep ==
  ASSUME Inv, NEW a \in Operands, DELEGATECALL(a) \/ STATICCALL(a)
  PROVE  Inv'
<1>1. CASE DELEGATECALL(a)
  <2>1. Executing("DELEGATECALL") /\ DoCall("Delegate", a, Top.value)
    BY <1>1 DEF DELEGATECALL
  <2>2. Top.value \in Nat
    BY <2>1, ExecutingFacts
  <2> QED BY <2>1, <2>2, DoCallStep
<1>2. CASE STATICCALL(a)
  BY <1>2, DoCallStep DEF STATICCALL
<1> QED BY <1>1, <1>2

\* Creations make accounts at addresses.
LEMMA NewAddressType ==
  ASSUME Inv, NEW op, Executing(op), NEW ct \in CallTypes, NEW v \in Nat, DoCreate(ct, v)
  PROVE  /\ NewAddress(ct) \in Addr
         /\ \/ NewAddress(ct) = Create2Addr[Top.this]
            \/ /\ ext.nonce[Top.this] \in 0..MaxNonce
               /\ NewAddress(ct) = CreateAddr[Top.this][ext.nonce[Top.this]]
<1>1. Top.this \in Addr /\ ext \in Ext
  BY ExecutingFacts
<1>2. ext.nonce[Top.this] \in Nat /\ MaxNonce \in Nat
  BY <1>1, BoundAssumption DEF Ext
<1>3. ext.nonce[Top.this] \in 0..MaxNonce
  BY <1>2 DEF DoCreate
<1>4. Create2Addr[Top.this] \in Addr /\ CreateAddr[Top.this][ext.nonce[Top.this]] \in Addr
  BY <1>1, <1>3, AddressAssumption
<1> QED BY <1>3, <1>4 DEF NewAddress

LEMMA DoCreateStep ==
  ASSUME Inv, NEW op, Executing(op), NEW ct \in CallTypes, NEW v \in Nat, DoCreate(ct, v)
  PROVE  Inv'
<1> DEFINE this == Top.this
           new  == NewAddress(ct)
           n    == ext.nonce[this]
           e1   == [ext EXCEPT !.nonce[this] = n + 1]
           w    == WarmAddress(e1, new)
           e2   == OrDefault(w, new)
           ts   == <<SetNonce(this, n)>> \o WarmTouch(e1, new)
           f(code) == NewFrame("create", ct, Top.static, new, this, v, code, e2, ext.balance)
<1>1. /\ this \in Addr /\ ext \in Ext /\ Top \in Frame /\ Top.static \in BOOLEAN
      /\ frames # <<>> /\ steps' \in Nat /\ txs' \in Nat
  BY ExecutingFacts
<1>2. n \in Nat /\ ext.balance \in [Addr -> Nat]
  BY <1>1 DEF Ext
<1>3. /\ new \in Addr
      /\ \E code \in {Empty, Contract} : Enter(ts, {new}, f(code))
  BY NewAddressType DEF DoCreate
<1>13. PICK code \in {Empty, Contract} : Enter(ts, {new}, f(code))
  BY <1>3
<1> HIDE DEF this, new, n
<1>4. e1 \in Ext /\ Same(ext, e1)
  <2>1. n + 1 \in Nat
    BY <1>2
  <2> QED BY <1>1, <2>1 DEF Ext, Same
<1> HIDE DEF e1
<1>5. w \in Ext /\ WarmTouch(e1, new) \in Seq(Touch) /\ Sound(e1, WarmTouch(e1, new), w)
  BY <1>3, <1>4, SoundWarm
<1>6. w.storage = e1.storage
  BY <1>4 DEF WarmAddress, Ext
<1> HIDE DEF w
<1>7. e2 \in Ext /\ Same(w, e2)
  BY <1>3, <1>5, OrDefaultWorld
<1>8. <<SetNonce(this, n)>> \in Seq(Touch) /\ Sound(ext, <<SetNonce(this, n)>>, e1)
  BY <1>1, <1>2, <1>4, SoundNonce
<1>9. ts \in Seq(Touch) /\ Sound(ext, ts, w)
  <2> DEFINE p == <<SetNonce(this, n)>>
             q == WarmTouch(e1, new)
  <2>1. p \in Seq(Touch) /\ q \in Seq(Touch) /\ ts = p \o q
        /\ Sound(ext, p, e1) /\ Sound(e1, q, w)
    BY <1>5, <1>8
  <2> HIDE DEF p, q, ts
  <2> QED BY <2>1, SoundCompose
<1> HIDE DEF e2, ts
<1>10. Sound(ext, ts, e2) /\ e2.storage = ext.storage
  BY <1>4, <1>6, <1>7, <1>9, SoundSame DEF Same
<1> DEFINE g == f(code)
<1>11. /\ g \in Frame /\ g.entry = e2 /\ g.from = this /\ g.static = Top.static
       /\ g.touches = WarmTouch(e2, this)
  BY <1>1, <1>2, <1>3, <1>7, NewFrameType
<1>12. Enter(ts, {new}, g) /\ {new} \in SUBSET Addr
  BY <1>3, <1>13
<1> HIDE DEF g
<1> QED BY <1>1, <1>9, <1>10, <1>11, <1>12, EnterFrame

LEMMA CreatesStep ==
  ASSUME Inv, NEW v \in Amounts, CREATE(v) \/ CREATE2(v)
  PROVE  Inv'
<1>0. v \in Nat
  BY BoundAssumption
<1>1. PICK op \in {"CREATE", "CREATE2"} : Executing(op)
  BY DEF CREATE, CREATE2
<1>2. Top.callType \in CallTypes /\ "Create2" \in CallTypes
  BY <1>1, ExecutingFacts DEF CallTypes
<1>3. CASE Advance(ext, <<>>, "reverted")
  BY <1>1, <1>3, ExecutingFacts, StatusFacts, Refused
<1>4. CASE \E ct \in {Top.callType, "Create2"} : DoCreate(ct, v)
  BY <1>0, <1>1, <1>2, <1>4, DoCreateStep
<1> QED BY <1>3, <1>4 DEF CREATE, CREATE2

LEMMA EndedFacts ==
  ASSUME Inv, Depth > 1
  PROVE  /\ ext \in Ext /\ Top \in Frame /\ Top.touches \in Seq(Touch) /\ Top.entry \in Ext
         /\ Top.this \in Addr /\ Top.from \in Addr /\ Top.value \in Nat
         /\ Sound(Top.entry, Top.touches, ext)
<1>1. Depth \in Nat /\ Depth \in DOMAIN frames /\ Depth \in 1..Depth /\ ext \in Ext
  BY FrameTypes DEF Inv, TypeOK
<1>2. Top \in Frame
  BY <1>1, FrameTypes DEF Inv, Top
<1>3. Sound(Top.entry, Top.touches, ext)
  BY <1>1 DEF Inv, Journals, After, Top
<1> QED BY <1>1, <1>2, <1>3, FrameFields

LEMMA UndoneStep ==
  ASSUME Inv, Depth > 1, Undone
  PROVE  Inv'
<1> DEFINE e == Revert(Top.touches, ext)
           ts == Survivors(Top.touches)
<1>1. /\ e.storage = Top.entry.storage /\ ts \in Seq(Touch) /\ Sound(Top.entry, ts, e)
      /\ e \in Ext
  BY EndedFacts, SoundRevert, RevertWorld
<1>2. Leave(e, ts, {}) /\ {} \in SUBSET Addr
  BY DEF Undone
<1> HIDE DEF e, ts
<1> QED BY <1>1, <1>2, LeaveFrame

LEMMA CallSucceedsStep ==
  ASSUME Inv, CallSucceeds
  PROVE  Inv'
<1>1. Depth > 1 /\ Leave(ext, Top.touches, {}) /\ {} \in SUBSET Addr
  BY DEF CallSucceeds, Ended
<1> QED BY <1>1, EndedFacts, LeaveFrame

LEMMA CreateSucceedsStep ==
  ASSUME Inv, CreateSucceeds
  PROVE  Inv'
<1> DEFINE this  == Top.from
           new   == Top.this
           moves == /\ Top.value > 0
                    /\ Top.callType \notin {"Static", "Delegate"}
                    /\ HasFunds(ext, this, Top.value)
           taint == IF moves THEN {this, new} ELSE {new}
           e(code) == [ext EXCEPT !.code[new] = code, !.nonce[new] = 1]
           w(code) == IF moves THEN Transfer(e(code), this, new, Top.value) ELSE e(code)
           p(code) == IF moves THEN TransferTouches(e(code), this, new) ELSE <<>>
<1>1. PICK code \in {Empty, Contract} :
        Leave(w(code), p(code) \o <<CreateTouch(new)>> \o Top.touches, taint)
  BY DEF CreateSucceeds
<1>2. Depth > 1
  BY DEF CreateSucceeds, Ended
<1>3. /\ ext \in Ext /\ Top \in Frame /\ Top.touches \in Seq(Touch) /\ Top.entry \in Ext
      /\ new \in Addr /\ this \in Addr /\ Top.value \in Nat
      /\ Sound(Top.entry, Top.touches, ext)
  BY <1>2, EndedFacts
<1> HIDE DEF this, new
<1> DEFINE f == e(code)
           g == w(code)
           q == p(code)
           c == <<CreateTouch(new)>>
           ts == q \o c \o Top.touches
<1>4. f \in Ext /\ Same(ext, f) /\ f.balance = ext.balance
  <2>1. code \in Code
    BY DEF Code
  <2> QED BY <1>3, <2>1 DEF Ext, Same
<1> HIDE DEF f
<1>5. g \in Ext /\ Same(ext, g)
  <2>1. CASE moves
    <3>1. f.balance[this] >= Top.value /\ g = Transfer(f, this, new, Top.value)
      BY <1>4, <2>1 DEF f, HasFunds
    <3> HIDE DEF g
    <3>2. g \in Ext /\ Same(f, g)
      BY <1>3, <1>4, <3>1, TransferWorld
    <3> QED BY <1>4, <3>2 DEF Same
  <2>2. CASE ~moves
    BY <1>4, <2>2 DEF f
  <2> QED BY <2>1, <2>2
<1> HIDE DEF g
<1>6. Same(Top.entry, Top.entry) /\ Sound(Top.entry, <<>>, Top.entry)
  BY <1>3, SoundNothing DEF Same
<1>7. q \in Seq(Touch) /\ Sound(Top.entry, q, Top.entry)
  <2>1. CASE moves
    <3>1. q = TransferTouches(f, this, new)
      BY <2>1 DEF f
    <3> QED BY <1>3, <1>4, <1>6, <3>1, SoundTransfer
  <2>2. CASE ~moves
    BY <1>6, <2>2
  <2> QED BY <2>1, <2>2
<1>8. c \in Seq(Touch) /\ Sound(Top.entry, c, Top.entry)
  BY <1>3, <1>6, SoundCreate
<1> HIDE DEF q, c
<1>9. q \o c \in Seq(Touch) /\ Sound(Top.entry, q \o c, Top.entry)
  BY <1>7, <1>8, SoundCompose
<1>10. ts \in Seq(Touch) /\ Sound(Top.entry, ts, ext)
  <2> DEFINE qc == q \o c
             t == Top.touches
             b == Top.entry
  <2>1. /\ qc \in Seq(Touch) /\ t \in Seq(Touch) /\ ts = qc \o t
        /\ Sound(b, qc, b) /\ Sound(b, t, ext)
    BY <1>3, <1>9
  <2> HIDE DEF qc, t, b
  <2>2. qc \o t \in Seq(Touch) /\ Sound(b, qc \o t, ext)
    BY <2>1, SoundCompose
  <2> QED BY <2>1, <2>2 DEF b
<1>11. Sound(Top.entry, ts, g) /\ g.storage = ext.storage
  BY <1>5, <1>10, SoundSame DEF Same
<1>12. Leave(g, ts, taint)
  BY <1>1 DEF g, q, c
<1>13. taint \in SUBSET Addr
  BY <1>3
<1> HIDE DEF ts, taint
<1> QED BY <1>2, <1>5, <1>10, <1>11, <1>12, <1>13, LeaveFrame

LEMMA EndTxStep ==
  ASSUME Inv, EndTx
  PROVE  Inv'
<1>1. Depth \in Nat /\ Depth = 1 /\ Depth \in 1..Depth /\ ext \in Ext /\ steps \in Nat /\ txs \in Nat
  BY FrameTypes DEF Inv, TypeOK, EndTx
<1>2. Top \in Frame
  BY <1>1, FrameTypes DEF Inv, Top
<1>3. Top.touches \in Seq(Touch) /\ Top.from \in Addr
  BY <1>2, FrameFields
<1> DEFINE e == Revert(Top.touches, ext)
           from == Top.from
<1>4. e \in Ext
  BY <1>1, <1>3, RevertWorld
<1> HIDE DEF e, from
<1>5. [e EXCEPT !.nonce[from] = @ + 1] \in Ext
  <2>1. e.nonce[from] + 1 \in Nat
    BY <1>3, <1>4 DEF Ext, from
  <2> QED BY <1>3, <1>4, <2>1 DEF Ext, from
<1>6. ext' \in Ext
  BY <1>1, <1>5 DEF EndTx, e, from
<1>7. frames' = <<>> /\ steps' = steps /\ txs' = txs
  BY DEF EndTx
<1>8. TypeOK'
  BY <1>1, <1>6, <1>7 DEF TypeOK
<1>9. DOMAIN frames' = {}
  BY <1>7
<1> QED BY <1>8, <1>9 DEF Inv, Journals, StaticInherited, StaticStorageFrozen

LEMMA EndCreateTxStep ==
  ASSUME Inv, EndCreateTx
  PROVE  Inv'
<1> DEFINE from == Top.from
           new  == Top.this
           e    == Revert(Top.touches, ext)
           p    == Pull(Pull(ext, new), from)
           Counted(w) == [w EXCEPT !.nonce[from] = @ + 1]
<1>1. Depth \in Nat /\ Depth = 1 /\ Depth \in 1..Depth /\ ext \in Ext /\ steps \in Nat /\ txs \in Nat
  BY FrameTypes DEF Inv, TypeOK, EndCreateTx
<1>2. Top \in Frame
  BY <1>1, FrameTypes DEF Inv, Top
<1>3. Top.touches \in Seq(Touch) /\ from \in Addr /\ new \in Addr
  BY <1>2, FrameFields
<1>4. e \in Ext
  BY <1>1, <1>3, RevertWorld
<1>5. p \in Ext
  BY <1>1, <1>3, PullWorld
<1>6. /\ frames' = <<>> /\ steps' = steps /\ txs' = txs
      /\ \/ ext' = Counted(e)
         \/ \E code \in {Empty, Contract} :
              ext' = [Counted(p) EXCEPT !.code[new] = code, !.nonce[new] = 1]
  BY DEF EndCreateTx
<1> HIDE DEF e, p, from, new
<1>7. ASSUME NEW w \in Ext PROVE Counted(w) \in Ext
  <2>1. w.nonce[from] + 1 \in Nat
    BY <1>3 DEF Ext
  <2> QED BY <1>3, <2>1 DEF Ext
<1>8. ext' \in Ext
  <2>1. CASE ext' = Counted(e)
    BY <1>4, <1>7, <2>1
  <2>2. ASSUME NEW code \in {Empty, Contract},
               ext' = [Counted(p) EXCEPT !.code[new] = code, !.nonce[new] = 1]
        PROVE  ext' \in Ext
    <3>1. code \in Code /\ Counted(p) \in Ext
      BY <1>5, <1>7 DEF Code
    <3> HIDE DEF Counted
    <3> QED BY <1>3, <2>2, <3>1, AccountWorld
  <2> QED BY <1>6, <2>1, <2>2
<1>9. TypeOK'
  BY <1>1, <1>6, <1>8 DEF TypeOK
<1>10. DOMAIN frames' = {}
  BY <1>6
<1> QED BY <1>9, <1>10 DEF Inv, Journals, StaticInherited, StaticStorageFrozen

\* Six journals that follow one another make one.
LEMMA SoundChain ==
  ASSUME NEW p1 \in Seq(Touch), NEW p2 \in Seq(Touch), NEW p3 \in Seq(Touch),
         NEW p4 \in Seq(Touch), NEW p5 \in Seq(Touch), NEW p6 \in Seq(Touch),
         NEW e0, NEW e1, NEW e2, NEW e3, NEW e4, NEW e5, NEW e6,
         Sound(e0, p1, e1), Sound(e1, p2, e2), Sound(e2, p3, e3),
         Sound(e3, p4, e4), Sound(e4, p5, e5), Sound(e5, p6, e6)
  PROVE  /\ p1 \o p2 \o p3 \o p4 \o p5 \o p6 \in Seq(Touch)
         /\ Sound(e0, p1 \o p2 \o p3 \o p4 \o p5 \o p6, e6)
<1> DEFINE q2 == p1 \o p2
           q3 == q2 \o p3
           q4 == q3 \o p4
           q5 == q4 \o p5
           q6 == q5 \o p6
<1>1. q2 \in Seq(Touch) /\ Sound(e0, q2, e2)
  BY SoundCompose
<1> HIDE DEF q2
<1>2. q3 \in Seq(Touch) /\ Sound(e0, q3, e3)
  BY <1>1, SoundCompose
<1> HIDE DEF q3
<1>3. q4 \in Seq(Touch) /\ Sound(e0, q4, e4)
  BY <1>2, SoundCompose
<1> HIDE DEF q4
<1>4. q5 \in Seq(Touch) /\ Sound(e0, q5, e5)
  BY <1>3, SoundCompose
<1> HIDE DEF q5
<1>5. q6 \in Seq(Touch) /\ Sound(e0, q6, e6)
  BY <1>4, SoundCompose
<1> QED BY <1>5 DEF q5, q4, q3, q2

LEMMA BeginTxStep ==
  ASSUME Inv, NEW from \in Senders, NEW to \in Operands, NEW v \in Amounts, BeginTx(from, to, v)
  PROVE  Inv'
<1> DEFINE e0   == Reset(ext)
           n0   == e0.nonce[from]
           new  == CreateAddr[from][n0]
           w    == Pull(Pull(e0, to), from)
           w1   == WarmAddress(w, new)
           e1   == OrDefault(w1, new)
           e2   == WarmAddress(e1, from)
           e3   == WarmAddress(e2, to)
           tgt  == Target(e3, to)
           w4   == Pull(e3, tgt)
           e4   == WarmAddress(w4, tgt)
           pays == v > 0
           e5   == [e4 EXCEPT !.balance[from] = SatSub(@, v)]
           e6   == IF pays THEN [e5 EXCEPT !.balance[to] = @ + v] ELSE e4
           e7   == [e6 EXCEPT !.nonce[from] = @ + 1]
           p1   == WarmTouch(w, new)
           p2   == WarmTouch(e1, from)
           p3   == WarmTouch(e2, to)
           p4   == WarmTouch(e3, tgt)
           p5   == IF pays THEN TransferTouches(e4, from, to) ELSE <<>>
           p6   == <<SetNonce(from, e6.nonce[from])>>
           ts   == p1 \o p2 \o p3 \o p4 \o p5 \o p6
           code == Resolve(e3, to)
           f    == [ kind |-> "call", callType |-> "Call", static |-> FALSE,
                     this |-> to, from |-> from, value |-> v, touches |-> ts,
                     status |-> IF code = Empty THEN "stopped" ELSE "running",
                     entry |-> e0, before |-> e0.balance, tainted |-> {new} ]
<1>0. /\ ext \in Ext /\ from \in Addr /\ to \in Addr /\ v \in Nat /\ txs \in Nat /\ MaxSteps \in Nat
      /\ MaxNonce \in Nat
  BY AddressAssumption, BoundAssumption DEF Inv, TypeOK
<1>19. n0 < MaxNonce
  BY Zenon DEF BeginTx
<1>1. txs > 0 /\ ext' = e7 /\ frames' = <<f>> /\ steps' = MaxSteps /\ txs' = txs - 1
  BY Zenon DEF BeginTx
<1>2. e0 \in Ext
  BY <1>0, ResetWorld
<1> HIDE DEF e0
<1>3. new \in Addr
  <2>1. n0 \in Nat
    BY <1>0, <1>2 DEF Ext
  <2> HIDE DEF n0
  <2>2. n0 \in 0..MaxNonce
    BY <1>0, <1>19, <2>1
  <2> QED BY <1>0, <2>2, AddressAssumption
<1> HIDE DEF n0, new
<1>4. w \in Ext /\ Same(e0, w)
  <2>1. Pull(e0, to) \in Ext /\ Same(e0, Pull(e0, to))
    BY <1>0, <1>2, PullWorld
  <2>2. w \in Ext /\ Same(Pull(e0, to), w)
    BY <1>0, <2>1, PullWorld
  <2> QED BY <2>1, <2>2 DEF Same
<1> HIDE DEF w
<1>5. e1 \in Ext /\ p1 \in Seq(Touch) /\ Sound(e0, p1, e1)
  <2>1. w1 \in Ext /\ p1 \in Seq(Touch) /\ Sound(w, p1, w1)
    BY <1>3, <1>4, SoundWarm
  <2>2. e1 \in Ext /\ Same(w1, e1)
    BY <1>3, <2>1, OrDefaultWorld
  <2>3. Sound(w, p1, e1)
    BY <2>1, <2>2, SoundSame
  <2>4. Sound(e0, p1, e1)
    BY <1>4, <2>3 DEF Sound, Recorded, KeepsWarm, Same
  <2> QED BY <2>1, <2>2, <2>4
<1> HIDE DEF e1, p1
<1>6. e2 \in Ext /\ p2 \in Seq(Touch) /\ Sound(e1, p2, e2)
  BY <1>0, <1>5, SoundWarm
<1> HIDE DEF e2, p2
<1>7. e3 \in Ext /\ p3 \in Seq(Touch) /\ Sound(e2, p3, e3)
  BY <1>0, <1>6, SoundWarm
<1> HIDE DEF e3, p3
<1>8. tgt \in Addr
  BY <1>0, <1>7 DEF Target
<1> HIDE DEF tgt
<1>9. e4 \in Ext /\ p4 \in Seq(Touch) /\ Sound(e3, p4, e4)
  <2>1. w4 \in Ext /\ Same(e3, w4)
    BY <1>7, <1>8, PullWorld
  <2>2. WarmTouch(w4, tgt) = p4
    BY <2>1 DEF WarmTouch, Same
  <2>3. e4 \in Ext /\ p4 \in Seq(Touch) /\ Sound(w4, p4, e4)
    BY <1>8, <2>1, <2>2, SoundWarm
  <2> QED BY <2>1, <2>3 DEF Sound, Recorded, KeepsWarm, Same
<1> HIDE DEF e4, p4, w4
<1>10. e6 \in Ext /\ p5 \in Seq(Touch) /\ Sound(e4, p5, e6)
  <2>1. CASE pays
    <3>1. SatSub(e4.balance[from], v) \in Nat
      BY <1>0, <1>9 DEF SatSub, Ext
    <3>2. e5 \in Ext /\ Same(e4, e5)
      BY <1>0, <1>9, <3>1 DEF Ext, Same
    <3> HIDE DEF e5
    <3>3. e5.balance[to] + v \in Nat
      BY <1>0, <3>2 DEF Ext
    <3>4. e6 = [e5 EXCEPT !.balance[to] = @ + v] /\ p5 = TransferTouches(e4, from, to)
      BY <2>1
    <3> HIDE DEF e6, p5
    <3>5. e6 \in Ext /\ Same(e5, e6)
      BY <1>0, <3>2, <3>3, <3>4 DEF Ext, Same
    <3>6. Same(e4, e6)
      BY <3>2, <3>5 DEF Same
    <3> QED BY <1>0, <1>9, <3>4, <3>5, <3>6, SoundTransfer
  <2>2. CASE ~pays
    <3>1. e6 = e4 /\ p5 = <<>>
      BY <2>2
    <3>2. Same(e4, e4)
      BY DEF Same
    <3> HIDE DEF e6, p5
    <3> QED BY <1>9, <3>1, <3>2, SoundNothing
  <2> QED BY <2>1, <2>2
<1> HIDE DEF e6, p5
<1>11. e7 \in Ext /\ p6 \in Seq(Touch) /\ Sound(e6, p6, e7)
  <2>1. e6.nonce[from] \in Nat /\ e6.nonce[from] + 1 \in Nat
    BY <1>0, <1>10 DEF Ext
  <2>2. e7 \in Ext /\ Same(e6, e7)
    BY <1>0, <1>10, <2>1 DEF Ext, Same
  <2> HIDE DEF e7
  <2> QED BY <1>0, <1>10, <2>1, <2>2, SoundNonce
<1> HIDE DEF e7, p6
<1>12. ts \in Seq(Touch) /\ Sound(e0, ts, e7)
  BY <1>5, <1>6, <1>7, <1>9, <1>10, <1>11, SoundChain
<1> HIDE DEF ts
<1>13. f \in Frame
  <2>1. e0.balance \in [Addr -> Nat]
    BY <1>2 DEF Ext
  <2> QED BY <1>0, <1>2, <1>3, <1>12, <2>1 DEF Frame, CallTypes
<1>14. f.entry = e0 /\ f.touches = ts /\ f.static = FALSE
  OBVIOUS
<1> HIDE DEF f
<1>15. /\ frames' \in Seq(Frame) /\ DOMAIN frames' = {1} /\ frames'[1] = f /\ Depth' = 1
  BY <1>1, <1>13 DEF Depth
<1>16. TypeOK'
  BY <1>0, <1>1, <1>11, <1>15 DEF TypeOK
<1>17. Journals'
  <2>1. After(1)' = e7
    BY <1>1, <1>15 DEF After
  <2> QED BY <1>12, <1>14, <1>15, <2>1 DEF Journals
<1>18. StaticInherited' /\ StaticStorageFrozen'
  BY <1>14, <1>15 DEF StaticInherited, StaticStorageFrozen
<1> QED BY <1>16, <1>17, <1>18 DEF Inv

LEMMA BeginCreateTxStep ==
  ASSUME Inv, NEW from \in Creators, NEW v \in Amounts, BeginCreateTx(from, v)
  PROVE  Inv'
<1> DEFINE e0    == Reset(ext)
           n0    == e0.nonce[from]
           new   == CreateAddr[from][n0]
           w     == Pull(e0, from)
           w1    == WarmAddress(w, new)
           e1    == OrDefault(w1, new)
           moves == v > 0 /\ HasFunds(e1, from, v)
           e2    == IF moves THEN Transfer(e1, from, new, v) ELSE e1
           e3    == WarmAddress(e2, from)
           p1    == WarmTouch(w, new)
           p2    == IF moves THEN TransferTouches(e1, from, new) ELSE <<>>
           p3    == WarmTouch(e2, from)
           ts    == p1 \o p2 \o p3
           f(st) == [ kind |-> "create", callType |-> "Create", static |-> FALSE,
                      this |-> new, from |-> from, value |-> v, touches |-> ts, status |-> st,
                      entry |-> e0, before |-> e0.balance, tainted |-> {new} ]
<1>0. /\ ext \in Ext /\ from \in Addr /\ v \in Nat /\ txs \in Nat /\ MaxSteps \in Nat
      /\ MaxNonce \in Nat
  BY AddressAssumption, BoundAssumption DEF Inv, TypeOK
<1>1. /\ n0 < MaxNonce /\ txs > 0 /\ ext' = e3 /\ steps' = MaxSteps /\ txs' = txs - 1
      /\ \E st \in {"running", "stopped"} : frames' = <<f(st)>>
  BY Zenon DEF BeginCreateTx
<1>2. PICK st \in {"running", "stopped"} : frames' = <<f(st)>>
  BY <1>1
<1>3. e0 \in Ext
  BY <1>0, ResetWorld
<1> HIDE DEF e0
<1>4. new \in Addr
  <2>1. n0 \in Nat
    BY <1>0, <1>3 DEF Ext
  <2> HIDE DEF n0
  <2>2. n0 \in 0..MaxNonce
    BY <1>0, <1>1, <2>1
  <2> QED BY <1>0, <2>2, AddressAssumption
<1> HIDE DEF n0, new
<1>5. w \in Ext /\ Same(e0, w)
  BY <1>0, <1>3, PullWorld
<1> HIDE DEF w
<1>6. e1 \in Ext /\ p1 \in Seq(Touch) /\ Sound(e0, p1, e1)
  <2>1. w1 \in Ext /\ p1 \in Seq(Touch) /\ Sound(w, p1, w1)
    BY <1>4, <1>5, SoundWarm
  <2>2. e1 \in Ext /\ Same(w1, e1)
    BY <1>4, <2>1, OrDefaultWorld
  <2>3. Sound(w, p1, e1)
    BY <2>1, <2>2, SoundSame
  <2>4. Sound(e0, p1, e1)
    BY <1>5, <2>3 DEF Sound, Recorded, KeepsWarm, Same
  <2> QED BY <2>1, <2>2, <2>4
<1> HIDE DEF e1, p1
<1>7. e2 \in Ext /\ p2 \in Seq(Touch) /\ Sound(e1, p2, e2)
  <2>1. CASE moves
    <3>1. /\ e1.balance[from] >= v /\ e2 = Transfer(e1, from, new, v)
          /\ p2 = TransferTouches(e1, from, new)
      BY <2>1 DEF HasFunds
    <3> HIDE DEF e2, p2
    <3>2. e2 \in Ext /\ Same(e1, e2)
      BY <1>0, <1>4, <1>6, <3>1, TransferWorld
    <3> QED BY <1>0, <1>4, <1>6, <3>1, <3>2, SoundTransfer
  <2>2. CASE ~moves
    <3>1. e2 = e1 /\ p2 = <<>>
      BY <2>2
    <3>2. Same(e1, e1)
      BY DEF Same
    <3> HIDE DEF e2, p2
    <3> QED BY <1>6, <3>1, <3>2, SoundNothing
  <2> QED BY <2>1, <2>2
<1> HIDE DEF e2, p2
<1>8. e3 \in Ext /\ p3 \in Seq(Touch) /\ Sound(e2, p3, e3)
  BY <1>0, <1>7, SoundWarm
<1> HIDE DEF e3, p3
<1>9. ts \in Seq(Touch) /\ Sound(e0, ts, e3)
  <2>1. p1 \o p2 \in Seq(Touch) /\ Sound(e0, p1 \o p2, e2)
    BY <1>6, <1>7, SoundCompose
  <2> DEFINE q == p1 \o p2
  <2>2. q \in Seq(Touch) /\ Sound(e0, q, e2) /\ ts = q \o p3
    BY <2>1
  <2> HIDE DEF q, ts
  <2> QED BY <1>8, <2>2, SoundCompose
<1> HIDE DEF ts
<1>10. f(st) \in Frame
  <2>1. e0.balance \in [Addr -> Nat]
    BY <1>3 DEF Ext
  <2> QED BY <1>0, <1>3, <1>4, <1>9, <2>1 DEF Frame, CallTypes
<1>11. f(st).entry = e0 /\ f(st).touches = ts /\ f(st).static = FALSE
  OBVIOUS
<1> HIDE DEF f
<1>12. /\ frames' \in Seq(Frame) /\ DOMAIN frames' = {1} /\ frames'[1] = f(st) /\ Depth' = 1
  BY <1>2, <1>10 DEF Depth
<1>13. TypeOK'
  BY <1>0, <1>1, <1>8, <1>12 DEF TypeOK
<1>14. Journals'
  <2>1. After(1)' = e3
    BY <1>1, <1>12 DEF After
  <2> QED BY <1>9, <1>11, <1>12, <2>1 DEF Journals
<1>15. StaticInherited' /\ StaticStorageFrozen'
  BY <1>11, <1>12 DEF StaticInherited, StaticStorageFrozen
<1> QED BY <1>13, <1>14, <1>15 DEF Inv

-----------------------------------------------------------------------------
(* Theorems *)

LEMMA InvInit ==
  ASSUME Init
  PROVE  Inv
<1>1. ext \in Ext
  BY GenesisAssumption, ValuesAssumption DEF Init, Ext, AccountState
<1>2. frames = <<>> /\ steps \in Nat /\ txs \in Nat
  BY BoundAssumption DEF Init
<1>3. DOMAIN frames = {} /\ frames \in Seq(Frame)
  BY <1>2
<1> QED BY <1>1, <1>2, <1>3 DEF Inv, TypeOK, Journals, StaticInherited, StaticStorageFrozen

LEMMA InvNext ==
  ASSUME Inv, [Next]_vars
  PROVE  Inv'
<1>1. ASSUME NEW k \in Keys, SLOAD(k) PROVE Inv'
  BY <1>1, SLOADStep
<1>2. ASSUME NEW k \in Keys, NEW v \in Values, SSTORE(k, v) PROVE Inv'
  BY <1>2, SSTOREStep
<1>3. ASSUME NEW k \in Keys, NEW v \in Values, TSTORE(k, v) PROVE Inv'
  BY <1>3, TSTOREStep
<1>4. ASSUME NEW a \in Operands, ReadAccount(a) PROVE Inv'
  BY <1>4, ReadAccountStep
<1>5. ASSUME NEW a \in Operands, SELFDESTRUCT(a) PROVE Inv'
  BY <1>5, SELFDESTRUCTStep
<1>6. CASE Stop \/ Halt
  BY <1>6, StopStep
<1>7. ASSUME NEW a \in Operands, NEW v \in Amounts, CALL(a, v) \/ CALLCODE(a, v) PROVE Inv'
  BY <1>7, CallsStep
<1>8. ASSUME NEW a \in Operands, DELEGATECALL(a) \/ STATICCALL(a) PROVE Inv'
  BY <1>8, OtherCallsStep
<1>9. ASSUME NEW v \in Amounts, CREATE(v) \/ CREATE2(v) PROVE Inv'
  BY <1>9, CreatesStep
<1>10. CASE CallReverts \/ CreateFails
  BY <1>10, UndoneStep DEF CallReverts, CreateFails, Ended
<1>11. CASE CallSucceeds
  BY <1>11, CallSucceedsStep
<1>12. CASE CreateSucceeds
  BY <1>12, CreateSucceedsStep
<1>13. ASSUME NEW from \in Senders, NEW to \in Operands, NEW v \in Amounts, BeginTx(from, to, v)
       PROVE  Inv'
  BY <1>13, BeginTxStep
<1>14. CASE EndTx
  BY <1>14, EndTxStep
<1>15. ASSUME NEW from \in Creators, NEW v \in Amounts, BeginCreateTx(from, v) PROVE Inv'
  BY <1>15, BeginCreateTxStep
<1>16. CASE EndCreateTx
  BY <1>16, EndCreateTxStep
<1>17. CASE UNCHANGED vars
  BY <1>17 DEF vars, Inv, TypeOK, Journals, StaticInherited, StaticStorageFrozen, After, Depth
<1> QED
  BY <1>1, <1>2, <1>3, <1>4, <1>5, <1>6, <1>7, <1>8, <1>9, <1>10, <1>11, <1>12, <1>13,
     <1>14, <1>15, <1>16, <1>17 DEF Next, Finished

\* The strengthened invariant holds in every reachable state.
THEOREM Invariance == Spec => []Inv
<1>1. Init => Inv
  BY InvInit
<1>2. Inv /\ [Next]_vars => Inv'
  BY InvNext
<1> QED BY <1>1, <1>2, PTL DEF Spec

\* The world, the frame stack and every journal keep their types.
THEOREM TypeCorrect == Spec => []TypeOK
<1>1. Inv => TypeOK
  BY DEF Inv
<1> QED BY <1>1, Invariance, PTL

\* For any programs and any nesting, Evm::revert on any frame's journal would give
\* back exactly the storage, transient storage and warm addresses of its entry.
THEOREM JournalExactAlways == Spec => []JournalExact
<1>1. Inv => JournalExact
  BY DEF Inv, Journals, JournalExact, Sound
<1> QED BY <1>1, Invariance, PTL

\* No revert ever makes a slot cold that was warm when the frame was entered.
THEOREM WarmSlotsAlwaysKept == Spec => []WarmSlotsKept
<1>1. Inv => WarmSlotsKept
  BY DEF Inv, Journals, WarmSlotsKept, Sound
<1> QED BY <1>1, Invariance, PTL

\* Nothing executed under a STATICCALL, at any depth, changes storage.
THEOREM StaticStorageAlwaysFrozen == Spec => []StaticStorageFrozen
<1>1. Inv => StaticStorageFrozen
  BY DEF Inv
<1> QED BY <1>1, Invariance, PTL

\* An opcode drops no frame.
LEMMA NoneDropped ==
  ASSUME Inv, frames # <<>>
  PROVE  /\ \A g : frames' = [frames EXCEPT ![Depth] = g] => Len(frames') = Depth
         /\ \A e, new, st : Advance(e, new, st) => Len(frames') = Depth
         /\ \A new, taint, f : Enter(new, taint, f) => Len(frames') = Depth + 1
<1>1. frames \in Seq(Frame) /\ Depth = Len(frames) /\ Depth \in 1..Depth
  BY FrameTypes DEF Inv, TypeOK, Depth
<1>2. ASSUME NEW g PROVE Len([frames EXCEPT ![Depth] = g]) = Depth
  BY <1>1
<1>3. ASSUME NEW g, NEW f PROVE Len(Append([frames EXCEPT ![Depth] = g], f)) = Depth + 1
  <2>1. [frames EXCEPT ![Depth] = g] \in Seq(Frame \cup {g})
    BY <1>1
  <2> QED BY <1>1, <1>2, <2>1
<1> QED BY <1>2, <1>3 DEF Advance, Enter

LEMMA AtomicNext ==
  ASSUME Inv, Next
  PROVE  AtomicStep
<1> SUFFICES ASSUME Reverts
             PROVE  /\ ext'.storage = Top.entry.storage
                    /\ ext'.transient = Top.entry.transient
                    /\ ext'.warmAddr = Top.entry.warmAddr
  BY DEF AtomicStep
<1>1. /\ Depth \in Nat /\ Depth > 0 /\ frames # <<>> /\ Top.status = "reverted"
      /\ ~(Len(frames') = Depth) /\ ~(Len(frames') = Depth + 1)
  <2>1. Depth \in Nat /\ Depth > 0 /\ Len(frames') < Depth /\ Top.status = "reverted"
    BY FrameTypes DEF Inv, Reverts
  <2> QED BY <2>1 DEF Depth
<1>2. /\ \A e, new, st : ~Advance(e, new, st)
      /\ \A new, taint, f : ~Enter(new, taint, f)
  BY <1>1, NoneDropped
<1>3. Sound(Top.entry, Top.touches, ext) /\ Top.entry \in Ext /\ ext \in Ext /\ Top.touches \in Seq(Touch)
  <2>1. Depth \in DOMAIN frames /\ Top \in Frame /\ ext \in Ext
    BY <1>1, FrameTypes DEF Inv, TypeOK, Top
  <2> QED BY <2>1, FrameFields DEF Inv, Journals, After, Top
<1> DEFINE e == Revert(Top.touches, ext)
<1>4. /\ e.storage = Top.entry.storage /\ e.transient = Top.entry.transient
      /\ e.warmAddr = Top.entry.warmAddr /\ e \in Ext
  BY <1>3, SoundRevert, RevertWorld
<1>5. ext' = e \/ ext' = [e EXCEPT !.nonce[Top.from] = @ + 1]
  <2>1. ASSUME NEW k \in Keys, NEW v \in Values, SSTORE(k, v) \/ TSTORE(k, v)
        PROVE  FALSE
    BY <1>2, <2>1 DEF SSTORE, TSTORE
  <2>2. ASSUME NEW a \in Operands, ReadAccount(a)
        PROVE  FALSE
    BY <1>2, <2>2 DEF ReadAccount
  <2>3. ASSUME NEW a \in Operands, SELFDESTRUCT(a)
        PROVE  FALSE
    BY <1>1, <1>2, <2>3, NoneDropped DEF SELFDESTRUCT
  <2>4. CASE Stop \/ Halt
    BY <1>2, <2>4 DEF Stop, Halt
  <2>5. ASSUME NEW ct, NEW a, NEW v, DoCall(ct, a, v)
        PROVE  FALSE
    BY <1>2, <2>5 DEF DoCall
  <2>6. ASSUME NEW ct, NEW v, DoCreate(ct, v)
        PROVE  FALSE
    BY <1>2, <2>6 DEF DoCreate
  <2>7. ASSUME NEW a \in Operands, NEW v \in Amounts,
               CALL(a, v) \/ CALLCODE(a, v)
        PROVE  FALSE
    BY <1>2, <2>5, <2>7 DEF CALL, CALLCODE
  <2>8. ASSUME NEW a \in Operands, DELEGATECALL(a) \/ STATICCALL(a)
        PROVE  FALSE
    BY <2>5, <2>8 DEF DELEGATECALL, STATICCALL
  <2>9. CASE CallReverts \/ CreateFails
    BY <2>9 DEF CallReverts, CreateFails, Undone, Leave
  <2>10. ~CallSucceeds /\ ~CreateSucceeds
    BY <1>1 DEF CallSucceeds, CreateSucceeds
  <2>11. CASE EndTx
    BY <1>1, <2>11 DEF EndTx
  <2>12. /\ \A from \in Senders, to \in Operands, v \in Amounts : ~BeginTx(from, to, v)
         /\ \A from \in Creators, v \in Amounts : ~BeginCreateTx(from, v)
         /\ ~Finished
    <3>1. ASSUME NEW from, NEW to, NEW v, BeginTx(from, to, v)
          PROVE  frames = <<>>
      BY <3>1, Zenon DEF BeginTx
    <3>2. ASSUME NEW from, NEW v, BeginCreateTx(from, v)
          PROVE  frames = <<>>
      BY <3>2, Zenon DEF BeginCreateTx
    <3> QED BY <1>1, <3>1, <3>2 DEF Finished
  <2>13. ASSUME NEW v \in Amounts, CREATE(v) \/ CREATE2(v)
         PROVE  FALSE
    BY <1>2, <2>6, <2>13 DEF CREATE, CREATE2
  <2>14. ASSUME NEW k \in Keys, SLOAD(k)
         PROVE  FALSE
    BY <1>2, <2>14 DEF SLOAD
  <2>15. CASE EndCreateTx
    BY <1>1, <2>15 DEF EndCreateTx
  <2> QED
    BY <2>1, <2>2, <2>3, <2>4, <2>7, <2>8, <2>9, <2>10, <2>11, <2>12, <2>13, <2>14, <2>15
    DEF Next
<1> HIDE DEF e
<1> QED BY <1>4, <1>5 DEF Ext

\* A reverted call, creation or transaction leaves storage, transient storage and
\* warm addresses as they were when its Evm was made.
THEOREM RevertAlwaysAtomic == Spec => RevertIsAtomic
<1>1. Inv /\ [Next]_vars => [AtomicStep]_vars
  BY AtomicNext
<1> QED BY <1>1, Invariance, PTL DEF Spec, RevertIsAtomic
=============================================================================
