----------------------------- MODULE WorldProofs -----------------------------
(***************************************************************************)
(* Further results about module Frames, on top of the invariant of         *)
(* FramesProofs.  Every step has one of four shapes: the innermost frame   *)
(* works, it calls, it leaves, or a transaction begins.  From the shapes   *)
(* follow: frames with journals implement the calls of Snapshots that copy *)
(* and put back the world; a journal answers for balances, nonces and code *)
(* of every account that is not written behind its back; the values noted  *)
(* in original are those before the transaction; a transaction uses up a   *)
(* nonce of its signer.  Apart from these: Revert is the loop of           *)
(* Evm::revert.                                                            *)
(***************************************************************************)
EXTENDS FramesProofs, SequenceTheorems

-----------------------------------------------------------------------------
(* What the three ways to change the stack of frames do to it *)

\* The innermost frame becomes g.
LEMMA InnerShape ==
  ASSUME Inv, frames # <<>>, NEW g, frames' = [frames EXCEPT ![Depth] = g]
  PROVE  /\ Depth \in Nat /\ Depth \in 1..Depth /\ Len(frames) = Depth
         /\ Len(frames') = Depth /\ DOMAIN frames' = 1..Depth
         /\ \A i \in 1..Depth : frames'[i] = IF i = Depth THEN g ELSE frames[i]
<1>1. frames \in Seq(Frame) /\ Depth = Len(frames) /\ Depth \in 1..Depth /\ Depth \in Nat
  BY FrameTypes DEF Inv, TypeOK, Depth
<1> QED BY <1>1

\* The opcodes add to the journal of the innermost frame and set its status.
LEMMA AdvanceShape ==
  ASSUME Inv, frames # <<>>, NEW e, NEW new, NEW st, Advance(e, new, st)
  PROVE  /\ Depth \in Nat /\ Depth \in 1..Depth /\ Len(frames) = Depth
         /\ Len(frames') = Depth /\ DOMAIN frames' = 1..Depth
         /\ \A i \in 1..Depth : i # Depth => frames'[i] = frames[i]
         /\ frames'[Depth] = [Top EXCEPT !.touches = @ \o new, !.status = st]
         /\ Top \in Frame /\ Top = frames[Depth]
         /\ ext' = e
<1> DEFINE g == [Top EXCEPT !.touches = @ \o new, !.status = st]
<1>1. frames' = [frames EXCEPT ![Depth] = g] /\ ext' = e
  BY DEF Advance
<1> HIDE DEF g
<1>2. /\ Depth \in Nat /\ Depth \in 1..Depth /\ Len(frames) = Depth
      /\ Len(frames') = Depth /\ DOMAIN frames' = 1..Depth
      /\ \A i \in 1..Depth : frames'[i] = IF i = Depth THEN g ELSE frames[i]
  BY <1>1, InnerShape
<1>3. Top \in Frame /\ Top = frames[Depth]
  BY <1>2, FrameTypes DEF Inv, Top
<1> QED BY <1>1, <1>2, <1>3 DEF g

\* A call or creation adds a frame.
LEMMA EnterShape ==
  ASSUME Inv, frames # <<>>, NEW new, NEW taint, NEW f, Enter(new, taint, f)
  PROVE  /\ Depth \in Nat /\ Depth \in 1..Depth /\ Len(frames) = Depth
         /\ Len(frames') = Depth + 1 /\ DOMAIN frames' = 1..(Depth + 1)
         /\ \A i \in 1..Depth : i # Depth => frames'[i] = frames[i]
         /\ frames'[Depth] = [Top EXCEPT !.touches = @ \o new, !.tainted = @ \cup taint]
         /\ frames'[Depth + 1] = f
         /\ Top \in Frame /\ Top = frames[Depth]
         /\ ext' = WarmAddress(f.entry, f.from)
<1> DEFINE g == [Top EXCEPT !.touches = @ \o new, !.tainted = @ \cup taint]
           rest == [frames EXCEPT ![Depth] = g]
<1>1. frames' = Append(rest, f) /\ ext' = WarmAddress(f.entry, f.from)
  BY DEF Enter
<1> HIDE DEF g
<1>2. frames \in Seq(Frame) /\ Depth = Len(frames) /\ Depth \in 1..Depth /\ Depth \in Nat
  BY FrameTypes DEF Inv, TypeOK, Depth
<1>3. /\ rest \in Seq(Frame \cup {g}) /\ Len(rest) = Depth
      /\ \A i \in 1..Depth : rest[i] = IF i = Depth THEN g ELSE frames[i]
  BY <1>2
<1> HIDE DEF rest
<1>4. /\ Len(frames') = Depth + 1 /\ DOMAIN frames' = 1..(Depth + 1)
      /\ \A i \in 1..Depth : frames'[i] = rest[i]
      /\ frames'[Depth + 1] = f
  BY <1>1, <1>2, <1>3
<1>5. Top \in Frame /\ Top = frames[Depth]
  BY <1>2, FrameTypes DEF Inv, Top
<1> QED BY <1>1, <1>2, <1>3, <1>4, <1>5 DEF g

\* The end of a call or creation drops the innermost frame.
LEMMA LeaveShape ==
  ASSUME Inv, Depth > 1, NEW e, NEW new, NEW taint, Leave(e, new, taint)
  PROVE  /\ Depth \in Nat /\ Depth \in 1..Depth /\ Len(frames) = Depth
         /\ Depth - 1 \in 1..Depth
         /\ Len(frames') = Depth - 1 /\ DOMAIN frames' = 1..(Depth - 1)
         /\ \A i \in 1..(Depth - 1) : i # Depth - 1 => frames'[i] = frames[i]
         /\ frames'[Depth - 1] = [frames[Depth - 1] EXCEPT
                                    !.touches = @ \o new,
                                    !.tainted = @ \cup Top.tainted \cup taint]
         /\ frames[Depth - 1] \in Frame /\ Top \in Frame /\ Top = frames[Depth]
         /\ ext' = e
<1>1. frames \in Seq(Frame) /\ Depth = Len(frames) /\ Depth \in 1..Depth /\ Depth \in Nat
  BY FrameTypes DEF Inv, TypeOK, Depth
<1> DEFINE g == [frames[Depth - 1] EXCEPT !.touches = @ \o new,
                                          !.tainted = @ \cup Top.tainted \cup taint]
<1>2. /\ frames' = [i \in 1..(Depth - 1) |-> IF i = Depth - 1 THEN g ELSE frames[i]]
      /\ ext' = e
  BY DEF Leave
<1> HIDE DEF g
<1>3. Depth - 1 \in 1..Depth /\ Depth - 1 \in Nat /\ Depth - 1 \in 1..(Depth - 1)
  BY <1>1
<1>4. Len(frames') = Depth - 1 /\ DOMAIN frames' = 1..(Depth - 1)
  BY <1>2, <1>3
<1>5. frames[Depth - 1] \in Frame /\ Top \in Frame /\ Top = frames[Depth]
  BY <1>1, <1>3, FrameTypes DEF Inv, Top
<1>6. frames'[Depth - 1] = g /\ \A i \in 1..(Depth - 1) : i # Depth - 1 => frames'[i] = frames[i]
  BY <1>2, <1>3
<1> QED BY <1>1, <1>2, <1>3, <1>4, <1>5, <1>6 DEF g

-----------------------------------------------------------------------------
(* The loop of Evm::revert *)

\* What is left of a journal once its first i touches are taken off.
Suffix(ts, i) == SubSeq(ts, i + 1, Len(ts))

\* Suffixes of a journal.
LEMMA SuffixFacts ==
  ASSUME NEW ts \in Seq(Touch)
  PROVE  /\ Len(ts) \in Nat /\ Suffix(ts, Len(ts)) = <<>> /\ Suffix(ts, 0) = ts
         /\ \A i \in 0..(Len(ts) - 1) :
              /\ i + 1 \in 0..Len(ts) /\ ts[i + 1] \in Touch /\ Suffix(ts, i + 1) \in Seq(Touch)
              /\ Suffix(ts, i) = <<ts[i + 1]>> \o Suffix(ts, i + 1)
<1>1. Len(ts) \in Nat /\ Suffix(ts, Len(ts)) = <<>> /\ Suffix(ts, 0) = ts
  BY DEF Suffix
<1>2. ASSUME NEW i \in 0..(Len(ts) - 1)
      PROVE  /\ i + 1 \in 0..Len(ts) /\ ts[i + 1] \in Touch /\ Suffix(ts, i + 1) \in Seq(Touch)
             /\ Suffix(ts, i) = <<ts[i + 1]>> \o Suffix(ts, i + 1)
  <2> DEFINE n == Len(ts)
             t == ts[i + 1]
             p == Suffix(ts, i)
             q == Suffix(ts, i + 1)
  <2>1. n \in Nat /\ i \in Nat /\ i + 1 <= n /\ t \in Touch
    BY <1>1
  <2>2. /\ p \in Seq(Touch) /\ Len(p) = n - i
        /\ \A k \in 1..(n - i) : p[k] = ts[i + k]
    BY <2>1 DEF Suffix
  <2>3. /\ q \in Seq(Touch) /\ Len(q) = n - i - 1
        /\ \A k \in 1..(n - i - 1) : q[k] = ts[i + 1 + k]
    BY <2>1 DEF Suffix
  <2> HIDE DEF n, t, p, q
  <2> DEFINE r == <<t>> \o q
  <2>4. /\ r \in Seq(Touch) /\ Len(r) = n - i /\ r[1] = t
        /\ \A k \in 2..(n - i) : r[k] = q[k - 1]
    BY <2>1, <2>3
  <2> HIDE DEF r
  <2>5. \A k \in 1..(n - i) : p[k] = r[k]
    <3> SUFFICES ASSUME NEW k \in 1..(n - i) PROVE p[k] = r[k]
      OBVIOUS
    <3>1. CASE k = 1
      BY <2>1, <2>2, <2>4, <3>1 DEF t
    <3>2. CASE k # 1
      <4>1. k - 1 \in 1..(n - i - 1) /\ i + 1 + (k - 1) = i + k /\ k \in 2..(n - i)
        BY <2>1, <3>2
      <4> QED BY <2>2, <2>3, <2>4, <4>1
    <3> QED BY <3>1, <3>2
  <2>6. p = r
    BY <2>1, <2>2, <2>4, <2>5, SeqEqual
  <2> QED BY <2>1, <2>3, <2>6 DEF n, t, p, q, r
<1> QED BY <1>1, <1>2

\* A journal without touches undoes nothing.
LEMMA RevertNothing ==
  ASSUME NEW e \in Ext
  PROVE  Revert(<<>>, e) = e
<1>1. \A op, s : SlotTouches(<<>>, op, s) = {} /\ AddrTouches(<<>>, op, s) = {}
  BY DEF SlotTouches, AddrTouches
<1>2. \A s : Coolers(<<>>, s) = {}
  BY DEF Coolers
<1>3. /\ UndoStorage(<<>>, e.storage) = e.storage
      /\ UndoTransient(<<>>, e.transient) = e.transient
      /\ UndoNonce(<<>>, e.nonce) = e.nonce
      /\ UndoBalance(<<>>, e.balance) = e.balance
      /\ UndoCode(<<>>, e.code) = e.code
  BY <1>1 DEF UndoStorage, UndoTransient, UndoNonce, UndoBalance, UndoCode, Rewind, Ext
<1>4. /\ UndoWarmAddr(<<>>, e.warmAddr) = e.warmAddr
      /\ UndoWarmSlot(<<>>, e.warmSlot) = e.warmSlot
      /\ UndoPresent(<<>>, e.present) = e.present
  BY <1>1, <1>2 DEF UndoWarmAddr, UndoWarmSlot, UndoPresent
<1> QED BY <1>3, <1>4 DEF Revert, Ext

\* A set that holds 0 and with a number the next one holds all of them.
LEMMA CountInduction ==
  ASSUME NEW S, 0 \in S, \A n \in Nat : n \in S => n + 1 \in S
  PROVE  Nat \subseteq S
<1> SUFFICES ASSUME Nat \ S # {}
             PROVE  FALSE
  OBVIOUS
<1> DEFINE m == Earliest(Nat \ S)
<1>1. m \in Nat \ S /\ \A j \in Nat \ S : m <= j
  BY EarliestIsLeast
<1> HIDE DEF m
<1>2. m # 0 /\ m - 1 \in Nat
  BY <1>1
<1>3. m - 1 \in S
  BY <1>1, <1>2
<1> QED BY <1>1, <1>2, <1>3

\* One turn of the loop of Evm::revert, as ReverseReplay has it.
Turn(g, ts, e, i) == IF i = Len(ts) THEN e ELSE UndoTouch(ts[i + 1], g[i + 1])

\* The worlds that the loop of Evm::revert goes through.
Replayed(g, ts, e) == g = [i \in 0..Len(ts) |-> Turn(g, ts, e, i)]

\* Undoing the rest of the journal as a whole is undoing it touch by touch.
LEMMA SuffixesReplayed ==
  ASSUME NEW ts \in Seq(Touch), NEW e \in Ext
  PROVE  Replayed([i \in 0..Len(ts) |-> Revert(Suffix(ts, i), e)], ts, e)
<1> DEFINE g == [i \in 0..Len(ts) |-> Revert(Suffix(ts, i), e)]
<1>1. ASSUME NEW i \in 0..Len(ts)
      PROVE  Revert(Suffix(ts, i), e) = Turn(g, ts, e, i)
  <2>1. CASE i = Len(ts)
    BY <2>1, SuffixFacts, RevertNothing DEF Turn
  <2>2. CASE i # Len(ts)
    <3> DEFINE t == ts[i + 1]
               f == Revert(Suffix(ts, i + 1), e)
    <3>1. /\ i + 1 \in 0..Len(ts) /\ t \in Touch /\ Suffix(ts, i + 1) \in Seq(Touch)
          /\ Suffix(ts, i) = <<t>> \o Suffix(ts, i + 1)
      BY <2>2, SuffixFacts
    <3>2. f \in Ext
      BY <3>1, RevertWorld
    <3>3. Revert(Suffix(ts, i), e) = Revert(<<t>>, f)
      <4>1. <<t>> \in Seq(Touch)
        BY <3>1
      <4>2. Revert(<<t>> \o Suffix(ts, i + 1), e) = Revert(<<t>>, Revert(Suffix(ts, i + 1), e))
        BY <3>1, <4>1, RevertConcat
      <4> QED BY <3>1, <4>2
    <3>4. Revert(<<t>>, f) = UndoTouch(t, f)
      BY <3>1, <3>2, RevertOne
    <3>5. g[i + 1] = f
      BY <3>1
    <3> QED BY <2>2, <3>3, <3>4, <3>5 DEF Turn
  <2> QED BY <2>1, <2>2
<1> QED BY <1>1 DEF Replayed

\* The loop goes through the same worlds each time.
LEMMA ReplayedOnce ==
  ASSUME NEW ts \in Seq(Touch), NEW e, NEW g, NEW h, Replayed(g, ts, e), Replayed(h, ts, e)
  PROVE  g[0] = h[0]
<1> DEFINE Q == {n \in Nat : n <= Len(ts) => g[Len(ts) - n] = h[Len(ts) - n]}
<1>1. Len(ts) \in Nat
  OBVIOUS
<1>2. \A i \in 0..Len(ts) : g[i] = Turn(g, ts, e, i) /\ h[i] = Turn(h, ts, e, i)
  BY DEF Replayed
<1>3. 0 \in Q
  <2>1. g[Len(ts)] = e /\ h[Len(ts)] = e
    BY <1>1, <1>2 DEF Turn
  <2> QED BY <1>1, <2>1
<1>4. ASSUME NEW n \in Nat, n \in Q
      PROVE  n + 1 \in Q
  <2> SUFFICES ASSUME n + 1 <= Len(ts)
               PROVE  g[Len(ts) - (n + 1)] = h[Len(ts) - (n + 1)]
    OBVIOUS
  <2> DEFINE i == Len(ts) - (n + 1)
  <2>1. i \in 0..Len(ts) /\ i # Len(ts) /\ i + 1 = Len(ts) - n
    BY <1>1
  <2>2. g[i + 1] = h[i + 1]
    <3>1. n <= Len(ts)
      BY <1>1
    <3>2. g[Len(ts) - n] = h[Len(ts) - n]
      BY <1>4, <3>1
    <3> QED BY <2>1, <3>2
  <2> HIDE DEF i
  <2>3. g[i] = h[i]
    BY <1>2, <2>1, <2>2 DEF Turn
  <2> QED BY <2>3 DEF i
<1>5. Nat \subseteq Q
  <2> HIDE DEF Q
  <2> QED BY <1>3, <1>4, CountInduction
<1>6. Len(ts) \in Q
  BY <1>1, <1>5
<1> QED BY <1>1, <1>6

\* Revert, which speaks of every location, is the loop of Evm::revert, which undoes
\* one touch after the other, the last one first.
THEOREM RevertIsTheLoop ==
  ASSUME NEW ts \in Seq(Touch), NEW e \in Ext
  PROVE  Revert(ts, e) = ReverseReplay(ts, e)
<1> DEFINE g == [i \in 0..Len(ts) |-> Revert(Suffix(ts, i), e)]
           h == CHOOSE h : Replayed(h, ts, e)
<1>1. Replayed(g, ts, e)
  BY SuffixesReplayed
<1>2. Replayed(h, ts, e)
  BY <1>1
<1>3. g[0] = Revert(ts, e)
  BY SuffixFacts
<1>4. ReverseReplay(ts, e) = h[0]
  BY DEF ReverseReplay, Replayed, Turn
<1> HIDE DEF g, h
<1> QED BY <1>1, <1>2, <1>3, <1>4, ReplayedOnce

-----------------------------------------------------------------------------
(* What a journal says of accounts *)

\* The addresses creations may be given.
NewAddrs == {CreateAddr[x][n] : x \in Addr, n \in 0..MaxNonce}
              \cup {Create2Addr[x] : x \in Addr}

\* The accounts a journal marks as created are among T.
Marks(ts, T) == \A i \in DOMAIN ts : ts[i].op = "Create" => ts[i].addr \in T

\* Undoing ts in the world f gives every account outside T as it was in e.
Restores(e, ts, f, T) ==
  \A a \in Addr \ T : /\ UndoBalance(ts, f.balance)[a] = e.balance[a]
                      /\ UndoNonce(ts, f.nonce)[a] = e.nonce[a]
                      /\ UndoCode(ts, f.code)[a] = e.code[a]

\* The nonce of a is not below what it was in e, and undoing does not bring it there.
Climbs(e, ts, f, a) ==
  /\ f.nonce[a] >= e.nonce[a]
  /\ \A i \in AddrTouches(ts, {"SetNonce", "Create"}, a) : Old(ts[i]) >= e.nonce[a]

\* The touches ts account for what happened to accounts outside T between the
\* worlds e and f.
Kept(e, ts, f, T) ==
  /\ Marks(ts, T)
  /\ Restores(e, ts, f, T)
  /\ \A a \in Addr \ NewAddrs : Climbs(e, ts, f, a)

LEMMA NonceType ==
  ASSUME NEW e \in Ext, NEW a \in Addr
  PROVE  e.nonce[a] \in Nat /\ e.balance[a] \in Nat
BY DEF Ext

LEMMA OldType ==
  ASSUME NEW ts \in Seq(Touch), NEW a, NEW i \in AddrTouches(ts, {"SetNonce", "Create"}, a)
  PROVE  Old(ts[i]) \in Nat
<1>1. ts[i] \in Touch /\ ts[i].op \in {"SetNonce", "Create"}
  BY DEF AddrTouches
<1> QED BY <1>1 DEF Touch, Old

LEMMA KeptCompose ==
  ASSUME NEW e \in Ext, NEW f \in Ext, NEW g \in Ext, NEW p \in Seq(Touch), NEW q \in Seq(Touch),
         NEW T, NEW U, Kept(e, p, f, T), Kept(f, q, g, U)
  PROVE  p \o q \in Seq(Touch) /\ Kept(e, p \o q, g, T \cup U)
<1>0. p \o q \in Seq(Touch)
  OBVIOUS
<1>1. Marks(p \o q, T \cup U)
  <2>1. /\ DOMAIN (p \o q) = DOMAIN p \cup {Len(p) + j : j \in DOMAIN q}
        /\ \A i \in DOMAIN p : (p \o q)[i] = p[i]
        /\ \A j \in DOMAIN q : (p \o q)[Len(p) + j] = q[j]
    BY ConcatIndices
  <2>2. Marks(p, T) /\ Marks(q, U)
    BY DEF Kept
  <2>3. ASSUME NEW i \in DOMAIN (p \o q), (p \o q)[i].op = "Create"
        PROVE  (p \o q)[i].addr \in T \cup U
    <3>1. CASE i \in DOMAIN p
      BY <2>1, <2>2, <2>3, <3>1, Zenon DEF Marks
    <3>2. ASSUME NEW j \in DOMAIN q, i = Len(p) + j
          PROVE  (p \o q)[i].addr \in T \cup U
      BY <2>1, <2>2, <2>3, <3>2, Zenon DEF Marks
    <3> QED BY <2>1, <3>1, <3>2, Zenon
  <2> QED BY <2>3 DEF Marks
<1>2. Restores(e, p \o q, g, T \cup U)
  <2> SUFFICES ASSUME NEW a \in Addr \ (T \cup U)
               PROVE  /\ UndoBalance(p \o q, g.balance)[a] = e.balance[a]
                      /\ UndoNonce(p \o q, g.nonce)[a] = e.nonce[a]
                      /\ UndoCode(p \o q, g.code)[a] = e.code[a]
    BY DEF Restores
  <2>1. /\ UndoBalance(q, g.balance)[a] = f.balance[a] /\ UndoNonce(q, g.nonce)[a] = f.nonce[a]
        /\ UndoCode(q, g.code)[a] = f.code[a]
        /\ UndoBalance(p, f.balance)[a] = e.balance[a] /\ UndoNonce(p, f.nonce)[a] = e.nonce[a]
        /\ UndoCode(p, f.code)[a] = e.code[a]
    BY DEF Kept, Restores
  <2>2. UndoBalance(p, UndoBalance(q, g.balance))[a] = UndoBalance(p, f.balance)[a]
    BY <2>1 DEF UndoBalance
  <2>3. UndoNonce(p, UndoNonce(q, g.nonce))[a] = UndoNonce(p, f.nonce)[a]
    BY <2>1 DEF UndoNonce
  <2>4. UndoCode(p, UndoCode(q, g.code))[a] = UndoCode(p, f.code)[a]
    BY <2>1 DEF UndoCode
  <2> QED BY <2>1, <2>2, <2>3, <2>4, UndoBalanceConcat, UndoNonceConcat, UndoCodeConcat
<1>3. ASSUME NEW a \in Addr \ NewAddrs PROVE Climbs(e, p \o q, g, a)
  <2> DEFINE I == AddrTouches(p, {"SetNonce", "Create"}, a)
             J == AddrTouches(q, {"SetNonce", "Create"}, a)
             K == AddrTouches(p \o q, {"SetNonce", "Create"}, a)
  <2>1. /\ e.nonce[a] \in Nat /\ f.nonce[a] \in Nat /\ g.nonce[a] \in Nat
    BY NonceType
  <2>2. /\ f.nonce[a] >= e.nonce[a] /\ g.nonce[a] >= f.nonce[a]
        /\ \A i \in I : Old(p[i]) >= e.nonce[a]
        /\ \A i \in J : Old(q[i]) >= f.nonce[a]
    BY DEF Kept, Climbs
  <2>3. K = I \cup {Len(p) + j : j \in J}
    BY AddrTouchesConcat
  <2>4. /\ I \subseteq DOMAIN p /\ J \subseteq DOMAIN q
        /\ \A i \in DOMAIN p : (p \o q)[i] = p[i]
        /\ \A j \in DOMAIN q : (p \o q)[Len(p) + j] = q[j]
    BY ConcatIndices DEF AddrTouches
  <2>5. \A j \in J : Old(q[j]) \in Nat
    BY OldType
  <2> HIDE DEF I, J, K
  <2>6. \A j \in J : Old(q[j]) >= e.nonce[a]
    BY <2>1, <2>2, <2>5
  <2>7. \A i \in K : Old((p \o q)[i]) >= e.nonce[a]
    <3>1. ASSUME NEW i \in I PROVE Old((p \o q)[i]) >= e.nonce[a]
      BY <2>2, <2>4, Zenon
    <3>2. ASSUME NEW j \in J PROVE Old((p \o q)[Len(p) + j]) >= e.nonce[a]
      BY <2>4, <2>6, Zenon
    <3> QED BY <2>3, <3>1, <3>2, Zenon
  <2>8. g.nonce[a] >= e.nonce[a]
    BY <2>1, <2>2
  <2> QED BY <2>7, <2>8 DEF Climbs, K
<1> QED BY <1>0, <1>1, <1>2, <1>3 DEF Kept

LEMMA KeptWiden ==
  ASSUME NEW e, NEW ts, NEW f, NEW T, NEW U, Kept(e, ts, f, T), T \subseteq U
  PROVE  Kept(e, ts, f, U)
BY DEF Kept, Marks, Restores

\* The touches that accounts do not care about.
Plain(ts) == \A i \in DOMAIN ts : ts[i].op \notin {"SetNonce", "SetValue", "Create"}

LEMMA PlainUndoes ==
  ASSUME NEW ts, Plain(ts), NEW f \in Ext
  PROVE  /\ Marks(ts, {}) /\ \A a : AddrTouches(ts, {"SetNonce", "Create"}, a) = {}
         /\ UndoBalance(ts, f.balance) = f.balance /\ UndoNonce(ts, f.nonce) = f.nonce
         /\ UndoCode(ts, f.code) = f.code
<1>1. \A a : /\ AddrTouches(ts, {"SetNonce", "Create"}, a) = {}
             /\ AddrTouches(ts, {"SetValue", "Create"}, a) = {}
             /\ AddrTouches(ts, {"Create"}, a) = {}
  BY DEF Plain, AddrTouches
<1>2. f.balance \in [Addr -> Nat] /\ f.nonce \in [Addr -> Nat] /\ f.code \in [Addr -> Code]
  BY DEF Ext
<1>3. UndoBalance(ts, f.balance) = f.balance
  BY <1>1, <1>2 DEF UndoBalance, Rewind
<1>4. UndoNonce(ts, f.nonce) = f.nonce
  BY <1>1, <1>2 DEF UndoNonce, Rewind
<1>5. UndoCode(ts, f.code) = f.code
  BY <1>1, <1>2 DEF UndoCode
<1>6. Marks(ts, {})
  BY DEF Plain, Marks
<1> QED BY <1>1, <1>3, <1>4, <1>5, <1>6

\* Steps that leave every account outside T alone, and no old nonce lower.
LEMMA KeptPlain ==
  ASSUME NEW e \in Ext, NEW f \in Ext, NEW ts, Plain(ts), NEW T,
         \A a \in Addr \ T : /\ f.balance[a] = e.balance[a] /\ f.nonce[a] = e.nonce[a]
                             /\ f.code[a] = e.code[a],
         \A a \in Addr \ NewAddrs : f.nonce[a] = e.nonce[a]
  PROVE  Kept(e, ts, f, T)
<1>1. /\ Marks(ts, {}) /\ \A a : AddrTouches(ts, {"SetNonce", "Create"}, a) = {}
      /\ UndoBalance(ts, f.balance) = f.balance /\ UndoNonce(ts, f.nonce) = f.nonce
      /\ UndoCode(ts, f.code) = f.code
  BY PlainUndoes
<1>2. Marks(ts, T) /\ Restores(e, ts, f, T)
  BY <1>1 DEF Marks, Restores
<1>3. ASSUME NEW a \in Addr \ NewAddrs PROVE Climbs(e, ts, f, a)
  <2>1. e.nonce[a] \in Nat /\ f.nonce[a] = e.nonce[a]
    BY NonceType
  <2> QED BY <1>1, <2>1 DEF Climbs
<1> QED BY <1>2, <1>3 DEF Kept

\* No account differs.
Alike(e, f) == f.balance = e.balance /\ f.nonce = e.nonce /\ f.code = e.code

LEMMA KeptAlike ==
  ASSUME NEW e \in Ext, NEW f \in Ext, NEW ts, Plain(ts), Alike(e, f)
  PROVE  Kept(e, ts, f, {})
BY KeptPlain DEF Alike

\* A transfer, journaled by the balances before it.
LEMMA KeptTransfer ==
  ASSUME NEW e \in Ext, NEW f \in Ext, NEW g \in Ext, NEW src \in Addr, NEW dst \in Addr,
         g.balance = e.balance, f.nonce = e.nonce, f.code = e.code,
         \A a \in Addr \ {src, dst} : f.balance[a] = e.balance[a]
  PROVE  /\ TransferTouches(g, src, dst) \in Seq(Touch)
         /\ Kept(e, TransferTouches(g, src, dst), f, {})
<1> DEFINE x == e.balance[src]
           y == e.balance[dst]
           ts == <<SetValue(src, x), SetValue(dst, y)>>
<1>1. TransferTouches(g, src, dst) = ts
  BY DEF TransferTouches
<1>2. x \in Nat /\ y \in Nat
  BY NonceType
<1> HIDE DEF x, y
<1>3. ts \in Seq(Touch)
  BY <1>2 DEF SetValue, Touch
<1>4. /\ DOMAIN ts = {1, 2}
      /\ ts[1].op = "SetValue" /\ ts[1].addr = src /\ ts[1].old = x
      /\ ts[2].op = "SetValue" /\ ts[2].addr = dst /\ ts[2].old = y
  BY DEF SetValue
<1> HIDE DEF ts
<1>5. \A a : AddrTouches(ts, {"SetNonce", "Create"}, a) = {} /\ AddrTouches(ts, {"Create"}, a) = {}
  BY <1>4 DEF AddrTouches
<1>6. Marks(ts, {})
  BY <1>4 DEF Marks
<1>7. UndoNonce(ts, f.nonce) = f.nonce /\ UndoCode(ts, f.code) = f.code
  BY <1>5 DEF UndoNonce, UndoCode, Rewind, Ext
<1>8. ASSUME NEW a \in Addr PROVE UndoBalance(ts, f.balance)[a] = e.balance[a]
  <2> DEFINE I == AddrTouches(ts, {"SetValue", "Create"}, a)
  <2>1. I = {i \in {1, 2} : (i = 1 /\ src = a) \/ (i = 2 /\ dst = a)}
    BY <1>4 DEF AddrTouches
  <2>2. CASE I = {}
    <3>1. a # src /\ a # dst
      BY <2>1, <2>2
    <3> QED BY <2>2, <3>1 DEF UndoBalance, Rewind
  <2>3. CASE I # {}
    <3>1. I \subseteq Nat
      BY <2>1
    <3>2. Earliest(I) \in I
      BY <2>3, <3>1, EarliestIsLeast
    <3>3. ts[Earliest(I)].op = "SetValue" /\ ts[Earliest(I)].old = e.balance[a]
      BY <1>4, <2>1, <3>2 DEF x, y
    <3>4. Old(ts[Earliest(I)]) = e.balance[a]
      BY <3>3 DEF Old
    <3> QED BY <2>3, <3>4 DEF UndoBalance, Rewind
  <2> QED BY <2>2, <2>3
<1>9. Restores(e, ts, f, {})
  BY <1>7, <1>8 DEF Restores
<1>10. ASSUME NEW a \in Addr \ NewAddrs PROVE Climbs(e, ts, f, a)
  <2>1. e.nonce[a] \in Nat
    BY NonceType
  <2> QED BY <1>5, <2>1 DEF Climbs
<1> QED BY <1>1, <1>3, <1>6, <1>9, <1>10 DEF Kept

\* A nonce counted, journaled by the one before it.
LEMMA KeptNonce ==
  ASSUME NEW e \in Ext, NEW b \in Addr
  PROVE  LET f == [e EXCEPT !.nonce[b] = e.nonce[b] + 1]
             ts == <<SetNonce(b, e.nonce[b])>>
         IN  /\ f \in Ext /\ ts \in Seq(Touch) /\ Kept(e, ts, f, {})
             /\ f.nonce[b] > e.nonce[b]
<1> DEFINE n == e.nonce[b]
           f == [e EXCEPT !.nonce[b] = n + 1]
           ts == <<SetNonce(b, n)>>
<1>1. n \in Nat /\ n + 1 \in Nat
  BY NonceType
<1> HIDE DEF n
<1>2. /\ f \in Ext /\ f.balance = e.balance /\ f.code = e.code
      /\ f.nonce[b] = n + 1 /\ \A a \in Addr : a # b => f.nonce[a] = e.nonce[a]
  BY <1>1 DEF Ext
<1> HIDE DEF f
<1>3. ts \in Seq(Touch)
  BY <1>1 DEF SetNonce, Touch
<1>4. DOMAIN ts = {1} /\ ts[1].op = "SetNonce" /\ ts[1].addr = b /\ ts[1].old = n /\ Old(ts[1]) = n
  BY DEF SetNonce, Old
<1> HIDE DEF ts
<1>5. \A a : AddrTouches(ts, {"SetValue", "Create"}, a) = {} /\ AddrTouches(ts, {"Create"}, a) = {}
  BY <1>4 DEF AddrTouches
<1>6. \A a : AddrTouches(ts, {"SetNonce", "Create"}, a) = IF a = b THEN {1} ELSE {}
  BY <1>4 DEF AddrTouches
<1>7. UndoBalance(ts, f.balance) = e.balance /\ UndoCode(ts, f.code) = e.code
  BY <1>2, <1>5 DEF UndoBalance, UndoCode, Rewind, Ext
<1>8. Earliest({1}) = 1
  BY DEF Earliest
<1>9. ASSUME NEW a \in Addr PROVE UndoNonce(ts, f.nonce)[a] = e.nonce[a]
  BY <1>2, <1>4, <1>6, <1>8 DEF UndoNonce, Rewind, n
<1>10. Restores(e, ts, f, {})
  BY <1>7, <1>9 DEF Restores
<1>11. ASSUME NEW a \in Addr PROVE Climbs(e, ts, f, a)
  <2>1. f.nonce[a] >= e.nonce[a] /\ e.nonce[a] \in Nat
    BY <1>1, <1>2, NonceType DEF n
  <2> QED BY <1>1, <1>4, <1>6, <2>1 DEF Climbs, n
<1>12. Marks(ts, {})
  BY <1>4 DEF Marks
<1>13. f.nonce[b] > n
  BY <1>1, <1>2
<1> QED BY <1>2, <1>3, <1>10, <1>11, <1>12, <1>13 DEF Kept, f, ts, n

\* entry(a).or_default() may hide the remote account of a.
LEMMA KeptDefault ==
  ASSUME NEW e \in Ext, NEW a \in Addr, a \in NewAddrs
  PROVE  OrDefault(e, a) \in Ext /\ Kept(e, <<>>, OrDefault(e, a), {a})
<1> DEFINE f == OrDefault(e, a)
<1>1. f \in Ext
  BY OrDefaultWorld
<1>2. \A b \in Addr : b # a => /\ f.balance[b] = e.balance[b] /\ f.nonce[b] = e.nonce[b]
                               /\ f.code[b] = e.code[b]
  BY DEF OrDefault, Ext
<1>3. Plain(<<>>)
  BY DEF Plain
<1> HIDE DEF f
<1>4. Kept(e, <<>>, f, {a})
  BY <1>1, <1>2, <1>3, KeptPlain
<1> QED BY <1>1, <1>4 DEF f

\* A touch made in the journal of a reverted call restores no account for its caller.
LEMMA KeptRevert ==
  ASSUME NEW e \in Ext, NEW f \in Ext, NEW ts \in Seq(Touch), NEW T, Kept(e, ts, f, T)
  PROVE  Survivors(ts) \in Seq(Touch) /\ Kept(e, Survivors(ts), Revert(ts, f), T)
<1> DEFINE ss == Survivors(ts)
           g == Revert(ts, f)
<1>1. /\ DOMAIN ss = DOMAIN ts
      /\ \A i \in DOMAIN ts : ss[i] = IF SurvivesRevert(ts[i]) THEN ts[i] ELSE Noop
  BY DEF Survivors
<1>2. ss \in Seq(Touch)
  <2>1. \A i \in DOMAIN ts : ss[i] \in Touch
    BY <1>1 DEF Touch, Noop
  <2>2. Len(ts) \in Nat /\ DOMAIN ts = 1..Len(ts)
    OBVIOUS
  <2>3. ss \in [1..Len(ts) -> Touch]
    BY <1>1, <2>1, <2>2 DEF Survivors
  <2> HIDE DEF ss
  <2> QED BY <2>2, <2>3
<1>3. /\ g.balance = UndoBalance(ts, f.balance) /\ g.nonce = UndoNonce(ts, f.nonce)
      /\ g.code = UndoCode(ts, f.code)
  BY DEF Revert
<1> HIDE DEF ss, g
<1>4. \A i \in DOMAIN ts : /\ ss[i].op = "Create" => ts[i].op = "Create" /\ ss[i] = ts[i]
                           /\ ss[i].op \notin {"SetNonce", "SetValue"}
  BY <1>1 DEF SurvivesRevert, Noop
<1>5. Marks(ts, T) /\ Restores(e, ts, f, T)
  BY DEF Kept
<1>6. Marks(ss, T)
  BY <1>1, <1>4, <1>5 DEF Marks
<1>7. Restores(e, ss, g, T)
  <2> SUFFICES ASSUME NEW a \in Addr \ T
               PROVE  /\ UndoBalance(ss, g.balance)[a] = e.balance[a]
                      /\ UndoNonce(ss, g.nonce)[a] = e.nonce[a]
                      /\ UndoCode(ss, g.code)[a] = e.code[a]
    BY DEF Restores
  <2>1. \A i \in DOMAIN ss : ss[i].op = "Create" => ss[i].addr # a
    BY <1>6 DEF Marks
  <2>2. /\ AddrTouches(ss, {"SetValue", "Create"}, a) = {}
        /\ AddrTouches(ss, {"SetNonce", "Create"}, a) = {}
        /\ AddrTouches(ss, {"Create"}, a) = {}
    BY <1>1, <1>4, <2>1 DEF AddrTouches
  <2>3. /\ g.balance[a] = e.balance[a] /\ g.nonce[a] = e.nonce[a] /\ g.code[a] = e.code[a]
    BY <1>3, <1>5 DEF Restores
  <2> QED BY <2>2, <2>3 DEF UndoBalance, UndoNonce, UndoCode, Rewind
<1>8. ASSUME NEW a \in Addr \ NewAddrs PROVE Climbs(e, ss, g, a)
  <2> DEFINE I == AddrTouches(ts, {"SetNonce", "Create"}, a)
  <2>1. f.nonce[a] >= e.nonce[a] /\ \A i \in I : Old(ts[i]) >= e.nonce[a]
    BY DEF Kept, Climbs
  <2>2. g.nonce[a] >= e.nonce[a]
    <3>1. g.nonce[a] = Rewind(ts, I, f.nonce[a])
      BY <1>3 DEF UndoNonce
    <3>2. CASE I = {}
      BY <2>1, <3>1, <3>2 DEF Rewind
    <3>3. CASE I # {}
      <4>1. I \subseteq Nat
        BY DEF AddrTouches
      <4>2. Earliest(I) \in I
        BY <3>3, <4>1, EarliestIsLeast
      <4> HIDE DEF I
      <4> QED BY <2>1, <3>1, <3>3, <4>2 DEF Rewind
    <3> QED BY <3>2, <3>3
  <2>3. \A i \in AddrTouches(ss, {"SetNonce", "Create"}, a) : i \in I /\ ss[i] = ts[i]
    BY <1>1, <1>4 DEF AddrTouches
  <2> HIDE DEF I
  <2>4. \A i \in AddrTouches(ss, {"SetNonce", "Create"}, a) : Old(ss[i]) >= e.nonce[a]
    BY <2>1, <2>3
  <2> QED BY <2>2, <2>4 DEF Climbs
<1> QED BY <1>2, <1>6, <1>7, <1>8 DEF Kept, ss, g

\* Touches of accounts among T only.
Within(ts, T) == \A i \in DOMAIN ts : ts[i].op \in {"SetNonce", "SetValue", "Create"} => ts[i].addr \in T

\* What becomes of an account outside T does not depend on touches of those within.
LEMMA WithinUndoes ==
  ASSUME NEW p \in Seq(Touch), NEW q \in Seq(Touch), NEW T, Within(p, T), NEW f, NEW a \in Addr, a \notin T
  PROVE  /\ UndoBalance(p \o q, f)[a] = UndoBalance(q, f)[a]
         /\ UndoNonce(p \o q, f)[a] = UndoNonce(q, f)[a]
         /\ UndoCode(p \o q, f)[a] = UndoCode(q, f)[a]
<1>1. /\ AddrTouches(p, {"SetValue", "Create"}, a) = {}
      /\ AddrTouches(p, {"SetNonce", "Create"}, a) = {}
      /\ AddrTouches(p, {"Create"}, a) = {}
  BY DEF Within, AddrTouches
<1>2. UndoBalance(p, UndoBalance(q, f))[a] = UndoBalance(q, f)[a]
  BY <1>1 DEF UndoBalance, Rewind
<1>3. UndoNonce(p, UndoNonce(q, f))[a] = UndoNonce(q, f)[a]
  BY <1>1 DEF UndoNonce, Rewind
<1>4. UndoCode(p, UndoCode(q, f))[a] = UndoCode(q, f)[a]
  BY <1>1 DEF UndoCode
<1> QED BY <1>2, <1>3, <1>4, UndoBalanceConcat, UndoNonceConcat, UndoCodeConcat

\* A creation that succeeds writes the accounts U, and puts the touches p of them
\* before those of the init code.
LEMMA KeptDeploy ==
  ASSUME NEW e \in Ext, NEW f \in Ext, NEW g \in Ext, NEW p \in Seq(Touch), NEW q \in Seq(Touch),
         NEW T, NEW U, Kept(e, q, f, T), Within(p, U), Marks(p, U),
         \A i \in DOMAIN p : p[i].op # "SetNonce" /\ (p[i].op = "Create" => p[i].addr \in NewAddrs),
         \A a \in Addr \ U : /\ g.balance[a] = f.balance[a] /\ g.nonce[a] = f.nonce[a]
                             /\ g.code[a] = f.code[a],
         \A a \in Addr \ NewAddrs : g.nonce[a] = f.nonce[a]
  PROVE  Kept(e, p \o q, g, T \cup U)
<1>1. Marks(p \o q, T \cup U)
  <2>1. /\ DOMAIN (p \o q) = DOMAIN p \cup {Len(p) + j : j \in DOMAIN q}
        /\ \A i \in DOMAIN p : (p \o q)[i] = p[i]
        /\ \A j \in DOMAIN q : (p \o q)[Len(p) + j] = q[j]
    BY ConcatIndices
  <2>2. Marks(p, U) /\ Marks(q, T)
    BY DEF Kept
  <2>3. ASSUME NEW i \in DOMAIN (p \o q), (p \o q)[i].op = "Create"
        PROVE  (p \o q)[i].addr \in T \cup U
    <3>1. CASE i \in DOMAIN p
      BY <2>1, <2>2, <2>3, <3>1, Zenon DEF Marks
    <3>2. ASSUME NEW j \in DOMAIN q, i = Len(p) + j
          PROVE  (p \o q)[i].addr \in T \cup U
      BY <2>1, <2>2, <2>3, <3>2, Zenon DEF Marks
    <3> QED BY <2>1, <3>1, <3>2, Zenon
  <2> QED BY <2>3 DEF Marks
<1>2. Restores(e, p \o q, g, T \cup U)
  <2> SUFFICES ASSUME NEW a \in Addr \ (T \cup U)
               PROVE  /\ UndoBalance(p \o q, g.balance)[a] = e.balance[a]
                      /\ UndoNonce(p \o q, g.nonce)[a] = e.nonce[a]
                      /\ UndoCode(p \o q, g.code)[a] = e.code[a]
    BY DEF Restores
  <2>1. /\ UndoBalance(p \o q, g.balance)[a] = UndoBalance(q, g.balance)[a]
        /\ UndoNonce(p \o q, g.nonce)[a] = UndoNonce(q, g.nonce)[a]
        /\ UndoCode(p \o q, g.code)[a] = UndoCode(q, g.code)[a]
    BY WithinUndoes
  <2>2. UndoBalance(q, g.balance)[a] = UndoBalance(q, f.balance)[a]
    BY DEF UndoBalance
  <2>3. UndoNonce(q, g.nonce)[a] = UndoNonce(q, f.nonce)[a]
    BY DEF UndoNonce
  <2>4. UndoCode(q, g.code)[a] = UndoCode(q, f.code)[a]
    BY DEF UndoCode
  <2> QED BY <2>1, <2>2, <2>3, <2>4 DEF Kept, Restores
<1>3. ASSUME NEW a \in Addr \ NewAddrs PROVE Climbs(e, p \o q, g, a)
  <2> DEFINE J == AddrTouches(q, {"SetNonce", "Create"}, a)
             K == AddrTouches(p \o q, {"SetNonce", "Create"}, a)
  <2>1. /\ g.nonce[a] >= e.nonce[a] /\ \A i \in J : Old(q[i]) >= e.nonce[a]
    BY DEF Kept, Climbs
  <2>2. AddrTouches(p, {"SetNonce", "Create"}, a) = {}
    BY DEF AddrTouches
  <2>3. K = {Len(p) + j : j \in J}
    BY <2>2, AddrTouchesConcat
  <2>4. J \subseteq DOMAIN q /\ \A j \in DOMAIN q : (p \o q)[Len(p) + j] = q[j]
    BY ConcatIndices DEF AddrTouches
  <2> HIDE DEF J, K
  <2>5. ASSUME NEW j \in J PROVE Old((p \o q)[Len(p) + j]) >= e.nonce[a]
    BY <2>1, <2>4, Zenon
  <2>6. \A i \in K : Old((p \o q)[i]) >= e.nonce[a]
    BY <2>3, <2>5, Zenon
  <2> QED BY <2>1, <2>6 DEF Climbs, K
<1> QED BY <1>1, <1>2, <1>3 DEF Kept

\* Warming journals nothing about accounts, and does nothing to them.
LEMMA KeptWarm ==
  ASSUME NEW e \in Ext, NEW a \in Addr
  PROVE  /\ Plain(WarmTouch(e, a)) /\ Alike(e, WarmAddress(e, a))
         /\ Plain(AccessTouch(e, a)) /\ Alike(e, Access(e, a))
         /\ Alike(e, Pull(e, a))
         /\ Kept(e, WarmTouch(e, a), WarmAddress(e, a), {})
         /\ Kept(e, AccessTouch(e, a), Access(e, a), {})
         /\ Kept(e, <<>>, Pull(e, a), {})
<1>1. Plain(WarmTouch(e, a)) /\ Plain(AccessTouch(e, a)) /\ Plain(<<>>)
  BY DEF Plain, WarmTouch, AccessTouch, WarmUp
<1>2. Alike(e, WarmAddress(e, a)) /\ Alike(e, Access(e, a)) /\ Alike(e, Pull(e, a))
  BY DEF Alike, WarmAddress, Access, Pull, Ext
<1>3. WarmAddress(e, a) \in Ext /\ Access(e, a) \in Ext /\ Pull(e, a) \in Ext
  BY SoundWarm, SoundAccess, PullWorld
<1> QED BY <1>1, <1>2, <1>3, KeptAlike
-----------------------------------------------------------------------------
(* The steps of Snapshots *)

\* The mapping: what the calls have saved, and how they stand.
Saved    == [i \in 1..Len(frames) |-> WorldOf(frames[i].entry)]
Statuses == [i \in 1..Len(frames) |-> frames[i].status]

LEMMA Mapping ==
  ASSUME Inv
  PROVE  /\ Depth = Len(frames) /\ Depth \in Nat
         /\ Len(Saved) = Depth /\ Len(Statuses) = Depth
         /\ Snap!Depth = Depth
<1>1. Depth = Len(frames) /\ Depth \in Nat
  BY FrameTypes DEF Inv, Depth
<1> QED BY <1>1 DEF Saved, Statuses, Snap!Depth

\* The two worlds differ in no word, and a warm address stays warm.
Quiet(e, f) ==
  /\ f.storage = e.storage /\ f.transient = e.transient /\ f.original = e.original
  /\ e.warmAddr \subseteq f.warmAddr /\ f.destroyed = e.destroyed

\* The first thing that happens to a slot in a transaction is that its value is
\* noted in original.
Noted(e, f) ==
  \A s \in Slots :
    \/ f.original[s] = e.original[s] /\ (f.storage[s] = e.storage[s] \/ e.original[s] # None)
    \/ f.original[s] = e.storage[s] /\ e.original[s] = None

\* What one opcode may do to the world.
Small(e, f) ==
  /\ Snap!OneSlot(e.storage, f.storage) /\ Snap!OneSlot(e.transient, f.transient)
  /\ e.warmAddr \subseteq f.warmAddr /\ e.destroyed \subseteq f.destroyed
  /\ Remote => Noted(e, f)

\* The frames up to n are still the same calls, entered with the same worlds.
Entries(n) ==
  \A i \in 1..n : /\ frames'[i].entry = frames[i].entry /\ frames'[i].kind = frames[i].kind
                   /\ frames'[i].this = frames[i].this /\ frames'[i].from = frames[i].from

\* Those up to n also stand as they did.
Standing(n) == \A i \in 1..n : frames'[i].status = frames[i].status

\* Only the journal of the n-th frame of those up to n has grown, by new, and so
\* have the accounts it does not answer for, by T.
Grows(n, new, T) ==
  /\ new \in Seq(Touch) /\ T \subseteq Addr
  /\ \A i \in 1..(n - 1) : /\ frames'[i].touches = frames[i].touches
                            /\ frames'[i].tainted = frames[i].tainted
  /\ frames'[n].touches = frames[n].touches \o new
  /\ frames'[n].tainted = frames[n].tainted \cup T

(* The four shapes of a step *)

Works ==
  /\ frames # <<>> /\ Top.status = "running"
  /\ Len(frames') = Depth /\ Entries(Depth) /\ Standing(Depth - 1)
  /\ frames'[Depth].status \in Status
  /\ Small(ext, ext')
  /\ \E new, T : Grows(Depth, new, T) /\ Kept(ext, new, ext', T)

Calls ==
  /\ frames # <<>> /\ Top.status = "running"
  /\ Len(frames') = Depth + 1 /\ Entries(Depth) /\ Standing(Depth)
  /\ frames'[Depth + 1].status \in Status
  /\ Quiet(ext, frames'[Depth + 1].entry)
  /\ Quiet(frames'[Depth + 1].entry, ext')
  /\ \E new, T : Grows(Depth, new, T) /\ Kept(ext, new, frames'[Depth + 1].entry, T)
  /\ Kept(frames'[Depth + 1].entry, frames'[Depth + 1].touches, ext', frames'[Depth + 1].tainted)
  /\ frames'[Depth + 1].kind = "create" => frames'[Depth + 1].this \in NewAddrs

Leaves ==
  /\ frames # <<>>
  /\ Len(frames') = Depth - 1 /\ Entries(Depth - 1) /\ Standing(Depth - 1)
  /\ ext'.original = ext.original /\ ext'.destroyed = ext.destroyed
  /\ \/ Top.status = "stopped" /\ WorldOf(ext') = WorldOf(ext)
     \/ Top.status \in {"stopped", "reverted"} /\ WorldOf(ext') = WorldOf(Top.entry)
  /\ Depth > 1 => \E new, T : Grows(Depth - 1, new, T) /\ Kept(Top.entry, new, ext', T)

Begins ==
  /\ frames = <<>>
  /\ Len(frames') = 1 /\ frames'[1].entry = Reset(ext) /\ frames'[1].status \in Status
  /\ Quiet(Reset(ext), ext')
  /\ Kept(frames'[1].entry, frames'[1].touches, ext', frames'[1].tainted)
  /\ frames'[1].from \in Senders \cup Creators
  /\ frames'[1].kind = "create" => frames'[1].this \in NewAddrs
  /\ frames'[1].kind = "call" /\ frames'[1].from \notin NewAddrs =>
       ext'.nonce[frames'[1].from] > frames'[1].entry.nonce[frames'[1].from]

LEMMA WorksIsWork ==
  ASSUME Inv, Works
  PROVE  Snap!Work
<1>1. /\ Depth = Len(frames) /\ Depth \in Nat /\ Depth \in 1..Depth /\ Len(frames') = Depth
  BY Mapping, FrameTypes DEF Inv, Works
<1> DEFINE st == frames'[Depth].status
<1>2. Saved' = Saved
  BY <1>1 DEF Saved, Works, Entries
<1>3. Statuses' = [Statuses EXCEPT ![Depth] = st]
  <2>1. \A i \in 1..Depth : i # Depth => i \in 1..(Depth - 1)
    BY <1>1
  <2>2. \A i \in 1..Depth : frames'[i].status = IF i = Depth THEN st ELSE frames[i].status
    BY <2>1 DEF Works, Standing
  <2> HIDE DEF st
  <2> QED BY <1>1, <2>2 DEF Statuses
<1>4. Statuses[Depth] = "running"
  BY <1>1 DEF Statuses, Top, Works
<1>5. st \in {"running", "stopped", "reverted"}
  BY DEF Status, Works
<1>6. /\ Snap!OneSlot(WorldOf(ext).storage, WorldOf(ext').storage)
      /\ Snap!OneSlot(WorldOf(ext).transient, WorldOf(ext').transient)
      /\ WorldOf(ext).warm \subseteq WorldOf(ext').warm
      /\ ext.destroyed \subseteq ext'.destroyed
  BY DEF Works, Small, WorldOf
<1>7. Snap!Depth = Depth /\ Depth > 0
  BY <1>1, Mapping
<1> HIDE DEF st
<1>8. Snap!Depth > 0 /\ Statuses[Snap!Depth] = "running"
      /\ \E x \in {"running", "stopped", "reverted"} : Statuses' = [Statuses EXCEPT ![Snap!Depth] = x]
  BY <1>3, <1>4, <1>5, <1>7
<1> QED BY <1>2, <1>6, <1>8, Zenon DEF Snap!Work, Saved, Statuses

LEMMA AppendShape ==
  ASSUME NEW S, NEW s \in Seq(S), NEW x
  PROVE  Append(s, x) = [i \in 1..(Len(s) + 1) |-> IF i = Len(s) + 1 THEN x ELSE s[i]]
<1> DEFINE T == S \cup {x}
           n == Len(s)
           a == Append(s, x)
           b == [i \in 1..(n + 1) |-> IF i = n + 1 THEN x ELSE s[i]]
<1>1. s \in Seq(T) /\ x \in T /\ n \in Nat
  OBVIOUS
<1> HIDE DEF T
<1>2. a \in Seq(T) /\ Len(a) = n + 1 /\ a[n + 1] = x /\ \A i \in 1..n : a[i] = s[i]
  BY <1>1
<1>3. b \in Seq(T) /\ Len(b) = n + 1 /\ \A i \in 1..(n + 1) : b[i] = IF i = n + 1 THEN x ELSE s[i]
  BY <1>1
<1>4. \A i \in 1..(n + 1) : i = n + 1 \/ i \in 1..n
  BY <1>1
<1> HIDE DEF a, b
<1>5. \A i \in 1..(n + 1) : a[i] = b[i]
  BY <1>2, <1>3, <1>4
<1>6. a = b
  BY <1>2, <1>3, <1>5, SeqEqual
<1> QED BY <1>6 DEF a, b

LEMMA CallsIsSave ==
  ASSUME Inv, Calls
  PROVE  Snap!Save
<1>1. /\ Depth = Len(frames) /\ Depth \in Nat /\ Depth \in 1..Depth
      /\ Len(frames') = Depth + 1 /\ Depth + 1 \in 1..(Depth + 1)
      /\ \A i \in 1..Depth : i \in 1..(Depth + 1)
  BY Mapping, FrameTypes DEF Inv, Calls
<1> DEFINE f == frames'[Depth + 1]
<1>2. Snap!Depth = Depth /\ Depth > 0 /\ Statuses[Depth] = "running"
  BY <1>1, Mapping DEF Statuses, Top, Calls
<1>3. Len(Saved') = Depth + 1 /\ Saved'[Depth + 1] = WorldOf(f.entry)
  BY <1>1 DEF Saved
<1>4. \A i \in 1..Depth : Saved'[i] = Saved[i]
  BY <1>1 DEF Saved, Calls, Entries
<1>5. Statuses' = Append(Statuses, f.status)
  <2>1. /\ Statuses' = [i \in 1..(Depth + 1) |-> frames'[i].status]
        /\ Statuses = [i \in 1..Depth |-> frames[i].status]
    BY <1>1 DEF Statuses
  <2>2. \A i \in 1..Depth : frames'[i].status = frames[i].status
    BY DEF Calls, Standing
  <2>3. \A i \in 1..(Depth + 1) : i = Depth + 1 \/ i \in 1..Depth
    BY <1>1
  <2>4. \A i \in 1..(Depth + 1) : Statuses'[i] = IF i = Depth + 1 THEN f.status ELSE Statuses[i]
    BY <1>1, <2>1, <2>2, <2>3
  <2> DEFINE st == f.status
  <2>5. Len(Statuses) = Depth /\ Statuses \in Seq({frames[i].status : i \in 1..Depth})
    BY <1>1, <2>1
  <2> HIDE DEF st
  <2>6. Append(Statuses, st) = [i \in 1..(Depth + 1) |-> IF i = Depth + 1 THEN st ELSE Statuses[i]]
    BY <2>5, AppendShape
  <2> QED BY <2>1, <2>4, <2>6 DEF st
<1>6. f.status \in {"running", "stopped", "reverted"}
  BY DEF Status, Calls
<1>7. /\ Snap!Warmed(WorldOf(ext), WorldOf(f.entry))
      /\ Snap!Warmed(WorldOf(f.entry), WorldOf(ext'))
      /\ ext'.destroyed = ext.destroyed
  BY DEF Calls, Quiet, WorldOf, Snap!Warmed
<1> HIDE DEF f
<1>8. /\ Snap!Depth > 0 /\ Statuses[Snap!Depth] = "running"
      /\ Len(Saved') = Snap!Depth + 1
      /\ \A i \in 1..Snap!Depth : Saved'[i] = Saved[i]
      /\ Snap!Warmed(WorldOf(ext), Saved'[Snap!Depth + 1])
      /\ Snap!Warmed(Saved'[Snap!Depth + 1], WorldOf(ext'))
      /\ \E x \in {"running", "stopped", "reverted"} : Statuses' = Append(Statuses, x)
      /\ ext'.destroyed = ext.destroyed
  BY <1>2, <1>3, <1>4, <1>5, <1>6, <1>7
<1> QED BY <1>8, Zenon DEF Snap!Save, Saved, Statuses

LEMMA LeavesIsDrop ==
  ASSUME Inv, Leaves
  PROVE  Snap!Keep \/ Snap!Restore
<1>1. /\ Depth = Len(frames) /\ Depth \in Nat /\ Depth \in 1..Depth
      /\ Len(frames') = Depth - 1 /\ \A i \in 1..(Depth - 1) : i \in 1..Depth
  BY Mapping, FrameTypes DEF Inv, Leaves
<1>2. /\ Snap!Depth = Depth /\ Depth > 0 /\ Statuses[Depth] = Top.status
      /\ Saved[Depth] = WorldOf(Top.entry) /\ Len(Saved) = Depth /\ Len(Statuses) = Depth
  BY <1>1, Mapping DEF Statuses, Saved, Top
<1>3. Saved' = Snap!Drop(Saved)
  BY <1>1, <1>2 DEF Saved, Leaves, Entries, Snap!Drop
<1>4. Statuses' = Snap!Drop(Statuses)
  BY <1>1, <1>2 DEF Statuses, Leaves, Standing, Snap!Drop
<1>5. ext'.destroyed = ext.destroyed
  BY DEF Leaves
<1>6. CASE Top.status = "stopped" /\ WorldOf(ext') = WorldOf(ext)
  <2>1. /\ Snap!Depth > 0 /\ Statuses[Snap!Depth] = "stopped"
    BY <1>2, <1>6
  <2> QED BY <1>3, <1>4, <1>5, <1>6, <2>1, Zenon DEF Snap!Keep, Saved, Statuses
<1>7. CASE Top.status \in {"stopped", "reverted"} /\ WorldOf(ext') = WorldOf(Top.entry)
  <2>1. /\ Snap!Depth > 0 /\ Statuses[Snap!Depth] \in {"stopped", "reverted"}
        /\ WorldOf(ext') = Saved[Snap!Depth]
    BY <1>2, <1>7
  <2> QED BY <1>3, <1>4, <1>5, <2>1, Zenon DEF Snap!Restore, Saved, Statuses
<1> QED BY <1>6, <1>7 DEF Leaves

\* Ext::reset drops the slots of the accounts destroyed before, and no others.
LEMMA ResetKeeps ==
  ASSUME NEW e \in Ext
  PROVE  /\ Reset(e).transient = [s \in Slots |-> 0] /\ Reset(e).warmAddr = {}
         /\ Reset(e).destroyed = {} /\ Reset(e).original = [s \in Slots |-> None]
         /\ \A s \in Slots : s[1] \notin e.destroyed => Reset(e).storage[s] = e.storage[s]
BY DEF Reset, Ext

LEMMA BeginsIsBegin ==
  ASSUME Inv, Begins
  PROVE  Snap!Begin
<1>1. Len(frames) = 0 /\ Len(frames') = 1 /\ ext \in Ext
  BY DEF Begins, Inv, TypeOK
<1>2. Saved = <<>>
  BY <1>1 DEF Saved
<1>3. Len(Saved') = 1 /\ Len(Statuses') = 1 /\ Saved'[1] = WorldOf(Reset(ext))
  BY <1>1 DEF Saved, Statuses, Begins
<1>4. /\ WorldOf(Reset(ext)).transient = [s \in Slots |-> 0] /\ WorldOf(Reset(ext)).warm = {}
      /\ \A s \in Slots : s[1] \notin ext.destroyed =>
           WorldOf(Reset(ext)).storage[s] = WorldOf(ext).storage[s]
  BY <1>1, ResetKeeps DEF WorldOf
<1>5. Snap!Warmed(WorldOf(Reset(ext)), WorldOf(ext')) /\ ext'.destroyed = {}
  BY <1>1, ResetKeeps DEF Begins, Quiet, WorldOf, Snap!Warmed
<1> QED BY <1>2, <1>3, <1>4, <1>5, Zenon DEF Snap!Begin, Saved, Statuses

-----------------------------------------------------------------------------
(* What the operations of Ext do to the words of the world *)

LEMMA QuietChain ==
  ASSUME NEW e, NEW f, NEW g, Quiet(e, f), Quiet(f, g)
  PROVE  Quiet(e, g)
BY DEF Quiet

LEMMA QuietOperations ==
  ASSUME NEW e \in Ext, NEW a
  PROVE  /\ Quiet(e, e) /\ Quiet(e, Pull(e, a)) /\ Quiet(e, OrDefault(e, a))
         /\ Quiet(e, WarmAddress(e, a)) /\ Quiet(e, Access(e, a))
<1>1. Quiet(e, e) /\ Quiet(e, Pull(e, a)) /\ Quiet(e, OrDefault(e, a))
  BY DEF Quiet, Pull, OrDefault, Ext
<1>2. Quiet(e, WarmAddress(e, a))
  BY DEF Quiet, WarmAddress, Ext
<1> QED BY <1>1, <1>2 DEF Access

LEMMA QuietTransfer ==
  ASSUME NEW e \in Ext, NEW src, NEW dst, NEW v
  PROVE  Quiet(e, Transfer(e, src, dst, v))
<1> DEFINE bal == [a \in Addr |-> (e.balance[a] + (IF a = dst THEN v ELSE 0))
                                   - (IF a = src THEN v ELSE 0)]
<1>1. Transfer(e, src, dst, v) = [e EXCEPT !.balance = bal]
  BY DEF Transfer
<1> HIDE DEF bal
<1> QED BY <1>1 DEF Ext, Quiet

\* Balances, nonces and code are not words.
LEMMA QuietAccounts ==
  ASSUME NEW e \in Ext, NEW a, NEW c, NEW n, NEW v
  PROVE  /\ Quiet(e, [e EXCEPT !.nonce[a] = n]) /\ Quiet(e, [e EXCEPT !.balance[a] = v])
         /\ Quiet(e, [e EXCEPT !.code[a] = c, !.nonce[a] = n])
BY DEF Ext, Quiet

LEMMA QuietIsSmall ==
  ASSUME NEW e \in Ext, NEW f \in Ext, Quiet(e, f)
  PROVE  Small(e, f)
<1>1. Snap!OneSlot(e.storage, f.storage) /\ Snap!OneSlot(e.transient, f.transient)
  BY DEF Quiet, Snap!OneSlot
<1>2. Noted(e, f)
  BY DEF Quiet, Noted
<1> QED BY <1>1, <1>2 DEF Small, Quiet

\* Ext::get writes no word, and notes the one it reads.
LEMMA GetNotes ==
  ASSUME NEW e \in Ext, NEW s \in Slots
  PROVE  /\ Get(e, s).storage = e.storage /\ Get(e, s).transient = e.transient
         /\ Get(e, s).warmAddr = e.warmAddr /\ Get(e, s).destroyed = e.destroyed
         /\ \A r \in Slots : r # s => Get(e, s).original[r] = e.original[r]
         /\ Remote => Get(e, s).original[s] =
                        IF e.original[s] = None THEN e.storage[s] ELSE e.original[s]
BY DEF Get, Ext

LEMMA GetIsSmall ==
  ASSUME NEW e \in Ext, NEW s \in Slots
  PROVE  LET w == WarmStorage(e, s)
         IN  /\ w \in Ext /\ Quiet(e, w) /\ Small(e, w) /\ Get(w, s) \in Ext
             /\ Small(e, Get(w, s))
<1> DEFINE w == WarmStorage(e, s)
           g == Get(w, s)
<1>1. /\ w \in Ext /\ w.storage = e.storage /\ w.transient = e.transient
      /\ w.warmAddr = e.warmAddr /\ w.original = e.original /\ w.destroyed = e.destroyed
  BY DEF WarmStorage, Ext
<1>2. Quiet(e, w)
  BY <1>1 DEF Quiet
<1>3. Small(e, w)
  BY <1>1, <1>2, QuietIsSmall
<1> HIDE DEF w
<1>4. /\ g.storage = w.storage /\ g.transient = w.transient
      /\ g.warmAddr = w.warmAddr /\ g.destroyed = w.destroyed
      /\ \A r \in Slots : r # s => g.original[r] = w.original[r]
      /\ Remote => g.original[s] = IF w.original[s] = None THEN w.storage[s] ELSE w.original[s]
      /\ g \in Ext
  BY <1>1, GetNotes, GetWorld
<1> HIDE DEF g
<1>5. Snap!OneSlot(e.storage, g.storage) /\ Snap!OneSlot(e.transient, g.transient)
  BY <1>1, <1>4 DEF Snap!OneSlot
<1>6. Remote => Noted(e, g)
  BY <1>1, <1>4 DEF Noted
<1>7. Small(e, g)
  BY <1>1, <1>4, <1>5, <1>6 DEF Small
<1> QED BY <1>1, <1>2, <1>3, <1>4, <1>7 DEF w, g

\* The slot SSTORE writes is noted by then.
LEMMA PutIsSmall ==
  ASSUME NEW e \in Ext, NEW s \in Slots, NEW v \in Values
  PROVE  Small(e, Put(Get(WarmStorage(e, s), s), s, v))
<1> DEFINE w == WarmStorage(e, s)
           g == Get(w, s)
           p == Put(g, s, v)
<1>1. /\ w \in Ext /\ w.storage = e.storage /\ w.transient = e.transient
      /\ w.warmAddr = e.warmAddr /\ w.original = e.original /\ w.destroyed = e.destroyed
  BY DEF WarmStorage, Ext
<1> HIDE DEF w
<1>2. /\ g.storage = w.storage /\ g.transient = w.transient
      /\ g.warmAddr = w.warmAddr /\ g.destroyed = w.destroyed
      /\ \A r \in Slots : r # s => g.original[r] = w.original[r]
      /\ Remote => g.original[s] = IF w.original[s] = None THEN w.storage[s] ELSE w.original[s]
      /\ g \in Ext
  BY <1>1, GetNotes, GetWorld
<1> HIDE DEF g
<1>3. /\ \A r \in Slots : r # s => p.storage[r] = g.storage[r]
      /\ p.transient = g.transient /\ p.warmAddr = g.warmAddr
      /\ p.original = g.original /\ p.destroyed = g.destroyed
  BY <1>2 DEF Put, Ext
<1> HIDE DEF p
<1>4. Snap!OneSlot(e.storage, p.storage) /\ Snap!OneSlot(e.transient, p.transient)
  BY <1>1, <1>2, <1>3 DEF Snap!OneSlot
<1>5. e.storage[s] \in Values
  BY DEF Ext
<1>6. Remote => Noted(e, p)
  BY <1>1, <1>2, <1>3, <1>5, NoneAssumption DEF Noted
<1>7. Small(e, p)
  BY <1>1, <1>2, <1>3, <1>4, <1>6 DEF Small
<1> QED BY <1>7 DEF w, g, p

-----------------------------------------------------------------------------
(* Every action has one of the four shapes *)

LEMMA AdvanceWorks ==
  ASSUME Inv, frames # <<>>, Top.status = "running", NEW e, NEW new \in Seq(Touch),
         NEW st \in Status, Advance(e, new, st), Small(ext, e), Kept(ext, new, e, {})
  PROVE  Works
<1>1. /\ Depth \in Nat /\ Depth \in 1..Depth /\ Len(frames) = Depth
      /\ Len(frames') = Depth
      /\ \A i \in 1..Depth : i # Depth => frames'[i] = frames[i]
      /\ frames'[Depth] = [Top EXCEPT !.touches = @ \o new, !.status = st]
      /\ Top \in Frame /\ Top = frames[Depth] /\ ext' = e
  BY AdvanceShape
<1>2. /\ frames'[Depth].status = st /\ frames'[Depth].entry = frames[Depth].entry
      /\ frames'[Depth].kind = frames[Depth].kind /\ frames'[Depth].this = frames[Depth].this
      /\ frames'[Depth].from = frames[Depth].from
      /\ frames'[Depth].touches = frames[Depth].touches \o new
      /\ frames'[Depth].tainted = frames[Depth].tainted
  BY <1>1 DEF Frame
<1>3. \A i \in 1..(Depth - 1) : i \in 1..Depth /\ i # Depth
  BY <1>1
<1>4. Entries(Depth) /\ Standing(Depth - 1)
  BY <1>1, <1>2, <1>3 DEF Entries, Standing
<1>5. Grows(Depth, new, {})
  BY <1>1, <1>2, <1>3 DEF Grows
<1> QED BY <1>1, <1>2, <1>4, <1>5 DEF Works

LEMMA EnterCalls ==
  ASSUME Inv, frames # <<>>, Top.status = "running", NEW new \in Seq(Touch),
         NEW taint \in SUBSET Addr, NEW f, Enter(new, taint, f), f.status \in Status,
         f.entry \in Ext, f.from \in Addr, Quiet(ext, f.entry), Kept(ext, new, f.entry, taint),
         f.touches = WarmTouch(f.entry, f.from), f.tainted = {},
         f.kind = "create" => f.this \in NewAddrs
  PROVE  Calls
<1>1. /\ Depth \in Nat /\ Depth \in 1..Depth /\ Len(frames) = Depth
      /\ Len(frames') = Depth + 1
      /\ \A i \in 1..Depth : i # Depth => frames'[i] = frames[i]
      /\ frames'[Depth] = [Top EXCEPT !.touches = @ \o new, !.tainted = @ \cup taint]
      /\ frames'[Depth + 1] = f
      /\ Top \in Frame /\ Top = frames[Depth] /\ ext' = WarmAddress(f.entry, f.from)
  BY EnterShape
<1>2. /\ frames'[Depth].status = frames[Depth].status
      /\ frames'[Depth].entry = frames[Depth].entry
      /\ frames'[Depth].kind = frames[Depth].kind /\ frames'[Depth].this = frames[Depth].this
      /\ frames'[Depth].from = frames[Depth].from
      /\ frames'[Depth].touches = frames[Depth].touches \o new
      /\ frames'[Depth].tainted = frames[Depth].tainted \cup taint
  BY <1>1 DEF Frame
<1>3. \A i \in 1..(Depth - 1) : i \in 1..Depth /\ i # Depth
  BY <1>1
<1>4. Quiet(f.entry, ext') /\ Kept(f.entry, f.touches, ext', f.tainted)
  BY <1>1, QuietOperations, KeptWarm
<1>5. Entries(Depth) /\ Standing(Depth)
  BY <1>1, <1>2 DEF Entries, Standing
<1>6. Grows(Depth, new, taint)
  BY <1>1, <1>2, <1>3 DEF Grows
<1> QED BY <1>1, <1>4, <1>5, <1>6 DEF Calls

LEMMA LeaveLeaves ==
  ASSUME Inv, Depth > 1, NEW e, NEW new \in Seq(Touch), NEW taint \in SUBSET Addr,
         Leave(e, new, taint),
         e.original = ext.original, e.destroyed = ext.destroyed,
         \/ Top.status = "stopped" /\ WorldOf(e) = WorldOf(ext)
         \/ Top.status \in {"stopped", "reverted"} /\ WorldOf(e) = WorldOf(Top.entry),
         Kept(Top.entry, new, e, Top.tainted \cup taint)
  PROVE  Leaves
<1>1. /\ Depth \in Nat /\ Len(frames) = Depth /\ Len(frames') = Depth - 1
      /\ \A i \in 1..(Depth - 1) : i # Depth - 1 => frames'[i] = frames[i]
      /\ frames'[Depth - 1] = [frames[Depth - 1] EXCEPT
                                 !.touches = @ \o new,
                                 !.tainted = @ \cup Top.tainted \cup taint]
      /\ frames[Depth - 1] \in Frame /\ Top \in Frame /\ ext' = e
  BY ONLY Inv, Depth > 1, Leave(e, new, taint), LeaveShape
<1> DEFINE n == Depth - 1
           T == Top.tainted \cup taint
<1>2. /\ frames'[n].status = frames[n].status /\ frames'[n].entry = frames[n].entry
      /\ frames'[n].kind = frames[n].kind /\ frames'[n].this = frames[n].this
      /\ frames'[n].from = frames[n].from
      /\ frames'[n].touches = frames[n].touches \o new
      /\ frames'[n].tainted = frames[n].tainted \cup T
  BY <1>1 DEF Frame
<1>3. frames # <<>> /\ n \in Nat
  BY <1>1
<1>4. Entries(n) /\ Standing(n)
  BY <1>1, <1>2 DEF Entries, Standing
<1>5. \A i \in 1..(n - 1) : i \in 1..n /\ i # n
  BY <1>3
<1>6. T \subseteq Addr
  BY <1>1, FrameFields
<1>7. Grows(n, new, T)
  BY <1>1, <1>2, <1>5, <1>6 DEF Grows
<1> QED BY <1>1, <1>3, <1>4, <1>7 DEF Leaves

LEMMA SLOADWorks ==
  ASSUME Inv, NEW k \in Keys, SLOAD(k)
  PROVE  Works
<1> DEFINE s == <<Top.this, k>>
           e == WarmStorage(ext, s)
           g == Get(e, s)
           ts == <<GetState(s, s \in ext.warmSlot)>>
<1>0. Executing("SLOAD") /\ Top.status = "running"
  BY DEF SLOAD, Executing
<1>1. s \in Slots /\ ext \in Ext /\ frames # <<>>
  BY <1>0, ExecutingFacts
<1>2. \/ Advance(g, ts, "running")
      \/ Advance(e, <<>>, "reverted")
  BY DEF SLOAD
<1>3. Small(ext, e) /\ Small(ext, g) /\ e \in Ext /\ g \in Ext
  BY <1>1, GetIsSmall
<1>4. Alike(ext, e) /\ Alike(ext, g)
  BY <1>1 DEF Alike, WarmStorage, Get, Ext
<1>5. Plain(ts) /\ ts \in Seq(Touch)
  <2>1. (s \in ext.warmSlot) \in BOOLEAN
    OBVIOUS
  <2> QED BY <1>1, <2>1 DEF Plain, GetState, Touch
<1>6. Plain(<<>>) /\ <<>> \in Seq(Touch)
  BY DEF Plain
<1> HIDE DEF s, e, g, ts
<1>7. Kept(ext, ts, g, {}) /\ Kept(ext, <<>>, e, {})
  BY <1>1, <1>3, <1>4, <1>5, <1>6, KeptAlike
<1> QED BY <1>0, <1>1, <1>2, <1>3, <1>5, <1>6, <1>7, StatusFacts, AdvanceWorks

LEMMA RefusedWorks ==
  ASSUME Inv, frames # <<>>, Top.status = "running", NEW st \in Status, Advance(ext, <<>>, st)
  PROVE  Works
<1>1. ext \in Ext /\ Small(ext, ext)
  BY QuietOperations, QuietIsSmall DEF Inv, TypeOK
<1>2. Plain(<<>>) /\ Alike(ext, ext) /\ <<>> \in Seq(Touch)
  BY DEF Plain, Alike
<1>3. Kept(ext, <<>>, ext, {})
  BY <1>1, <1>2, KeptAlike
<1> QED BY <1>1, <1>2, <1>3, AdvanceWorks

LEMMA SSTOREWorks ==
  ASSUME Inv, NEW k \in Keys, NEW v \in Values, SSTORE(k, v)
  PROVE  Works
<1> DEFINE s == <<Top.this, k>>
           e == Get(WarmStorage(ext, s), s)
           p == Put(e, s, v)
           ts == <<SetState(s, ext.storage[s], s \in ext.warmSlot)>>
<1>0. Executing("SSTORE") /\ Top.status = "running"
  BY DEF SSTORE, Executing
<1>1. s \in Slots /\ ext \in Ext /\ frames # <<>>
  BY <1>0, ExecutingFacts
<1>2. \/ Advance(ext, <<>>, "reverted")
      \/ Advance(p, ts, "running")
      \/ Advance(e, <<>>, "reverted")
  BY DEF SSTORE
<1>3. Small(ext, e) /\ Small(ext, p) /\ e \in Ext
  BY <1>1, GetIsSmall, PutIsSmall
<1>4. p \in Ext
  BY <1>1, <1>3, PutWorld
<1>5. Alike(ext, e)
  BY <1>1 DEF Alike, WarmStorage, Get, Ext
<1>6. ts \in Seq(Touch) /\ Plain(ts)
  <2>1. (s \in ext.warmSlot) \in BOOLEAN /\ ext.storage[s] \in Values
    BY <1>1 DEF Ext
  <2> QED BY <1>1, <2>1 DEF Plain, SetState, Touch
<1>7. Plain(<<>>) /\ <<>> \in Seq(Touch)
  BY DEF Plain
<1> HIDE DEF e
<1>8. Alike(ext, p)
  BY <1>3, <1>5 DEF Alike, Put, Ext
<1> HIDE DEF s, p, ts
<1>9. Kept(ext, ts, p, {}) /\ Kept(ext, <<>>, e, {})
  BY <1>1, <1>3, <1>4, <1>5, <1>6, <1>7, <1>8, KeptAlike
<1> QED BY <1>0, <1>1, <1>2, <1>3, <1>6, <1>7, <1>9, StatusFacts, AdvanceWorks, RefusedWorks

LEMMA TSTOREWorks ==
  ASSUME Inv, NEW k \in Keys, NEW v \in Values, TSTORE(k, v)
  PROVE  Works
<1> DEFINE s == <<Top.this, k>>
           ts == <<SetTransientState(s, ext.transient[s])>>
           e == [ext EXCEPT !.transient[s] = v]
<1>0. Executing("TSTORE") /\ Top.status = "running"
  BY DEF TSTORE, Executing
<1>1. s \in Slots /\ ext \in Ext /\ frames # <<>>
  BY <1>0, ExecutingFacts
<1>2. Advance(e, ts, "running")
  BY DEF TSTORE
<1>3. ts \in Seq(Touch) /\ Plain(ts)
  <2>1. ext.transient[s] \in Values
    BY <1>1 DEF Ext
  <2> QED BY <1>1, <2>1 DEF Plain, SetTransientState, Touch
<1> HIDE DEF s
<1>4. /\ e.storage = ext.storage /\ e.warmAddr = ext.warmAddr /\ e.original = ext.original
      /\ e.destroyed = ext.destroyed /\ e \in Ext /\ Alike(ext, e)
      /\ \A r \in Slots : r # s => e.transient[r] = ext.transient[r]
  BY <1>1 DEF Ext, Alike
<1> HIDE DEF e, ts
<1>5. Snap!OneSlot(ext.storage, e.storage) /\ Snap!OneSlot(ext.transient, e.transient)
  BY <1>4 DEF Snap!OneSlot
<1>6. Small(ext, e)
  BY <1>4, <1>5 DEF Small, Noted
<1>7. Kept(ext, ts, e, {})
  BY <1>1, <1>3, <1>4, KeptAlike
<1> QED BY <1>0, <1>1, <1>2, <1>3, <1>6, <1>7, StatusFacts, AdvanceWorks

LEMMA ReadAccountWorks ==
  ASSUME Inv, NEW a \in Operands, ReadAccount(a)
  PROVE  Works
<1> DEFINE e == Access(ext, a)
           ts == AccessTouch(ext, a)
<1>0. Executing("BALANCE") /\ Top.status = "running"
  BY DEF ReadAccount, Executing
<1>1. a \in Addr /\ ext \in Ext /\ frames # <<>>
  BY <1>0, ExecutingFacts, AddressAssumption
<1>2. e \in Ext /\ Quiet(ext, e) /\ ts \in Seq(Touch) /\ Plain(ts) /\ Alike(ext, e)
  BY <1>1, SoundAccess, QuietOperations, KeptWarm
<1>3. Advance(Pull(e, a), ts, "running") \/ Advance(e, ts, "reverted")
  BY DEF ReadAccount
<1> HIDE DEF e, ts
<1>4. Pull(e, a) \in Ext /\ Quiet(ext, Pull(e, a)) /\ Alike(ext, Pull(e, a))
  BY <1>1, <1>2, PullWorld, QuietOperations, QuietChain, KeptWarm DEF Alike
<1>5. Small(ext, e) /\ Small(ext, Pull(e, a))
  BY <1>1, <1>2, <1>4, QuietIsSmall
<1>6. Kept(ext, ts, e, {}) /\ Kept(ext, ts, Pull(e, a), {})
  BY <1>1, <1>2, <1>4, KeptAlike
<1> QED BY <1>0, <1>1, <1>2, <1>3, <1>5, <1>6, StatusFacts, AdvanceWorks

LEMMA StopWorks ==
  ASSUME Inv, Stop \/ Halt
  PROVE  Works
<1>1. /\ frames # <<>> /\ Top.status = "running"
      /\ Advance(ext, <<>>, "stopped") \/ Advance(ext, <<>>, "reverted")
  BY DEF Stop, Halt
<1> QED BY <1>1, StatusFacts, RefusedWorks

LEMMA SELFDESTRUCTWorks ==
  ASSUME Inv, NEW a \in Operands, SELFDESTRUCT(a)
  PROVE  Works
<1> DEFINE this == Top.this
           own == ext.balance[this]
           bal == [x \in Addr |-> (IF x = this THEN 0 ELSE ext.balance[x])
                                    + (IF x = a THEN own ELSE 0)]
           e == [Pull(ext, a) EXCEPT !.balance = bal, !.destroyed = @ \cup {this}]
           g(st) == [Top EXCEPT !.status = st, !.tainted = @ \cup {this, a}]
<1>0. Executing("SELFDESTRUCT") /\ Top.status = "running"
  BY DEF SELFDESTRUCT, Executing
<1>1. /\ ext \in Ext /\ frames # <<>> /\ Top \in Frame /\ this \in Addr /\ a \in Addr
      /\ Top.touches \in Seq(Touch)
  BY <1>0, ExecutingFacts, AddressAssumption
<1>2. \/ Advance(ext, <<>>, "reverted")
      \/ /\ ext' = e
         /\ \E st \in {"stopped", "reverted"} : frames' = [frames EXCEPT ![Depth] = g(st)]
  BY DEF SELFDESTRUCT
<1>3. CASE Advance(ext, <<>>, "reverted")
  BY <1>0, <1>1, <1>3, StatusFacts, RefusedWorks
<1>4. CASE /\ ext' = e
           /\ \E st \in {"stopped", "reverted"} : frames' = [frames EXCEPT ![Depth] = g(st)]
  <2>0. bal \in [Addr -> Nat] /\ \A x \in Addr \ {this, a} : bal[x] = ext.balance[x]
    <3>1. own \in Nat /\ ext.balance \in [Addr -> Nat]
      BY <1>1 DEF Ext
    <3> HIDE DEF own
    <3> QED BY <3>1
  <2> HIDE DEF bal
  <2>1. /\ e.storage = ext.storage /\ e.transient = ext.transient /\ e.original = ext.original
        /\ e.warmAddr = ext.warmAddr /\ ext.destroyed \subseteq e.destroyed
        /\ e.balance = bal /\ e.nonce = ext.nonce /\ e.code = ext.code
    BY <1>1 DEF Pull, Ext
  <2>2. e \in Ext
    BY <1>1, <2>0 DEF Pull, Ext
  <2> HIDE DEF e
  <2>3. Snap!OneSlot(ext.storage, e.storage) /\ Snap!OneSlot(ext.transient, e.transient)
    BY <2>1 DEF Snap!OneSlot
  <2>4. Small(ext, ext')
    BY <1>4, <2>1, <2>3 DEF Small, Noted
  <2>5. Kept(ext, <<>>, ext', {this, a})
    <3>1. Plain(<<>>)
      BY DEF Plain
    <3>2. \A x \in Addr \ {this, a} : /\ e.balance[x] = ext.balance[x]
                                      /\ e.nonce[x] = ext.nonce[x] /\ e.code[x] = ext.code[x]
      BY <2>0, <2>1
    <3>3. \A x \in Addr \ NewAddrs : e.nonce[x] = ext.nonce[x]
      BY <2>1
    <3> QED BY <1>1, <1>4, <2>2, <3>1, <3>2, <3>3, KeptPlain
  <2>6. PICK st \in {"stopped", "reverted"} : frames' = [frames EXCEPT ![Depth] = g(st)]
    BY <1>4
  <2>7. /\ g(st).status = st /\ g(st).entry = Top.entry /\ g(st).kind = Top.kind
        /\ g(st).this = Top.this /\ g(st).from = Top.from
        /\ g(st).touches = Top.touches \o <<>> /\ g(st).tainted = Top.tainted \cup {this, a}
    BY <1>1 DEF Frame
  <2> HIDE DEF g
  <2>8. /\ Depth \in Nat /\ Depth \in 1..Depth /\ Len(frames') = Depth
        /\ \A i \in 1..Depth : frames'[i] = IF i = Depth THEN g(st) ELSE frames[i]
    BY <1>1, <2>6, InnerShape
  <2>9. \A i \in 1..(Depth - 1) : i \in 1..Depth /\ i # Depth
    BY <2>8
  <2>10. Entries(Depth) /\ Standing(Depth - 1) /\ frames'[Depth].status = st
    BY <2>7, <2>8, <2>9 DEF Entries, Standing, Top
  <2>11. Grows(Depth, <<>>, {this, a})
    BY <1>1, <2>7, <2>8, <2>9 DEF Grows, Top
  <2> QED BY <1>0, <1>1, <2>4, <2>5, <2>8, <2>10, <2>11, StatusFacts DEF Works
<1> QED BY <1>2, <1>3, <1>4

LEMMA CallAccessQuiet ==
  ASSUME NEW e \in Ext, NEW a \in Addr
  PROVE  /\ Quiet(e, CallAccess(e, a)) /\ Alike(e, CallAccess(e, a))
         /\ Plain(CallAccessTouches(e, a))
<1> DEFINE t == Target(e, a)
           e1 == Access(e, a)
           e2 == Access(e1, t)
           e3 == Pull(e2, a)
           e4 == Pull(e3, t)
           p == AccessTouch(e, a)
           q == AccessTouch(e1, t)
<1>1. t \in Addr
  BY CallAccessFacts
<1> HIDE DEF t
<1>2. e1 \in Ext /\ Quiet(e, e1) /\ Alike(e, e1) /\ p \in Seq(Touch) /\ Plain(p)
  BY SoundAccess, QuietOperations, KeptWarm
<1> HIDE DEF e1, p
<1>3. e2 \in Ext /\ Quiet(e1, e2) /\ Alike(e1, e2) /\ q \in Seq(Touch) /\ Plain(q)
  BY <1>1, <1>2, SoundAccess, QuietOperations, KeptWarm
<1> HIDE DEF e2, q
<1>4. e3 \in Ext /\ Quiet(e2, e3) /\ Alike(e2, e3)
  BY <1>3, PullWorld, QuietOperations, KeptWarm
<1> HIDE DEF e3
<1>5. Quiet(e3, e4) /\ Alike(e3, e4)
  BY <1>1, <1>4, QuietOperations, KeptWarm
<1> HIDE DEF e4
<1>6. Quiet(e, e4)
  <2>1. Quiet(e, e2)
    BY <1>2, <1>3, QuietChain
  <2>2. Quiet(e, e3)
    BY <1>4, <2>1, QuietChain
  <2> QED BY <1>5, <2>2, QuietChain
<1>7. Alike(e, e4)
  BY <1>2, <1>3, <1>4, <1>5 DEF Alike
<1>8. Plain(p \o q)
  <2>1. /\ DOMAIN (p \o q) = DOMAIN p \cup {Len(p) + j : j \in DOMAIN q}
        /\ \A i \in DOMAIN p : (p \o q)[i] = p[i]
        /\ \A j \in DOMAIN q : (p \o q)[Len(p) + j] = q[j]
    BY <1>2, <1>3, ConcatIndices
  <2> QED BY <1>2, <1>3, <2>1, Zenon DEF Plain
<1>9. CallAccess(e, a) = e4 /\ CallAccessTouches(e, a) = p \o q
  BY DEF CallAccess, CallAccessTouches, e4, e3, e2, e1, t, p, q
<1> QED BY <1>6, <1>7, <1>8, <1>9

LEMMA DoCallShape ==
  ASSUME Inv, NEW op, Executing(op), NEW ct \in {"Call", "Callcode", "Delegate", "Static"},
         NEW a \in Operands, NEW v \in Nat, DoCall(ct, a, v)
  PROVE  Works \/ Calls
<1> DEFINE this  == Top.this
           e     == CallAccess(ext, a)
           new   == CallAccessTouches(ext, a)
           moves == v > 0 /\ ct \in {"Call", "Callcode"} /\ HasFunds(ext, this, v) /\ this # a
           own   == ct \in {"Callcode", "Delegate"}
           pay   == IF moves THEN TransferTouches(ext, this, a) ELSE <<>>
           ts    == new \o pay
           w     == IF moves THEN Transfer(e, this, a, v) ELSE e
           st    == Top.static \/ ct = "Static"
           me    == IF own THEN this ELSE a
           by    == IF own THEN Top.from ELSE this
           code  == Resolve(ext, a)
           f     == NewFrame("call", ct, st, me, by, v, code, w, ext.balance)
<1>1. /\ a \in Addr /\ this \in Addr /\ ext \in Ext /\ Top \in Frame /\ Top.from \in Addr
      /\ frames # <<>> /\ Top.static \in BOOLEAN /\ Top.status = "running"
  BY ExecutingFacts, AddressAssumption DEF Executing
<1>2. /\ e \in Ext /\ new \in Seq(Touch) /\ e.balance = ext.balance
      /\ Quiet(ext, e) /\ Alike(ext, e) /\ Plain(new)
  BY <1>1, CallAccessFacts, CallAccessQuiet
<1>3. \/ Advance(e, new, "running")
      \/ Advance(e, new, "reverted")
      \/ Enter(ts, {}, f)
  BY DEF DoCall
<1> HIDE DEF e, new, this, code
<1>4. Small(ext, e) /\ Kept(ext, new, e, {})
  BY <1>1, <1>2, QuietIsSmall, KeptAlike
<1>5. CASE Advance(e, new, "running") \/ Advance(e, new, "reverted")
  <2>1. \E x \in Status : Advance(e, new, x)
    BY <1>5, StatusFacts
  <2> QED BY <1>1, <1>2, <1>4, <2>1, AdvanceWorks
<1>6. CASE Enter(ts, {}, f)
  <2>1. w \in Ext /\ Quiet(ext, w) /\ ts \in Seq(Touch) /\ Kept(ext, ts, w, {})
    <3>1. CASE moves
      <4>1. w \in Ext /\ Quiet(e, w) /\ w = Transfer(e, this, a, v)
        BY <1>1, <1>2, <3>1, TransferWorld, QuietTransfer DEF HasFunds
      <4>2. /\ w.nonce = e.nonce /\ w.code = e.code
            /\ \A x \in Addr \ {this, a} : w.balance[x] = e.balance[x]
        <5>1. /\ w.nonce = e.nonce /\ w.code = e.code
              /\ w.balance = [x \in Addr |-> (e.balance[x] + (IF x = a THEN v ELSE 0))
                                               - (IF x = this THEN v ELSE 0)]
          BY <1>2, <4>1 DEF Transfer, Ext
        <5>2. e.balance \in [Addr -> Nat]
          BY <1>2 DEF Ext
        <5> HIDE DEF w
        <5> QED BY <5>1, <5>2
      <4>3. pay = TransferTouches(ext, this, a)
        BY <3>1
      <4> HIDE DEF w, pay
      <4>4. pay \in Seq(Touch) /\ Kept(e, pay, w, {})
        BY <1>1, <1>2, <4>1, <4>2, <4>3, KeptTransfer
      <4>5. new \o pay \in Seq(Touch) /\ Kept(ext, new \o pay, w, {} \cup {})
        BY <1>1, <1>2, <1>4, <4>1, <4>4, KeptCompose
      <4>6. Quiet(ext, w)
        BY <1>2, <4>1, QuietChain
      <4>7. {} \cup {} = {}
        OBVIOUS
      <4> QED BY <4>1, <4>5, <4>6, <4>7
    <3>2. CASE ~moves
      <4>1. w = e /\ ts = new
        BY <1>2, <3>2
      <4> QED BY <1>2, <1>4, <4>1
    <3> QED BY <3>1, <3>2
  <2> HIDE DEF w, ts, pay
  <2>2. /\ st \in BOOLEAN /\ me \in Addr /\ by \in Addr
        /\ ct \in CallTypes /\ ext.balance \in [Addr -> Nat]
    BY <1>1 DEF CallTypes, Ext
  <2> HIDE DEF st, me, by, moves, own
  <2> DEFINE bal == ext.balance
             kind == "call"
  <2>3. kind \in {"call", "create"} /\ bal \in [Addr -> Nat] /\ kind # "create"
    BY <2>2
  <2>4. f = NewFrame(kind, ct, st, me, by, v, code, w, bal)
    OBVIOUS
  <2> HIDE DEF f, bal, kind
  <2>5. /\ f \in Frame /\ f.entry = w /\ f.from = by
        /\ f.touches = WarmTouch(w, by)
    BY ONLY <2>1, <2>2, <2>3, <2>4, NewFrameType, v \in Nat
  <2>6. f.kind = kind /\ f.tainted = {} /\ f.status \in Status
    BY <2>4 DEF NewFrame, Status
  <2> HIDE DEF f
  <2>7. {} \in SUBSET Addr /\ f.touches = WarmTouch(f.entry, f.from)
    BY <2>5
  <2> QED BY <1>1, <1>6, <2>1, <2>2, <2>3, <2>5, <2>6, <2>7, EnterCalls
<1> QED BY <1>3, <1>5, <1>6

LEMMA CallsShape ==
  ASSUME Inv, NEW a \in Operands, NEW v \in Amounts,
         CALL(a, v) \/ CALLCODE(a, v) \/ DELEGATECALL(a) \/ STATICCALL(a)
  PROVE  Works \/ Calls
<1>0. v \in Nat
  BY BoundAssumption
<1>1. CASE CALL(a, v)
  <2>1. Executing("CALL") /\ Top.status = "running" /\ frames # <<>>
    BY <1>1 DEF CALL, Executing
  <2>2. CASE Advance(ext, <<>>, "reverted")
    BY <2>1, <2>2, StatusFacts, RefusedWorks
  <2>3. CASE DoCall("Call", a, v)
    BY <1>0, <2>1, <2>3, DoCallShape
  <2> QED BY <1>1, <2>2, <2>3 DEF CALL
<1>2. CASE CALLCODE(a, v)
  BY <1>0, <1>2, DoCallShape DEF CALLCODE
<1>3. CASE DELEGATECALL(a)
  <2>1. Executing("DELEGATECALL") /\ DoCall("Delegate", a, Top.value)
    BY <1>3 DEF DELEGATECALL
  <2>2. Top.value \in Nat
    BY <2>1, ExecutingFacts
  <2> QED BY <2>1, <2>2, DoCallShape
<1>4. CASE STATICCALL(a)
  BY <1>4, DoCallShape DEF STATICCALL
<1> QED BY <1>1, <1>2, <1>3, <1>4

LEMMA DoCreateCalls ==
  ASSUME Inv, NEW op, Executing(op), NEW ct \in CallTypes, NEW v \in Nat, DoCreate(ct, v)
  PROVE  Calls
<1> DEFINE this == Top.this
           new  == NewAddress(ct)
           n    == ext.nonce[this]
           e1   == [ext EXCEPT !.nonce[this] = n + 1]
           w    == WarmAddress(e1, new)
           e2   == OrDefault(w, new)
           p    == <<SetNonce(this, n)>>
           q    == WarmTouch(e1, new)
           ts   == p \o q
           f(code) == NewFrame("create", ct, Top.static, new, this, v, code, e2, ext.balance)
<1>1. /\ this \in Addr /\ ext \in Ext /\ Top \in Frame /\ Top.static \in BOOLEAN
      /\ frames # <<>> /\ Top.status = "running" /\ ext.balance \in [Addr -> Nat]
  BY ExecutingFacts DEF Executing, Ext
<1>2. PICK code \in {Empty, Contract} : Enter(ts, {new}, f(code))
  BY DEF DoCreate
<1>15. new \in Addr /\ new \in NewAddrs
  BY <1>1, NewAddressType DEF NewAddrs
<1> HIDE DEF this, new
<1>3. e1 \in Ext /\ Quiet(ext, e1) /\ p \in Seq(Touch) /\ Kept(ext, p, e1, {})
  BY <1>1, KeptNonce, QuietAccounts
<1> HIDE DEF e1, p
<1>4. w \in Ext /\ Quiet(e1, w) /\ q \in Seq(Touch) /\ Kept(e1, q, w, {})
  BY <1>3, <1>15, SoundWarm, QuietOperations, KeptWarm
<1> HIDE DEF w, q
<1>5. e2 \in Ext /\ Quiet(w, e2) /\ Kept(w, <<>>, e2, {new})
  BY <1>4, <1>15, KeptDefault, QuietOperations
<1> HIDE DEF e2
<1>6. ts \in Seq(Touch) /\ Kept(ext, ts, w, {} \cup {})
  BY <1>1, <1>3, <1>4, KeptCompose
<1> HIDE DEF ts
<1>7. ts \o <<>> = ts /\ ({} \cup {}) \cup {new} = {new} /\ <<>> \in Seq(Touch)
  BY <1>6
<1>8. Kept(ext, ts \o <<>>, e2, ({} \cup {}) \cup {new})
  BY <1>1, <1>4, <1>5, <1>6, <1>7, KeptCompose
<1>9. Kept(ext, ts, e2, {new})
  BY <1>7, <1>8
<1>10. Quiet(ext, e2)
  <2>1. Quiet(ext, w)
    BY <1>3, <1>4, QuietChain
  <2> QED BY <1>5, <2>1, QuietChain
<1> DEFINE g == f(code)
<1>11. /\ g \in Frame /\ g.entry = e2 /\ g.from = this
       /\ g.touches = WarmTouch(e2, this)
  BY <1>1, <1>5, <1>15, NewFrameType
<1>12. g.this = new /\ g.tainted = {} /\ g.status \in Status
  BY DEF NewFrame, Status
<1>13. Enter(ts, {new}, g) /\ {new} \in SUBSET Addr
  BY <1>2, <1>15
<1> HIDE DEF g
<1>14. g.touches = WarmTouch(g.entry, g.from)
  BY <1>11
<1> QED BY <1>1, <1>5, <1>6, <1>9, <1>10, <1>11, <1>12, <1>13, <1>14, <1>15, EnterCalls

LEMMA CreatesShape ==
  ASSUME Inv, NEW v \in Amounts, CREATE(v) \/ CREATE2(v)
  PROVE  Works \/ Calls
<1>0. v \in Nat
  BY BoundAssumption
<1>1. \E op \in {"CREATE", "CREATE2"} : Executing(op)
  BY DEF CREATE, CREATE2
<1>2. /\ Top.this \in Addr /\ Top.callType \in CallTypes /\ ext \in Ext
      /\ frames # <<>> /\ Top.status = "running"
  BY <1>1, ExecutingFacts DEF Executing
<1>3. CASE Advance(ext, <<>>, "reverted")
  BY <1>2, <1>3, StatusFacts, RefusedWorks
<1>4. CASE \E ct \in {Top.callType, "Create2"} : DoCreate(ct, v)
  <2>1. "Create2" \in CallTypes
    BY DEF CallTypes
  <2> QED BY <1>0, <1>1, <1>2, <1>4, <2>1, DoCreateCalls
<1> QED BY <1>3, <1>4 DEF CREATE, CREATE2

-----------------------------------------------------------------------------
(* The invariant about accounts, and the ends of calls *)

\* The journal of every frame accounts for the accounts it answers for.
Accounts ==
  \A i \in DOMAIN frames :
    Kept(frames[i].entry, frames[i].touches, After(i), frames[i].tainted)

\* A creation runs in an account with an address made for it.
Creations ==
  \A i \in DOMAIN frames : frames[i].kind = "create" => frames[i].this \in NewAddrs

\* The signer of a call, unless its address is one a creation may be given, has
\* used a nonce before the call began.
Counted ==
  \A i \in DOMAIN frames : i = 1 =>
    /\ frames[i].from \in Senders \cup Creators
    /\ frames[i].kind = "call" /\ frames[i].from \notin NewAddrs =>
         After(i).nonce[frames[i].from] > frames[i].entry.nonce[frames[i].from]

AInv == Accounts /\ Creations /\ Counted

LEMMA TopFacts ==
  ASSUME Inv, AInv, frames # <<>>
  PROVE  /\ ext \in Ext /\ Top \in Frame /\ Top.touches \in Seq(Touch) /\ Top.entry \in Ext
         /\ Top.this \in Addr /\ Top.from \in Addr /\ Top.value \in Nat /\ Top.tainted \in SUBSET Addr
         /\ Sound(Top.entry, Top.touches, ext)
         /\ Kept(Top.entry, Top.touches, ext, Top.tainted)
         /\ Top.kind = "create" => Top.this \in NewAddrs
<1>1. Depth \in Nat /\ Depth \in DOMAIN frames /\ Depth \in 1..Depth /\ ext \in Ext
  BY FrameTypes DEF Inv, TypeOK
<1>2. Top \in Frame
  BY <1>1, FrameTypes DEF Inv, Top
<1>3. Sound(Top.entry, Top.touches, ext) /\ Kept(Top.entry, Top.touches, ext, Top.tainted)
  BY <1>1 DEF Inv, Journals, AInv, Accounts, After, Top
<1>4. Top.kind = "create" => Top.this \in NewAddrs
  BY <1>1 DEF AInv, Creations, Top
<1> QED BY <1>1, <1>2, <1>3, <1>4, FrameFields

\* What Evm::revert makes of the world of the innermost call.
LEMMA TopReverted ==
  ASSUME Inv, AInv, frames # <<>>
  PROVE  LET e == Revert(Top.touches, ext)
         IN  /\ e \in Ext /\ WorldOf(e) = WorldOf(Top.entry)
             /\ e.original = ext.original /\ e.destroyed = ext.destroyed
             /\ Survivors(Top.touches) \in Seq(Touch)
             /\ Kept(Top.entry, Survivors(Top.touches), e, Top.tainted)
<1> DEFINE e == Revert(Top.touches, ext)
<1>1. /\ ext \in Ext /\ Top.touches \in Seq(Touch) /\ Top.entry \in Ext
      /\ Sound(Top.entry, Top.touches, ext)
      /\ Kept(Top.entry, Top.touches, ext, Top.tainted)
  BY TopFacts
<1>2. /\ e.storage = Top.entry.storage /\ e.transient = Top.entry.transient
      /\ e.warmAddr = Top.entry.warmAddr /\ e \in Ext
  BY <1>1, SoundRevert, RevertWorld
<1>3. e.original = ext.original /\ e.destroyed = ext.destroyed
  BY DEF Revert
<1>4. /\ Survivors(Top.touches) \in Seq(Touch)
      /\ Kept(Top.entry, Survivors(Top.touches), e, Top.tainted)
  BY <1>1, KeptRevert
<1> HIDE DEF e
<1>5. WorldOf(e) = WorldOf(Top.entry)
  BY <1>2 DEF WorldOf
<1> QED BY <1>2, <1>3, <1>4, <1>5 DEF e

LEMMA UndoneLeaves ==
  ASSUME Inv, AInv, Depth > 1, Top.status # "running", Undone
  PROVE  Leaves
<1> DEFINE e == Revert(Top.touches, ext)
           ts == Survivors(Top.touches)
<1>1. frames # <<>> /\ Depth \in Nat
  BY DEF Depth
<1>2. /\ e \in Ext /\ WorldOf(e) = WorldOf(Top.entry)
      /\ e.original = ext.original /\ e.destroyed = ext.destroyed
      /\ ts \in Seq(Touch) /\ Kept(Top.entry, ts, e, Top.tainted)
  BY <1>1, TopReverted
<1>3. Leave(e, ts, {}) /\ {} \in SUBSET Addr /\ Top.tainted \cup {} = Top.tainted
  BY DEF Undone
<1>4. Top.status \in {"stopped", "reverted"}
  BY <1>1, TopFacts DEF Frame
<1> HIDE DEF e, ts
<1> QED BY <1>2, <1>3, <1>4, LeaveLeaves

LEMMA CallSucceedsLeaves ==
  ASSUME Inv, AInv, CallSucceeds
  PROVE  Leaves
<1>1. /\ Depth > 1 /\ Top.status = "stopped" /\ Leave(ext, Top.touches, {}) /\ frames # <<>>
      /\ {} \in SUBSET Addr /\ Top.tainted \cup {} = Top.tainted
  BY DEF CallSucceeds, Ended, Depth
<1>2. Top.touches \in Seq(Touch) /\ Kept(Top.entry, Top.touches, ext, Top.tainted)
  BY <1>1, TopFacts
<1> QED BY <1>1, <1>2, LeaveLeaves

LEMMA CreateSucceedsLeaves ==
  ASSUME Inv, AInv, CreateSucceeds
  PROVE  Leaves
<1> DEFINE this  == Top.from
           new   == Top.this
           moves == /\ Top.value > 0
                    /\ Top.callType \notin {"Static", "Delegate"}
                    /\ HasFunds(ext, this, Top.value)
           taint == IF moves THEN {this, new} ELSE {new}
           e(code) == [ext EXCEPT !.code[new] = code, !.nonce[new] = 1]
           w(code) == IF moves THEN Transfer(e(code), this, new, Top.value) ELSE e(code)
           p(code) == IF moves THEN TransferTouches(e(code), this, new) ELSE <<>>
<1>1. PICK code \in {Empty, Contract} :
        Leave(w(code), p(code) \o <<CreateTouch(new)>> \o Top.touches, taint)
  BY DEF CreateSucceeds
<1>2. Depth > 1 /\ frames # <<>> /\ Top.kind = "create" /\ Top.status = "stopped"
  BY DEF CreateSucceeds, Ended, Depth
<1>3. /\ ext \in Ext /\ Top \in Frame /\ Top.touches \in Seq(Touch) /\ Top.entry \in Ext
      /\ new \in Addr /\ this \in Addr /\ Top.value \in Nat /\ Top.tainted \in SUBSET Addr
      /\ Kept(Top.entry, Top.touches, ext, Top.tainted) /\ new \in NewAddrs
  BY <1>2, TopFacts
<1> HIDE DEF this, new
<1> DEFINE f == e(code)
           g == w(code)
           q == p(code)
           c == <<CreateTouch(new)>>
           ts == q \o c \o Top.touches
<1>4. /\ f \in Ext /\ Quiet(ext, f) /\ f.balance = ext.balance
      /\ \A a \in Addr : a # new => f.nonce[a] = ext.nonce[a] /\ f.code[a] = ext.code[a]
  <2>1. code \in Code
    BY DEF Code
  <2> QED BY <1>3, <2>1 DEF Ext, Quiet
<1> HIDE DEF f
<1>5. /\ g \in Ext /\ Quiet(f, g) /\ g.nonce = f.nonce /\ g.code = f.code
      /\ \A a \in Addr \ taint : g.balance[a] = f.balance[a]
  <2>1. CASE moves
    <3>1. f.balance[this] >= Top.value /\ g = Transfer(f, this, new, Top.value)
      BY <1>4, <2>1 DEF f, HasFunds
    <3> HIDE DEF g
    <3>2. g \in Ext /\ Quiet(f, g)
      BY <1>3, <1>4, <3>1, TransferWorld, QuietTransfer
    <3>3. /\ g.nonce = f.nonce /\ g.code = f.code
          /\ g.balance = [a \in Addr |-> (f.balance[a] + (IF a = new THEN Top.value ELSE 0))
                                          - (IF a = this THEN Top.value ELSE 0)]
      BY <1>4, <3>1 DEF Transfer, Ext
    <3>4. f.balance \in [Addr -> Nat] /\ taint = {this, new}
      BY <1>4, <2>1 DEF Ext
    <3> QED BY <3>2, <3>3, <3>4
  <2>2. CASE ~moves
    <3>1. g = f
      BY <2>2 DEF f
    <3> HIDE DEF g
    <3> QED BY <1>4, <3>1, QuietOperations
  <2> QED BY <2>1, <2>2
<1>6. g.original = ext.original /\ g.destroyed = ext.destroyed /\ WorldOf(g) = WorldOf(ext)
  <2>1. f.warmAddr = ext.warmAddr
    BY <1>3 DEF f, Ext
  <2>2. g.warmAddr = f.warmAddr
    BY <1>4 DEF f, Transfer, Ext
  <2> HIDE DEF g
  <2> QED BY <1>4, <1>5, <2>1, <2>2 DEF Quiet, WorldOf
<1> HIDE DEF g
<1>7. /\ q \in Seq(Touch)
      /\ \A i \in DOMAIN q : q[i].op = "SetValue" /\ q[i].addr \in taint
  <2>1. CASE moves
    <3>1. q = <<SetValue(this, f.balance[this]), SetValue(new, f.balance[new])>>
      BY <2>1 DEF f, TransferTouches
    <3>2. f.balance[this] \in Nat /\ f.balance[new] \in Nat
      BY <1>3, <1>4, NonceType
    <3>3. taint = {this, new}
      BY <2>1
    <3> HIDE DEF q, taint
    <3> QED BY <1>3, <3>1, <3>2, <3>3 DEF SetValue, Touch
  <2>2. CASE ~moves
    BY <2>2
  <2> QED BY <2>1, <2>2
<1>8. c \in Seq(Touch) /\ DOMAIN c = {1} /\ c[1].op = "Create" /\ c[1].addr = new
  BY <1>3 DEF CreateTouch, Touch
<1>9. new \in taint /\ taint \in SUBSET Addr
  BY <1>3
<1>10. Leave(g, ts, taint)
  BY <1>1 DEF g, q, c
<1> HIDE DEF q, c, taint
<1> DEFINE qc == q \o c
           t == Top.touches
<1>11. /\ qc \in Seq(Touch)
       /\ \A i \in DOMAIN qc : \/ qc[i].op = "SetValue" /\ qc[i].addr \in taint
                               \/ qc[i].op = "Create" /\ qc[i].addr = new
  <2>1. /\ DOMAIN (q \o c) = DOMAIN q \cup {Len(q) + j : j \in DOMAIN c}
        /\ \A i \in DOMAIN q : (q \o c)[i] = q[i]
        /\ \A j \in DOMAIN c : (q \o c)[Len(q) + j] = c[j]
    BY <1>7, <1>8, ConcatIndices
  <2>2. ASSUME NEW i \in DOMAIN qc
        PROVE  \/ qc[i].op = "SetValue" /\ qc[i].addr \in taint
               \/ qc[i].op = "Create" /\ qc[i].addr = new
    <3>1. CASE i \in DOMAIN q
      BY <1>7, <2>1, <3>1, Zenon
    <3>2. ASSUME NEW j \in DOMAIN c, i = Len(q) + j
          PROVE  qc[i].op = "Create" /\ qc[i].addr = new
      <4>1. qc[i] = c[j] /\ j = 1
        BY <1>8, <2>1, <3>2
      <4> QED BY <1>8, <4>1
    <3> QED BY <2>1, <3>1, <3>2, Zenon
  <2>3. qc \in Seq(Touch)
    BY <1>7, <1>8
  <2> QED BY <2>2, <2>3
<1> HIDE DEF qc
<1>12. /\ Within(qc, taint) /\ Marks(qc, taint)
       /\ \A i \in DOMAIN qc : qc[i].op # "SetNonce" /\ (qc[i].op = "Create" => qc[i].addr \in NewAddrs)
  BY <1>3, <1>9, <1>11 DEF Within, Marks
<1>13. /\ \A a \in Addr \ taint : /\ g.balance[a] = ext.balance[a] /\ g.nonce[a] = ext.nonce[a]
                                  /\ g.code[a] = ext.code[a]
       /\ \A a \in Addr \ NewAddrs : g.nonce[a] = ext.nonce[a]
  BY <1>3, <1>4, <1>5, <1>9
<1>14. Kept(Top.entry, qc \o t, g, Top.tainted \cup taint) /\ qc \o t \in Seq(Touch)
  <2> DEFINE b == Top.entry
             T == Top.tainted
  <2>1. b \in Ext /\ t \in Seq(Touch) /\ Kept(b, t, ext, T) /\ ext \in Ext /\ g \in Ext
    BY <1>3, <1>5
  <2> HIDE DEF b, T, t
  <2>2. Kept(b, qc \o t, g, T \cup taint)
    BY ONLY <2>1, <1>11, <1>12, <1>13, KeptDeploy
  <2>3. qc \o t \in Seq(Touch)
    BY <1>11, <2>1
  <2> QED BY <2>2, <2>3 DEF b, T
<1>15. ts = qc \o t
  BY DEF qc
<1> HIDE DEF ts, t
<1> QED BY <1>2, <1>6, <1>9, <1>10, <1>14, <1>15, LeaveLeaves

\* The last frame of a transaction is dropped: of its parts, only the nonce counts.
LEMMA EndsLeave ==
  ASSUME Inv, AInv, frames # <<>>, Depth = 1, frames' = <<>>,
         ext'.original = ext.original, ext'.destroyed = ext.destroyed,
         \/ Top.status = "stopped" /\ WorldOf(ext') = WorldOf(ext)
         \/ Top.status \in {"stopped", "reverted"} /\ WorldOf(ext') = WorldOf(Top.entry)
  PROVE  Leaves
<1>1. Len(frames') = Depth - 1 /\ 1..(Depth - 1) = {}
  OBVIOUS
<1> QED BY <1>1 DEF Leaves, Entries, Standing

\* A signer whose address no creation is given has used a nonce.
Consumes ==
  Top.from \notin NewAddrs => ext'.nonce[Top.from] > Top.entry.nonce[Top.from]

LEMMA EndTxLeaves ==
  ASSUME Inv, AInv, EndTx
  PROVE  Leaves /\ Consumes
<1> DEFINE from == Top.from
           e == Revert(Top.touches, ext)
           n == e.nonce[from]
<1>1. Depth = 1 /\ frames # <<>> /\ Top.status # "running" /\ frames' = <<>> /\ Top.kind = "call"
      /\ frames[1] = Top /\ 1 \in DOMAIN frames
  BY DEF EndTx, Depth, Top
<1>2. /\ e \in Ext /\ WorldOf(e) = WorldOf(Top.entry)
      /\ e.original = ext.original /\ e.destroyed = ext.destroyed
      /\ Kept(Top.entry, Survivors(Top.touches), e, Top.tainted)
  BY <1>1, TopReverted
<1>3. /\ Top.status \in {"stopped", "reverted"} /\ from \in Addr /\ ext \in Ext /\ Top.entry \in Ext
  BY <1>1, TopFacts DEF Frame
<1>4. ext' = IF Top.status = "reverted" THEN [e EXCEPT !.nonce[from] = n + 1] ELSE ext
  BY DEF EndTx
<1>5. from \notin NewAddrs => ext.nonce[from] > Top.entry.nonce[from]
  BY <1>1 DEF AInv, Counted, After
<1> HIDE DEF e, from
<1>6. CASE Top.status = "reverted"
  <2> DEFINE g == [e EXCEPT !.nonce[from] = n + 1]
  <2>0. n \in Nat /\ Top.entry.nonce[from] \in Nat
    BY <1>2, <1>3, NonceType
  <2> HIDE DEF n
  <2>1. WorldOf(g) = WorldOf(e) /\ g.original = e.original /\ g.destroyed = e.destroyed
        /\ g.nonce[from] = n + 1
    BY <1>2, <1>3 DEF WorldOf, Ext
  <2>2. ext' = g
    BY <1>4, <1>6
  <2> HIDE DEF g
  <2>3. Leaves
    BY <1>1, <1>2, <1>3, <2>1, <2>2, EndsLeave
  <2>4. from \notin NewAddrs => n >= Top.entry.nonce[from]
    BY <1>2, <1>3 DEF Kept, Climbs, n
  <2>5. Consumes
    BY <2>0, <2>1, <2>2, <2>4 DEF Consumes, from
  <2> QED BY <2>3, <2>5
<1>7. CASE Top.status = "stopped"
  <2>1. ext' = ext
    BY <1>4, <1>7
  <2>2. Leaves
    BY <1>1, <1>7, <2>1, EndsLeave
  <2> QED BY <1>5, <2>1, <2>2 DEF Consumes, from
<1> QED BY <1>3, <1>6, <1>7

LEMMA EndCreateTxLeaves ==
  ASSUME Inv, AInv, EndCreateTx
  PROVE  Leaves /\ Consumes
<1> DEFINE from == Top.from
           new  == Top.this
           e    == Revert(Top.touches, ext)
           p    == Pull(Pull(ext, new), from)
           Inc(w) == [w EXCEPT !.nonce[from] = @ + 1]
<1>1. Depth = 1 /\ frames # <<>> /\ frames' = <<>> /\ Top.kind = "create"
  BY DEF EndCreateTx, Depth
<1>2. /\ e \in Ext /\ WorldOf(e) = WorldOf(Top.entry)
      /\ e.original = ext.original /\ e.destroyed = ext.destroyed
      /\ Kept(Top.entry, Survivors(Top.touches), e, Top.tainted)
  BY <1>1, TopReverted
<1>3. /\ from \in Addr /\ new \in Addr /\ ext \in Ext /\ Top.entry \in Ext /\ new \in NewAddrs
      /\ Kept(Top.entry, Top.touches, ext, Top.tainted)
  BY <1>1, TopFacts
<1>4. \/ /\ Top.status \in {"reverted", "stopped"}
         /\ ext' = Inc(e)
      \/ /\ Top.status = "stopped"
         /\ \E code \in {Empty, Contract} :
              ext' = [Inc(p) EXCEPT !.code[new] = code, !.nonce[new] = 1]
  BY DEF EndCreateTx
<1>5. /\ p \in Ext /\ p.nonce = ext.nonce /\ WorldOf(p) = WorldOf(ext)
      /\ p.original = ext.original /\ p.destroyed = ext.destroyed
  BY <1>3 DEF Pull, WorldOf, Ext
<1> HIDE DEF e, p, from, new
<1>6. ASSUME NEW w \in Ext
      PROVE  /\ Inc(w) \in Ext /\ WorldOf(Inc(w)) = WorldOf(w)
             /\ Inc(w).original = w.original /\ Inc(w).destroyed = w.destroyed
             /\ Inc(w).nonce[from] = w.nonce[from] + 1 /\ w.nonce[from] \in Nat
  <2>1. w.nonce[from] + 1 \in Nat /\ w.nonce[from] \in Nat
    BY <1>3, NonceType
  <2> QED BY <1>3, <2>1 DEF Ext, WorldOf
<1> HIDE DEF Inc
<1>7. /\ Top.entry.nonce[from] \in Nat
      /\ from \notin NewAddrs => /\ e.nonce[from] >= Top.entry.nonce[from]
                                 /\ ext.nonce[from] >= Top.entry.nonce[from]
  BY <1>2, <1>3, NonceType DEF Kept, Climbs
<1>8. CASE Top.status \in {"reverted", "stopped"} /\ ext' = Inc(e)
  <2>1. Leaves
    BY <1>1, <1>2, <1>6, <1>8, EndsLeave
  <2>2. Consumes
    BY <1>2, <1>6, <1>7, <1>8 DEF Consumes, from
  <2> QED BY <2>1, <2>2
<1>9. ASSUME Top.status = "stopped", NEW code \in {Empty, Contract},
             ext' = [Inc(p) EXCEPT !.code[new] = code, !.nonce[new] = 1]
      PROVE  Leaves /\ Consumes
  <2> DEFINE i == Inc(p)
  <2>1. /\ i \in Ext /\ WorldOf(i) = WorldOf(p) /\ i.original = p.original
        /\ i.destroyed = p.destroyed /\ i.nonce[from] = p.nonce[from] + 1
        /\ p.nonce[from] \in Nat
    BY <1>5, <1>6
  <2>2. ext' = [i EXCEPT !.code[new] = code, !.nonce[new] = 1]
    BY <1>9
  <2> HIDE DEF i
  <2>3. /\ WorldOf(ext') = WorldOf(i) /\ ext'.original = i.original /\ ext'.destroyed = i.destroyed
        /\ from # new => ext'.nonce[from] = i.nonce[from]
    BY <1>3, <2>1, <2>2 DEF Ext, WorldOf
  <2>4. Leaves
    BY <1>1, <1>5, <1>9, <2>1, <2>3, EndsLeave
  <2>5. Consumes
    BY <1>3, <1>5, <1>7, <2>1, <2>3 DEF Consumes, from
  <2> QED BY <2>4, <2>5
<1> QED BY <1>4, <1>8, <1>9

-----------------------------------------------------------------------------
(* The starts of transactions *)

\* A step of the world that writes no word and that ts accounts for, but for T.
Step(e, ts, f, T) ==
  /\ e \in Ext /\ f \in Ext /\ ts \in Seq(Touch)
  /\ Quiet(e, f) /\ Kept(e, ts, f, T)

LEMMA StepCompose ==
  ASSUME NEW e, NEW p, NEW f, NEW q, NEW g, NEW T, Step(e, p, f, T), Step(f, q, g, T)
  PROVE  Step(e, p \o q, g, T)
<1>1. p \o q \in Seq(Touch) /\ Kept(e, p \o q, g, T \cup T)
  BY KeptCompose DEF Step
<1>2. T \cup T = T
  OBVIOUS
<1> QED BY <1>1, <1>2, QuietChain DEF Step

LEMMA StepBefore ==
  ASSUME NEW e, NEW f, NEW q, NEW g, NEW T, Step(e, <<>>, f, T), Step(f, q, g, T)
  PROVE  Step(e, q, g, T)
<1>1. <<>> \o q = q
  BY DEF Step
<1> QED BY <1>1, StepCompose

LEMMA StepAfter ==
  ASSUME NEW e, NEW p, NEW f, NEW g, NEW T, Step(e, p, f, T), Step(f, <<>>, g, T)
  PROVE  Step(e, p, g, T)
<1>1. p \o <<>> = p
  BY DEF Step
<1> QED BY <1>1, StepCompose

LEMMA StepWarm ==
  ASSUME NEW e \in Ext, NEW a \in Addr, NEW T
  PROVE  /\ Step(e, WarmTouch(e, a), WarmAddress(e, a), T)
         /\ Step(e, <<>>, Pull(e, a), T)
         /\ a \in NewAddrs /\ a \in T => Step(e, <<>>, OrDefault(e, a), T)
<1>1. {} \subseteq T /\ <<>> \in Seq(Touch)
  OBVIOUS
<1>2. Step(e, WarmTouch(e, a), WarmAddress(e, a), T)
  BY <1>1, SoundWarm, KeptWarm, KeptWiden, QuietOperations DEF Step
<1>3. Step(e, <<>>, Pull(e, a), T)
  BY <1>1, PullWorld, KeptWarm, KeptWiden, QuietOperations DEF Step
<1>4. ASSUME a \in NewAddrs, a \in T PROVE Step(e, <<>>, OrDefault(e, a), T)
  <2>1. {a} \subseteq T
    BY <1>4
  <2> QED BY <1>1, <1>4, <2>1, KeptDefault, KeptWiden, QuietOperations DEF Step
<1> QED BY <1>2, <1>3, <1>4

LEMMA StepNonce ==
  ASSUME NEW e \in Ext, NEW a \in Addr, NEW T
  PROVE  /\ Step(e, <<SetNonce(a, e.nonce[a])>>, [e EXCEPT !.nonce[a] = e.nonce[a] + 1], T)
         /\ [e EXCEPT !.nonce[a] = e.nonce[a] + 1].nonce[a] > e.nonce[a]
<1> DEFINE f == [e EXCEPT !.nonce[a] = e.nonce[a] + 1]
           ts == <<SetNonce(a, e.nonce[a])>>
<1>1. f \in Ext /\ ts \in Seq(Touch) /\ Kept(e, ts, f, {}) /\ f.nonce[a] > e.nonce[a]
  BY KeptNonce
<1>2. Quiet(e, f)
  BY QuietAccounts
<1> HIDE DEF f, ts
<1>3. {} \subseteq T
  OBVIOUS
<1>4. Step(e, ts, f, T)
  BY <1>1, <1>2, <1>3, KeptWiden DEF Step
<1> QED BY <1>1, <1>4 DEF f, ts

\* Value moves from src to dst: the touches record the balances before.
LEMMA StepTransfer ==
  ASSUME NEW e \in Ext, NEW f \in Ext, NEW src \in Addr, NEW dst \in Addr, NEW T,
         Quiet(e, f), f.nonce = e.nonce, f.code = e.code,
         \A a \in Addr \ {src, dst} : f.balance[a] = e.balance[a]
  PROVE  Step(e, TransferTouches(e, src, dst), f, T)
<1>1. /\ TransferTouches(e, src, dst) \in Seq(Touch)
      /\ Kept(e, TransferTouches(e, src, dst), f, {})
  BY KeptTransfer
<1>2. {} \subseteq T
  OBVIOUS
<1> QED BY <1>1, <1>2, KeptWiden DEF Step

LEMMA BeginTxBegins ==
  ASSUME Inv, NEW from \in Senders, NEW to \in Operands, NEW v \in Amounts, BeginTx(from, to, v)
  PROVE  Begins
<1> DEFINE e0   == Reset(ext)
           n0   == e0.nonce[from]
           new  == CreateAddr[from][n0]
           w0   == Pull(e0, to)
           w    == Pull(w0, from)
           w1   == WarmAddress(w, new)
           e1   == OrDefault(w1, new)
           e2   == WarmAddress(e1, from)
           e3   == WarmAddress(e2, to)
           tgt  == Target(e3, to)
           w4   == Pull(e3, tgt)
           e4   == WarmAddress(w4, tgt)
           pays == v > 0
           e5   == [e4 EXCEPT !.balance[from] = SatSub(@, v)]
           e6   == IF pays THEN [e5 EXCEPT !.balance[to] = @ + v] ELSE e4
           n6   == e6.nonce[from]
           e7   == [e6 EXCEPT !.nonce[from] = n6 + 1]
           p1   == WarmTouch(w, new)
           p2   == WarmTouch(e1, from)
           p3   == WarmTouch(e2, to)
           p4   == WarmTouch(e3, tgt)
           p5   == IF pays THEN TransferTouches(e4, from, to) ELSE <<>>
           p6   == <<SetNonce(from, n6)>>
           ts   == p1 \o p2 \o p3 \o p4 \o p5 \o p6
           code == Resolve(e3, to)
           T    == {new}
           f    == [ kind |-> "call", callType |-> "Call", static |-> FALSE,
                     this |-> to, from |-> from, value |-> v, touches |-> ts,
                     status |-> IF code = Empty THEN "stopped" ELSE "running",
                     entry |-> e0, before |-> e0.balance, tainted |-> T ]
<1>0. /\ ext \in Ext /\ from \in Addr /\ to \in Addr /\ v \in Nat /\ MaxNonce \in Nat
  BY AddressAssumption, BoundAssumption DEF Inv, TypeOK
<1>1. n0 < MaxNonce /\ frames = <<>> /\ ext' = e7 /\ frames' = <<f>>
  BY Zenon DEF BeginTx
<1>18. n0 < MaxNonce
  BY <1>1
<1>2. e0 \in Ext
  BY <1>0, ResetWorld
<1> HIDE DEF e0
<1>3. new \in Addr /\ new \in NewAddrs /\ new \in T
  <2>1. n0 \in Nat
    BY <1>0, <1>2, NonceType
  <2> HIDE DEF n0
  <2>2. n0 \in 0..MaxNonce
    BY <1>0, <1>18, <2>1
  <2> QED BY <1>0, <2>2, AddressAssumption DEF NewAddrs
<1> HIDE DEF n0, new, T
<1>4. Step(e0, <<>>, w, T) /\ w \in Ext
  <2>1. Step(e0, <<>>, w0, T) /\ w0 \in Ext
    BY <1>0, <1>2, StepWarm DEF Step
  <2> HIDE DEF w0
  <2>2. Step(w0, <<>>, w, T)
    BY <1>0, <2>1, StepWarm
  <2> QED BY <2>1, <2>2, StepBefore DEF Step
<1> HIDE DEF w
<1>5. Step(e0, p1, e1, T) /\ e1 \in Ext
  <2>1. Step(w, p1, w1, T) /\ w1 \in Ext
    BY <1>3, <1>4, StepWarm DEF Step
  <2> HIDE DEF w1, p1
  <2>2. Step(w1, <<>>, e1, T)
    BY <1>3, <2>1, StepWarm
  <2>3. Step(w, p1, e1, T)
    BY <2>1, <2>2, StepAfter
  <2> QED BY <1>4, <2>2, <2>3, StepBefore DEF Step
<1> HIDE DEF e1, p1
<1>6. Step(e1, p2, e2, T) /\ e2 \in Ext
  BY <1>0, <1>5, StepWarm DEF Step
<1> HIDE DEF e2, p2
<1>7. Step(e2, p3, e3, T) /\ e3 \in Ext
  BY <1>0, <1>6, StepWarm DEF Step
<1> HIDE DEF e3, p3
<1>8. tgt \in Addr
  BY <1>0, <1>7 DEF Target
<1> HIDE DEF tgt
<1>9. Step(e3, p4, e4, T) /\ e4 \in Ext
  <2>0. w4.warmAddr = e3.warmAddr
    BY <1>7 DEF Pull, Ext
  <2>1. Step(e3, <<>>, w4, T) /\ w4 \in Ext /\ w4.warmAddr = e3.warmAddr
    BY <1>7, <1>8, <2>0, StepWarm DEF Step
  <2>2. WarmTouch(w4, tgt) = p4
    BY <2>1 DEF WarmTouch
  <2> HIDE DEF w4, p4
  <2>3. Step(w4, p4, e4, T)
    BY <1>8, <2>1, <2>2, StepWarm
  <2> QED BY <2>1, <2>3, StepBefore DEF Step
<1> HIDE DEF e4, p4, w4
<1>10. Step(e4, p5, e6, T) /\ e6 \in Ext
  <2>1. CASE pays
    <3>1. SatSub(e4.balance[from], v) \in Nat
      BY <1>0, <1>9 DEF SatSub, Ext
    <3>2. /\ e5 \in Ext /\ Quiet(e4, e5) /\ e5.nonce = e4.nonce /\ e5.code = e4.code
          /\ \A a \in Addr : a # from => e5.balance[a] = e4.balance[a]
      BY <1>0, <1>9, <3>1 DEF Ext, Quiet
    <3> HIDE DEF e5
    <3>3. e5.balance[to] + v \in Nat
      BY <1>0, <3>2 DEF Ext
    <3>4. e6 = [e5 EXCEPT !.balance[to] = @ + v] /\ p5 = TransferTouches(e4, from, to)
      BY <2>1
    <3> HIDE DEF e6, p5
    <3>5. /\ e6 \in Ext /\ Quiet(e5, e6) /\ e6.nonce = e5.nonce /\ e6.code = e5.code
          /\ \A a \in Addr : a # to => e6.balance[a] = e5.balance[a]
      BY <1>0, <3>2, <3>3, <3>4 DEF Ext, Quiet
    <3>6. Quiet(e4, e6)
      BY <3>2, <3>5, QuietChain
    <3>7. \A a \in Addr \ {from, to} : e6.balance[a] = e4.balance[a]
      BY <3>2, <3>5
    <3>8. e6.nonce = e4.nonce /\ e6.code = e4.code
      BY <3>2, <3>5
    <3> QED BY <1>0, <1>9, <3>4, <3>5, <3>6, <3>7, <3>8, StepTransfer
  <2>2. CASE ~pays
    <3>1. e6 = e4 /\ p5 = <<>>
      BY <2>2
    <3> HIDE DEF e6, p5
    <3>2. Plain(<<>>) /\ Alike(e4, e4) /\ {} \subseteq T /\ <<>> \in Seq(Touch)
      BY DEF Plain, Alike
    <3>3. Kept(e4, <<>>, e4, {})
      BY <1>9, <3>2, KeptAlike
    <3> QED BY <1>9, <3>1, <3>2, <3>3, KeptWiden, QuietOperations DEF Step
  <2> QED BY <2>1, <2>2
<1> HIDE DEF e6, p5
<1>11. Step(e6, p6, e7, T) /\ e7.nonce[from] > n6 /\ e7 \in Ext
  BY <1>0, <1>10, StepNonce DEF Step
<1> HIDE DEF e7, p6
<1> DEFINE q2 == p1 \o p2
           q3 == q2 \o p3
           q4 == q3 \o p4
           q5 == q4 \o p5
<1>12. Step(e0, q5, e6, T) /\ Step(e0, ts, e7, T)
  <2>1. Step(e0, q2, e2, T)
    BY <1>5, <1>6, StepCompose
  <2> HIDE DEF q2
  <2>2. Step(e0, q3, e3, T)
    BY <1>7, <2>1, StepCompose
  <2> HIDE DEF q3
  <2>3. Step(e0, q4, e4, T)
    BY <1>9, <2>2, StepCompose
  <2> HIDE DEF q4
  <2>4. Step(e0, q5, e6, T)
    BY <1>10, <2>3, StepCompose
  <2>5. ts = q5 \o p6
    BY DEF q4, q3, q2
  <2> HIDE DEF q5, ts
  <2> QED BY <1>11, <2>4, <2>5, StepCompose
<1> HIDE DEF q5, ts
<1>13. from \notin NewAddrs => e7.nonce[from] > e0.nonce[from]
  <2>1. from \notin NewAddrs => n6 >= e0.nonce[from]
    BY <1>0, <1>12 DEF Step, Kept, Climbs
  <2>2. n6 \in Nat /\ e0.nonce[from] \in Nat /\ e7.nonce[from] \in Nat
    BY <1>0, <1>2, <1>10, <1>11, NonceType
  <2> QED BY <1>11, <2>1, <2>2
<1>14. /\ f.entry = e0 /\ f.touches = ts /\ f.tainted = T /\ f.from = from /\ f.kind = "call"
       /\ f.status \in Status
  BY DEF Status
<1> HIDE DEF f
<1>15. Len(frames') = 1 /\ frames'[1] = f
  BY <1>1
<1>16. Quiet(e0, ext') /\ Kept(e0, ts, ext', T)
  BY <1>1, <1>12 DEF Step
<1>17. f.entry = Reset(ext)
  BY <1>14 DEF e0
<1> QED BY <1>1, <1>13, <1>14, <1>15, <1>16, <1>17 DEF Begins

LEMMA BeginCreateTxBegins ==
  ASSUME Inv, NEW from \in Creators, NEW v \in Amounts, BeginCreateTx(from, v)
  PROVE  Begins
<1> DEFINE e0    == Reset(ext)
           n0    == e0.nonce[from]
           new   == CreateAddr[from][n0]
           w     == Pull(e0, from)
           w1    == WarmAddress(w, new)
           e1    == OrDefault(w1, new)
           moves == v > 0 /\ HasFunds(e1, from, v)
           e2    == IF moves THEN Transfer(e1, from, new, v) ELSE e1
           e3    == WarmAddress(e2, from)
           p1    == WarmTouch(w, new)
           p2    == IF moves THEN TransferTouches(e1, from, new) ELSE <<>>
           p3    == WarmTouch(e2, from)
           ts    == p1 \o p2 \o p3
           T     == {new}
           f(st) == [ kind |-> "create", callType |-> "Create", static |-> FALSE,
                      this |-> new, from |-> from, value |-> v, touches |-> ts, status |-> st,
                      entry |-> e0, before |-> e0.balance, tainted |-> T ]
<1>0. /\ ext \in Ext /\ from \in Addr /\ v \in Nat /\ MaxNonce \in Nat
  BY AddressAssumption, BoundAssumption DEF Inv, TypeOK
<1>1. /\ n0 < MaxNonce /\ frames = <<>> /\ ext' = e3
      /\ \E st \in {"running", "stopped"} : frames' = <<f(st)>>
  BY Zenon DEF BeginCreateTx
<1>18. n0 < MaxNonce
  BY <1>1
<1>2. PICK st \in {"running", "stopped"} : frames' = <<f(st)>>
  BY <1>1
<1>3. e0 \in Ext
  BY <1>0, ResetWorld
<1> HIDE DEF e0
<1>4. new \in Addr /\ new \in NewAddrs /\ new \in T
  <2>1. n0 \in Nat
    BY <1>0, <1>3, NonceType
  <2> HIDE DEF n0
  <2>2. n0 \in 0..MaxNonce
    BY <1>0, <1>18, <2>1
  <2> QED BY <1>0, <2>2, AddressAssumption DEF NewAddrs
<1> HIDE DEF n0, new, T
<1>5. Step(e0, <<>>, w, T) /\ w \in Ext
  BY <1>0, <1>3, StepWarm DEF Step
<1> HIDE DEF w
<1>6. Step(e0, p1, e1, T) /\ e1 \in Ext
  <2>1. Step(w, p1, w1, T) /\ w1 \in Ext
    BY <1>4, <1>5, StepWarm DEF Step
  <2> HIDE DEF w1, p1
  <2>2. Step(w1, <<>>, e1, T)
    BY <1>4, <2>1, StepWarm
  <2>3. Step(w, p1, e1, T)
    BY <2>1, <2>2, StepAfter
  <2> QED BY <1>5, <2>2, <2>3, StepBefore DEF Step
<1> HIDE DEF e1, p1
<1>7. Step(e1, p2, e2, T) /\ e2 \in Ext
  <2>1. CASE moves
    <3>1. /\ e1.balance[from] >= v /\ e2 = Transfer(e1, from, new, v)
          /\ p2 = TransferTouches(e1, from, new)
      BY <2>1 DEF HasFunds
    <3> HIDE DEF e2, p2
    <3>2. e2 \in Ext /\ Quiet(e1, e2)
      BY <1>0, <1>4, <1>6, <3>1, TransferWorld, QuietTransfer
    <3>3. /\ e2.nonce = e1.nonce /\ e2.code = e1.code
          /\ e2.balance = [a \in Addr |-> (e1.balance[a] + (IF a = new THEN v ELSE 0))
                                           - (IF a = from THEN v ELSE 0)]
      BY <1>6, <3>1 DEF Transfer, Ext
    <3>4. e1.balance \in [Addr -> Nat]
      BY <1>6 DEF Ext
    <3>5. \A a \in Addr \ {from, new} : e2.balance[a] = e1.balance[a]
      <4>1. ASSUME NEW a \in Addr \ {from, new} PROVE e2.balance[a] = e1.balance[a]
        <5>1. a # from /\ a # new /\ a \in Addr /\ e1.balance[a] \in Nat
          BY <3>4
        <5>2. e2.balance[a] = (e1.balance[a] + 0) - 0
          BY <3>3, <5>1
        <5> QED BY <5>1, <5>2
      <4> QED BY <4>1
    <3> QED BY <1>0, <1>4, <1>6, <3>1, <3>2, <3>3, <3>5, StepTransfer
  <2>2. CASE ~moves
    <3>1. e2 = e1 /\ p2 = <<>>
      BY <2>2
    <3> HIDE DEF e2, p2
    <3>2. Plain(<<>>) /\ Alike(e1, e1) /\ {} \subseteq T /\ <<>> \in Seq(Touch)
      BY DEF Plain, Alike
    <3>3. Kept(e1, <<>>, e1, {})
      BY <1>6, <3>2, KeptAlike
    <3> QED BY <1>6, <3>1, <3>2, <3>3, KeptWiden, QuietOperations DEF Step
  <2> QED BY <2>1, <2>2
<1> HIDE DEF e2, p2, moves
<1>8. Step(e2, p3, e3, T)
  BY <1>0, <1>7, StepWarm
<1> HIDE DEF e3, p3
<1>9. Step(e0, ts, e3, T)
  <2> DEFINE q == p1 \o p2
  <2>1. Step(e0, q, e2, T) /\ ts = q \o p3
    BY <1>6, <1>7, StepCompose
  <2> HIDE DEF q, ts
  <2> QED BY <1>8, <2>1, StepCompose
<1> HIDE DEF ts
<1> DEFINE g == f(st)
<1>10. /\ g.entry = e0 /\ g.touches = ts /\ g.tainted = T /\ g.from = from
       /\ g.kind = "create" /\ g.this = new /\ g.status \in Status
  BY DEF Status
<1>11. frames' = <<g>>
  BY <1>2
<1> HIDE DEF g
<1>12. Len(frames') = 1 /\ frames'[1] = g
  BY <1>11
<1>13. Quiet(e0, ext') /\ Kept(e0, ts, ext', T)
  BY <1>1, <1>9 DEF Step
<1>14. g.entry = Reset(ext)
  BY <1>10 DEF e0
<1> QED BY <1>1, <1>4, <1>10, <1>12, <1>13, <1>14 DEF Begins

-----------------------------------------------------------------------------
(* Every step *)

\* The end of a transaction consumes a nonce.
Drops == Leaves /\ (Depth = 1 => Consumes)

LEMMA NextShape ==
  ASSUME Inv, AInv, Next
  PROVE  Works \/ Calls \/ Drops \/ Begins \/ UNCHANGED <<ext, frames>>
<1>1. ASSUME NEW k \in Keys, SLOAD(k) PROVE Works
  BY <1>1, SLOADWorks
<1>2. ASSUME NEW k \in Keys, NEW v \in Values, SSTORE(k, v) PROVE Works
  BY <1>2, SSTOREWorks
<1>3. ASSUME NEW k \in Keys, NEW v \in Values, TSTORE(k, v) PROVE Works
  BY <1>3, TSTOREWorks
<1>4. ASSUME NEW a \in Operands, ReadAccount(a) PROVE Works
  BY <1>4, ReadAccountWorks
<1>5. ASSUME NEW a \in Operands, SELFDESTRUCT(a) PROVE Works
  BY <1>5, SELFDESTRUCTWorks
<1>6. CASE Stop \/ Halt
  BY <1>6, StopWorks
<1>7. ASSUME NEW a \in Operands, NEW v \in Amounts,
             CALL(a, v) \/ CALLCODE(a, v)
      PROVE  Works \/ Calls
  BY <1>7, CallsShape
<1>8. ASSUME NEW a \in Operands, DELEGATECALL(a)
      PROVE  Works \/ Calls
  <2>1. Executing("DELEGATECALL") /\ DoCall("Delegate", a, Top.value)
    BY <1>8 DEF DELEGATECALL
  <2>2. Top.value \in Nat
    BY <2>1, ExecutingFacts
  <2> QED BY <2>1, <2>2, DoCallShape
<1>9. ASSUME NEW a \in Operands, STATICCALL(a)
      PROVE  Works \/ Calls
  BY <1>9, DoCallShape DEF STATICCALL
<1>10. ASSUME NEW v \in Amounts, CREATE(v) \/ CREATE2(v) PROVE Works \/ Calls
  BY <1>10, CreatesShape
<1>11. CASE CallReverts \/ CreateFails
  <2>1. Depth > 1 /\ Top.status # "running" /\ Undone
    BY <1>11 DEF CallReverts, CreateFails, Ended
  <2>2. Leaves /\ Depth # 1
    BY <2>1, UndoneLeaves, FrameTypes DEF Inv
  <2> QED BY <2>2 DEF Drops
<1>12. CASE CallSucceeds
  <2>1. Leaves /\ Depth # 1
    BY <1>12, CallSucceedsLeaves, FrameTypes DEF Inv, CallSucceeds, Ended
  <2> QED BY <2>1 DEF Drops
<1>13. CASE CreateSucceeds
  <2>1. Leaves /\ Depth > 1
    BY <1>13, CreateSucceedsLeaves DEF CreateSucceeds, Ended
  <2>2. Depth # 1
    BY <2>1, FrameTypes DEF Inv
  <2> QED BY <2>1, <2>2 DEF Drops
<1>14. ASSUME NEW from \in Senders, NEW to \in Operands, NEW v \in Amounts, BeginTx(from, to, v)
       PROVE  Begins
  BY <1>14, BeginTxBegins
<1>15. CASE EndTx
  BY <1>15, EndTxLeaves DEF Drops
<1>16. ASSUME NEW from \in Creators, NEW v \in Amounts, BeginCreateTx(from, v) PROVE Begins
  BY <1>16, BeginCreateTxBegins
<1>17. CASE EndCreateTx
  BY <1>17, EndCreateTxLeaves DEF Drops
<1>18. CASE Finished
  BY <1>18 DEF Finished, vars
<1> QED
  BY <1>1, <1>2, <1>3, <1>4, <1>5, <1>6, <1>7, <1>8, <1>9, <1>10, <1>11, <1>12, <1>13,
     <1>14, <1>15, <1>16, <1>17, <1>18 DEF Next

\* The frames below a step: the n-th has added new to its journal, and the ones
\* before it have added nothing.
LEMMA FramesBelow ==
  ASSUME Inv, AInv, NEW n \in DOMAIN frames, n \in Nat, NEW new, NEW T,
         Grows(n, new, T), Entries(n),
         \A i \in 1..(n - 1) : After(i)' = After(i),
         After(n) \in Ext, After(n)' \in Ext, Kept(After(n), new, After(n)', T)
  PROVE  \A i \in 1..n :
           /\ Kept(frames'[i].entry, frames'[i].touches, After(i)', frames'[i].tainted)
           /\ frames'[i].kind = "create" => frames'[i].this \in NewAddrs
           /\ i = 1 => /\ frames'[i].from \in Senders \cup Creators
                       /\ frames'[i].kind = "call" /\ frames'[i].from \notin NewAddrs =>
                            After(i)'.nonce[frames'[i].from] > frames'[i].entry.nonce[frames'[i].from]
<1> SUFFICES ASSUME NEW i \in 1..n
             PROVE  /\ Kept(frames'[i].entry, frames'[i].touches, After(i)', frames'[i].tainted)
                    /\ frames'[i].kind = "create" => frames'[i].this \in NewAddrs
                    /\ i = 1 => /\ frames'[i].from \in Senders \cup Creators
                                /\ frames'[i].kind = "call" /\ frames'[i].from \notin NewAddrs =>
                                     After(i)'.nonce[frames'[i].from]
                                       > frames'[i].entry.nonce[frames'[i].from]
  OBVIOUS
<1>1. i \in DOMAIN frames /\ frames[i] \in Frame /\ (i = n \/ i \in 1..(n - 1))
  BY FrameTypes DEF Inv
<1>2. /\ frames[i].touches \in Seq(Touch) /\ frames[i].entry \in Ext /\ frames[i].from \in Addr
  BY <1>1, FrameFields
<1>3. /\ frames'[i].entry = frames[i].entry /\ frames'[i].kind = frames[i].kind
      /\ frames'[i].this = frames[i].this /\ frames'[i].from = frames[i].from
  BY DEF Entries
<1>4. /\ Kept(frames[i].entry, frames[i].touches, After(i), frames[i].tainted)
      /\ frames[i].kind = "create" => frames[i].this \in NewAddrs
      /\ i = 1 => /\ frames[i].from \in Senders \cup Creators
                  /\ frames[i].kind = "call" /\ frames[i].from \notin NewAddrs =>
                       After(i).nonce[frames[i].from] > frames[i].entry.nonce[frames[i].from]
  BY <1>1 DEF AInv, Accounts, Creations, Counted
<1>5. CASE i \in 1..(n - 1)
  <2>1. /\ frames'[i].touches = frames[i].touches /\ frames'[i].tainted = frames[i].tainted
        /\ After(i)' = After(i)
    BY <1>5 DEF Grows
  <2> QED BY <1>3, <1>4, <2>1
<1>6. CASE i = n
  <2>1. /\ frames'[i].touches = frames[i].touches \o new /\ new \in Seq(Touch)
        /\ frames'[i].tainted = frames[i].tainted \cup T
    BY <1>6 DEF Grows
  <2>2. After(i) \in Ext /\ After(i)' \in Ext /\ Kept(After(i), new, After(i)', T)
    BY <1>6
  <2> DEFINE e == frames[i].entry
             p == frames[i].touches
             U == frames[i].tainted
             b == After(i)
             c == After(i)'
             x == frames[i].from
  <2>3. /\ e \in Ext /\ b \in Ext /\ c \in Ext /\ p \in Seq(Touch) /\ new \in Seq(Touch)
        /\ Kept(e, p, b, U) /\ Kept(b, new, c, T) /\ x \in Addr
    BY <1>2, <1>4, <2>1, <2>2
  <2>4. x \notin NewAddrs /\ b.nonce[x] > e.nonce[x] => c.nonce[x] > e.nonce[x]
    <3> HIDE DEF e, b, c, x, p, U
    <3>1. e.nonce[x] \in Nat /\ b.nonce[x] \in Nat /\ c.nonce[x] \in Nat
      BY <2>3, NonceType
    <3>2. x \notin NewAddrs => c.nonce[x] >= b.nonce[x]
      BY <2>3 DEF Kept, Climbs
    <3> QED BY <3>1, <3>2
  <2>5. Kept(e, p \o new, c, U \cup T)
    <3> HIDE DEF e, b, c, x, p, U
    <3> QED BY <2>3, KeptCompose
  <2>6. i = 1 => /\ x \in Senders \cup Creators
                 /\ frames[i].kind = "call" /\ x \notin NewAddrs => c.nonce[x] > e.nonce[x]
    BY <1>4, <2>4
  <2> QED BY <1>3, <1>4, <2>1, <2>5, <2>6
<1> QED BY <1>1, <1>5, <1>6

LEMMA AInvNext ==
  ASSUME Inv, AInv, Inv', Works \/ Calls \/ Leaves \/ Begins \/ UNCHANGED <<ext, frames>>
  PROVE  AInv'
<1> DEFINE Good(i) ==
             /\ Kept(frames'[i].entry, frames'[i].touches, After(i)', frames'[i].tainted)
             /\ frames'[i].kind = "create" => frames'[i].this \in NewAddrs
             /\ i = 1 => /\ frames'[i].from \in Senders \cup Creators
                         /\ frames'[i].kind = "call" /\ frames'[i].from \notin NewAddrs =>
                              After(i)'.nonce[frames'[i].from] > frames'[i].entry.nonce[frames'[i].from]
<1>0. (\A i \in DOMAIN frames' : Good(i)) => AInv'
  BY DEF AInv, Accounts, Creations, Counted
<1>1. /\ Depth \in Nat /\ DOMAIN frames = 1..Depth /\ ext \in Ext /\ ext' \in Ext
      /\ Depth' = Len(frames') /\ DOMAIN frames' = 1..Depth' /\ Depth' \in Nat
  <2>1. frames' \in Seq(Frame)
    BY DEF Inv, TypeOK
  <2> QED BY <2>1, FrameTypes DEF Inv, TypeOK, Depth
<1> HIDE DEF Good
<1>a. PICK d \in Nat : d = Depth
  BY <1>1
<1>2. CASE Works
  <2>1. /\ Depth' = d /\ Entries(d) /\ d > 0
    BY <1>1, <1>2, <1>a DEF Works, Depth
  <2>2. PICK new, T : Grows(d, new, T) /\ Kept(ext, new, ext', T)
    BY <1>2, <1>a DEF Works
  <2>3. After(d) = ext /\ After(d)' = ext'
    BY <1>a, <2>1 DEF After
  <2>4. \A i \in 1..(d - 1) : After(i)' = After(i)
    <3> SUFFICES ASSUME NEW i \in 1..(d - 1) PROVE After(i)' = After(i)
      OBVIOUS
    <3>1. i # d /\ i + 1 \in 1..d
      BY <1>a
    <3> QED BY <1>a, <2>1, <3>1 DEF After, Entries
  <2>5. d \in DOMAIN frames
    BY <1>1, <1>a, <2>1
  <2>6. \A i \in 1..d : Good(i)
    BY <1>1, <1>a, <2>1, <2>2, <2>3, <2>4, <2>5, FramesBelow DEF Good
  <2> QED BY <1>0, <1>1, <2>1, <2>6
<1>3. CASE Calls
  <2>1. /\ Depth' = d + 1 /\ Entries(d) /\ d > 0
    BY <1>1, <1>3, <1>a DEF Calls, Depth
  <2> DEFINE f == frames'[d + 1]
  <2>2. PICK new, T : Grows(d, new, T) /\ Kept(ext, new, f.entry, T)
    BY <1>3, <1>a DEF Calls
  <2>3. /\ Kept(f.entry, f.touches, ext', f.tainted)
        /\ f.kind = "create" => f.this \in NewAddrs
    BY <1>3, <1>a DEF Calls
  <2>4. d \in DOMAIN frames /\ d # Depth' /\ d + 1 = Depth' /\ d + 1 # 1
    BY <1>1, <1>a, <2>1
  <2>5. After(d) = ext /\ After(d)' = f.entry /\ After(d + 1)' = ext'
    BY <1>a, <2>4 DEF After
  <2>6. \A i \in 1..(d - 1) : After(i)' = After(i)
    <3> SUFFICES ASSUME NEW i \in 1..(d - 1) PROVE After(i)' = After(i)
      OBVIOUS
    <3>1. i # d /\ i # Depth' /\ i + 1 \in 1..d
      BY <1>1, <2>1
    <3> QED BY <1>a, <2>1, <3>1 DEF After, Entries
  <2>7. f.entry \in Ext
    <3>1. frames' \in Seq(Frame) /\ d + 1 \in DOMAIN frames'
      BY <1>1, <2>1 DEF Inv, TypeOK
    <3>2. f \in Frame
      BY <3>1
    <3> QED BY <3>2, FrameFields
  <2>8. \A i \in 1..d : Good(i)
    <3> HIDE DEF f
    <3> QED BY <1>1, <2>1, <2>2, <2>4, <2>5, <2>6, <2>7, FramesBelow DEF Good
  <2>9. Good(d + 1)
    BY <2>3, <2>4, <2>5 DEF Good
  <2>10. \A i \in 1..(d + 1) : i \in 1..d \/ i = d + 1
    OBVIOUS
  <2> QED BY <1>0, <1>1, <2>1, <2>8, <2>9, <2>10
<1>4. CASE Leaves
  <2>1. /\ Depth' = d - 1 /\ Entries(d - 1) /\ d > 0
    BY <1>1, <1>4, <1>a DEF Leaves, Depth
  <2>2. CASE d = 1
    <3>1. DOMAIN frames' = {}
      BY <1>1, <2>1, <2>2
    <3> QED BY <1>0, <3>1
  <2>3. CASE d > 1
    <3>0. PICK n \in Nat : n = d - 1
      BY <2>3
    <3>1. n \in DOMAIN frames /\ n # d /\ n = Depth' /\ n + 1 = d /\ d \in DOMAIN frames
      BY <1>1, <1>a, <2>1, <2>3, <3>0
    <3>2. PICK new, T : Grows(n, new, T) /\ Kept(Top.entry, new, ext', T)
      BY <1>4, <1>a, <2>3, <3>0 DEF Leaves
    <3>3. Entries(n)
      BY <2>1, <3>0
    <3>4. After(n) = Top.entry /\ After(n)' = ext'
      BY <1>a, <3>1 DEF After, Top
    <3>5. \A i \in 1..(n - 1) : After(i)' = After(i)
      <4> SUFFICES ASSUME NEW i \in 1..(n - 1) PROVE After(i)' = After(i)
        OBVIOUS
      <4>1. i # d /\ i # Depth' /\ i + 1 \in 1..n
        BY <1>1, <3>1
      <4> QED BY <1>a, <3>3, <4>1 DEF After, Entries
    <3>6. Top.entry \in Ext
      BY <1>a, <3>1, FrameTypes, FrameFields DEF Inv, Top
    <3>7. \A i \in 1..n : Good(i)
      BY <1>1, <3>1, <3>2, <3>3, <3>4, <3>5, <3>6, FramesBelow DEF Good
    <3> QED BY <1>0, <1>1, <3>1, <3>7
  <2> QED BY <1>1, <2>1, <2>2, <2>3
<1>5. CASE Begins
  <2>1. Depth' = 1 /\ DOMAIN frames' = {1}
    BY <1>1, <1>5 DEF Begins
  <2>2. After(1)' = ext'
    BY <2>1 DEF After
  <2>3. Good(1)
    BY <1>5, <2>2 DEF Begins, Good
  <2> QED BY <1>0, <2>1, <2>3
<1>6. CASE UNCHANGED <<ext, frames>>
  BY <1>6 DEF AInv, Accounts, Creations, Counted, After, Depth
<1> QED BY <1>2, <1>3, <1>4, <1>5, <1>6

-----------------------------------------------------------------------------
(* The storage before the transaction *)

\* With a remote node, every value noted in original is the one the slot had when
\* the transaction began, and a slot with none still has that value, now and in
\* every world a call under way was entered with.
Originals ==
  \A i \in DOMAIN frames : \A s \in Slots :
    /\ ext.original[s] \in {None, frames[1].entry.storage[s]}
    /\ ext.original[s] = None =>
         /\ ext.storage[s] = frames[1].entry.storage[s]
         /\ frames[i].entry.storage[s] = frames[1].entry.storage[s]

LEMMA OriginalsNext ==
  ASSUME Inv, Inv', Remote, Originals,
         Works \/ Calls \/ Leaves \/ Begins \/ UNCHANGED <<ext, frames>>
  PROVE  Originals'
<1>1. /\ Depth \in Nat /\ DOMAIN frames = 1..Depth /\ ext \in Ext /\ ext' \in Ext
      /\ DOMAIN frames' = 1..Len(frames') /\ Len(frames') \in Nat
  <2>1. frames' \in Seq(Frame)
    BY DEF Inv, TypeOK
  <2> QED BY <2>1, FrameTypes DEF Inv, TypeOK, Depth
<1>2. SUFFICES ASSUME NEW i \in 1..Len(frames'), NEW s \in Slots
               PROVE  /\ ext'.original[s] \in {None, frames'[1].entry.storage[s]}
                      /\ ext'.original[s] = None =>
                           /\ ext'.storage[s] = frames'[1].entry.storage[s]
                           /\ frames'[i].entry.storage[s] = frames'[1].entry.storage[s]
  BY <1>1 DEF Originals
<1>3. CASE Works
  <2>1. Len(frames') = Depth /\ Entries(Depth) /\ Noted(ext, ext')
    BY <1>3 DEF Works, Small
  <2>2. i \in 1..Depth /\ 1 \in 1..Depth
    BY <1>1, <2>1
  <2>3. frames'[i].entry = frames[i].entry /\ frames'[1].entry = frames[1].entry
    BY <2>1, <2>2 DEF Entries
  <2>4. /\ ext.original[s] \in {None, frames[1].entry.storage[s]}
        /\ ext.original[s] = None =>
             /\ ext.storage[s] = frames[1].entry.storage[s]
             /\ frames[i].entry.storage[s] = frames[1].entry.storage[s]
    BY <1>1, <2>2 DEF Originals
  <2>5. \/ ext'.original[s] = ext.original[s]
           /\ (ext'.storage[s] = ext.storage[s] \/ ext.original[s] # None)
        \/ ext'.original[s] = ext.storage[s] /\ ext.original[s] = None
    BY <2>1 DEF Noted
  <2>6. ext.storage[s] \in Values
    BY <1>1 DEF Ext
  <2> QED BY <2>3, <2>4, <2>5, <2>6, NoneAssumption
<1>4. CASE Calls
  <2> DEFINE f == frames'[Depth + 1].entry
  <2>1. /\ Len(frames') = Depth + 1 /\ Entries(Depth) /\ frames # <<>>
        /\ Quiet(ext, f) /\ Quiet(f, ext')
    BY <1>4 DEF Calls
  <2>2. (i \in 1..Depth \/ i = Depth + 1) /\ 1 \in 1..Depth
    <3>1. Depth > 0
      BY <1>1, <2>1, FrameTypes DEF Inv
    <3> QED BY <1>1, <2>1, <3>1
  <2>3. /\ frames'[1].entry = frames[1].entry
        /\ i \in 1..Depth => frames'[i].entry = frames[i].entry
    BY <2>1, <2>2 DEF Entries
  <2>4. /\ ext.original[s] \in {None, frames[1].entry.storage[s]}
        /\ ext.original[s] = None =>
             /\ ext.storage[s] = frames[1].entry.storage[s]
             /\ i \in 1..Depth => frames[i].entry.storage[s] = frames[1].entry.storage[s]
    BY <1>1, <2>2 DEF Originals
  <2>5. f.storage = ext.storage /\ ext'.storage = ext.storage /\ ext'.original = ext.original
    BY <2>1 DEF Quiet
  <2>6. i = Depth + 1 => frames'[i].entry = f
    OBVIOUS
  <2> HIDE DEF f
  <2> QED BY <2>2, <2>3, <2>4, <2>5, <2>6
<1>5. CASE Leaves
  <2>1. /\ Len(frames') = Depth - 1 /\ Entries(Depth - 1) /\ ext'.original = ext.original
        /\ ext'.storage \in {ext.storage, Top.entry.storage}
    BY <1>5 DEF Leaves, WorldOf
  <2>2. i \in 1..(Depth - 1) /\ 1 \in 1..(Depth - 1) /\ {1, i, Depth} \subseteq 1..Depth
    BY <1>1, <2>1
  <2>3. frames'[i].entry = frames[i].entry /\ frames'[1].entry = frames[1].entry
    BY <2>1, <2>2 DEF Entries
  <2>4. /\ ext.original[s] \in {None, frames[1].entry.storage[s]}
        /\ ext.original[s] = None =>
             /\ ext.storage[s] = frames[1].entry.storage[s]
             /\ frames[i].entry.storage[s] = frames[1].entry.storage[s]
             /\ Top.entry.storage[s] = frames[1].entry.storage[s]
    BY <1>1, <2>2 DEF Originals, Top
  <2> QED BY <2>1, <2>3, <2>4
<1>6. CASE Begins
  <2>1. /\ Len(frames') = 1 /\ frames'[1].entry = Reset(ext) /\ Quiet(Reset(ext), ext')
    BY <1>6 DEF Begins
  <2>2. /\ ext'.storage = frames'[1].entry.storage /\ ext'.original[s] = None
    BY <1>1, <2>1, ResetKeeps DEF Quiet
  <2>3. i = 1
    BY <2>1
  <2> QED BY <2>2, <2>3
<1>7. CASE UNCHANGED <<ext, frames>>
  BY <1>1, <1>7 DEF Originals, Depth
<1> QED BY <1>3, <1>4, <1>5, <1>6, <1>7

-----------------------------------------------------------------------------
(* Every reachable state *)

LEMMA AInvInit ==
  ASSUME Init
  PROVE  AInv /\ Originals
<1>1. DOMAIN frames = {}
  BY DEF Init
<1> QED BY <1>1 DEF AInv, Accounts, Creations, Counted, Originals

LEMMA ShapeOfStep ==
  ASSUME Inv, AInv, [Next]_vars
  PROVE  Works \/ Calls \/ Drops \/ Begins \/ UNCHANGED <<ext, frames>>
BY NextShape DEF vars

\* In every reachable state the journal of every call under way answers for the
\* accounts that are not written behind its back: undoing it gives the balances,
\* codes and nonces of its entry, and no nonce has gone down.
THEOREM WorldInvariance == Spec => [](Inv /\ AInv)
<1>1. Init => Inv /\ AInv
  BY InvInit, AInvInit
<1>2. Inv /\ AInv /\ [Next]_vars => (Inv /\ AInv)'
  <2> SUFFICES ASSUME Inv, AInv, [Next]_vars
               PROVE  Inv' /\ AInv'
    OBVIOUS
  <2>1. Inv'
    BY InvNext
  <2>2. Works \/ Calls \/ Leaves \/ Begins \/ UNCHANGED <<ext, frames>>
    BY ShapeOfStep DEF Drops
  <2> QED BY <2>1, <2>2, AInvNext
<1> QED BY <1>1, <1>2, PTL DEF Spec

\* What Revert says of a world, location by location, is what the loop of
\* Evm::revert makes of it, touch by touch, of whatever the innermost call has done.
THEOREM AlwaysReverseReplay == Spec => []RevertIsReverseReplay
<1>1. Inv /\ AInv => RevertIsReverseReplay
  <2> SUFFICES ASSUME Inv, AInv, frames # <<>>
               PROVE  Revert(Top.touches, ext) = ReverseReplay(Top.touches, ext)
    BY DEF RevertIsReverseReplay
  <2>1. Top.touches \in Seq(Touch) /\ ext \in Ext
    BY TopFacts
  <2> QED BY <2>1, RevertIsTheLoop
<1> QED BY <1>1, WorldInvariance, PTL

\* Evm::revert, applied to the journal of any call at any time, gives every account
\* that SELFDESTRUCT, a creation or the endowment of one has not written behind the
\* journal's back the balance, nonce and code it had when the call was entered.
THEOREM AccountsAlwaysRestorable == Spec => []AccountsRestorable
<1>1. Inv /\ AInv => AccountsRestorable
  BY DEF AInv, Accounts, AccountsRestorable, Kept, Restores
<1> QED BY <1>1, WorldInvariance, PTL

\* Frames with journals implement calls that copy the world and put the copy back:
\* every step of apply, execute, call, create and of an opcode is a step of
\* Snapshots, or changes nothing that Snapshots can see.
THEOREM FramesImplementSnapshots == Spec => ImplementsSnapshots
<1>1. Init => Snap!Init
  <2> SUFFICES ASSUME Init PROVE Snap!Init
    OBVIOUS
  <2>1. frames = <<>> /\ Len(frames) = 0 /\ ext.destroyed = {}
    BY DEF Init
  <2>2. ext \in Ext
    BY InvInit DEF Inv, TypeOK
  <2>3. WorldOf(ext) \in Snap!World
    BY <2>2 DEF WorldOf, Snap!World, Ext
  <2>4. Saved = <<>> /\ Statuses = <<>>
    BY <2>1 DEF Saved, Statuses
  <2> QED BY <2>1, <2>3, <2>4 DEF Snap!Init, Saved, Statuses
<1>2. Inv /\ AInv /\ [Next]_vars => [Snap!Next]_(Snap!sVars)
  <2> SUFFICES ASSUME Inv, AInv, [Next]_vars
               PROVE  Snap!Next \/ UNCHANGED Snap!sVars
    OBVIOUS
  <2>1. CASE Works
    BY <2>1, WorksIsWork DEF Snap!Next
  <2>2. CASE Calls
    BY <2>2, CallsIsSave DEF Snap!Next
  <2>3. CASE Drops
    BY <2>3, LeavesIsDrop DEF Snap!Next, Drops
  <2>4. CASE Begins
    BY <2>4, BeginsIsBegin DEF Snap!Next
  <2>5. CASE UNCHANGED <<ext, frames>>
    BY <2>5 DEF Snap!sVars, WorldOf
  <2> QED BY <2>1, <2>2, <2>3, <2>4, <2>5, ShapeOfStep
<1> QED BY <1>1, <1>2, WorldInvariance, PTL DEF Spec, ImplementsSnapshots, Snap!Spec

\* With a remote node, the value Ext::get notes in original, against which SSTORE
\* prices a write, is the one the slot had before the transaction, whatever the
\* calls in between read, wrote and reverted.
THEOREM OriginalAlwaysTxStart ==
  ASSUME Remote
  PROVE  Spec => []OriginalIsTxStart
<1>1. Init => Inv /\ AInv /\ Originals
  BY InvInit, AInvInit
<1>2. Inv /\ AInv /\ Originals /\ [Next]_vars => Originals'
  <2> SUFFICES ASSUME Inv, AInv, Originals, [Next]_vars
               PROVE  Originals'
    OBVIOUS
  <2>1. Inv'
    BY InvNext
  <2>2. Works \/ Calls \/ Leaves \/ Begins \/ UNCHANGED <<ext, frames>>
    BY ShapeOfStep DEF Drops
  <2> QED BY <2>1, <2>2, OriginalsNext
<1>3. Originals => OriginalIsTxStart
  BY DEF Originals, OriginalIsTxStart
<1> QED BY <1>1, <1>2, <1>3, WorldInvariance, PTL DEF Spec

\* A transaction uses up a nonce of its signer, whether it succeeds or reverts and
\* whatever its calls did to the signer's account in between, unless the address of
\* a signer is one that Address::create or Address::create2 gives a new account.
THEOREM NonceAlwaysConsumed ==
  ASSUME \A a \in Senders \cup Creators : a \notin NewAddrs
  PROVE  Spec => NonceConsumed
<1> DEFINE A == Depth = 1 /\ frames' = <<>> =>
                  ext'.nonce[Top.from] > Top.entry.nonce[Top.from]
<1>1. Inv /\ AInv /\ [Next]_vars => [A]_vars
  <2> SUFFICES ASSUME Inv, AInv, [Next]_vars, Depth = 1, frames' = <<>>
               PROVE  ext'.nonce[Top.from] > Top.entry.nonce[Top.from]
    OBVIOUS
  <2>1. Len(frames) = 1 /\ Len(frames') = 0 /\ frames # <<>>
    BY DEF Depth
  <2>2. Drops
    BY <2>1, ShapeOfStep DEF Works, Calls, Begins
  <2>3. Top.from \in Senders \cup Creators
    <3>1. 1 \in DOMAIN frames /\ Top = frames[1]
      BY <2>1, FrameTypes DEF Inv, Top
    <3> QED BY <3>1 DEF AInv, Counted
  <2> QED BY <2>2, <2>3 DEF Drops, Consumes
<1> QED BY <1>1, WorldInvariance, PTL DEF Spec, NonceConsumed
=============================================================================
