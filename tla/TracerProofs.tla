----------------------------- MODULE TracerProofs -----------------------------
(***************************************************************************)
(* The trace of a transaction (module Tracer), for any limit of the depth  *)
(* and any number of instructions.  The trace as it will be is a recursive *)
(* function of the buffers under way; the invariant says that some         *)
(* function with its equations ends in a good trace, every step shows the  *)
(* next one, and that there is only one is shown once, by induction.       *)
(***************************************************************************)
EXTENDS Tracer, SequenceTheorems, WellFoundedInduction, TLAPS

-----------------------------------------------------------------------------
(* The invariant *)

Kinds == {"call", "op", "return", "halt", "account", "fee"}

Events == [kind: Kinds, depth: Nat, op: Nat, reverted: BOOLEAN]

Ran == {"plain", "call", "unpriced"}

Statuses == {"running", "stopped", "reverted"}

Frame == [events: Seq(Events), op: Nat, create: BOOLEAN, steps: Nat, status: Statuses]

\* The event of the instruction that the call at depth d returns to.
Gap(d, fr) == IF d = 1 THEN <<>> ELSE << Event("op", d - 1, fr[d].op, FALSE) >>

\* The trace a goes on with the buffer at depth d.
Joined(a, d, fr) == a \o Gap(d, fr) \o fr[d].events

\* f is the function upto of Whole.
Parts(f, tr, fr) ==
  f = [d \in 0..Len(fr) |->
         IF d = 0 THEN tr ELSE Joined(f[d - 1], d, fr)]

\* The trace as it will be is w.
Ends(tr, fr, w) == \E f : Parts(f, tr, fr) /\ f[Len(fr)] = w

\* What CallTree says of two events in a row, and of all of them.
Follows(a, b, r) ==
  /\ b.kind = "call" /\ b.depth > 1 =>
       a.kind = "op" /\ r[a.op] = "call" /\ a.depth = b.depth - 1
  /\ b.depth > a.depth => b.kind = "call"
  /\ a.kind = "halt" => b.depth < a.depth \/ b.op = 0

Tree(w, r) ==
  /\ \A i \in DOMAIN w : w[i].depth > DepthLimit => w[i].kind = "call"
  /\ \A i \in 1..(Len(w) - 1) : Follows(w[i], w[i + 1], r)

\* What ProgramOrder says.
Ops(w) == {i \in DOMAIN w : w[i].kind = "op"}

Order(w, r) ==
  /\ \A i, j \in Ops(w) : i < j => w[i].op < w[j].op
  /\ {w[i].op : i \in Ops(w)} = {n \in DOMAIN r : r[n] # "unpriced"}

\* The last event is of the innermost call under way or of one within it, and if
\* it is a halt that call goes on no more.
Last(w, fr) ==
  LET D == Len(fr)
      e == w[Len(w)]
  IN  D > 0 => /\ w # <<>> /\ e.depth >= D
               /\ e.kind = "halt" => e.depth > D \/ fr[D].status = "reverted"

Good(w, fr, r) == w \in Seq(Events) /\ Tree(w, r) /\ Order(w, r) /\ Last(w, fr)

\* Callers wait in the middle of a call, and nothing runs beyond the limit.
Stacked(fr) ==
  /\ fr \in Seq(Frame)
  /\ \A d \in 1..Len(fr) : /\ d < Len(fr) => fr[d].status = "running"
                           /\ d > DepthLimit => fr[d].status = "reverted"

\* Before the call of a transaction runs, nothing has been executed.
Prelude(e) == e.op = 0 /\ e.kind \notin {"call", "op", "halt"} /\ ~e.reverted

Flow ==
  /\ phase \in {"idle", "calling", "creating", "called", "reverted", "created"}
  /\ Len(frames) > 0 <=> phase \in {"calling", "creating"}
  /\ phase \in {"idle", "creating"} => trace = <<>>
  /\ phase = "idle" => ran = <<>>
  /\ phase = "calling" => \A i \in DOMAIN trace : Prelude(trace[i])

Inv ==
  /\ trace \in Seq(Events) /\ ran \in Seq(Ran) /\ Stacked(frames) /\ Flow /\ FlagsAgree
  /\ \E w : Ends(trace, frames, w) /\ Good(w, frames, ran)

-----------------------------------------------------------------------------
(* The trace as it will be *)

LEMMA LeastElement ==
  ASSUME NEW I, I \subseteq Nat, I # {}
  PROVE  \E i \in I : \A j \in I : i <= j
<1> DEFINE R == OpToRel(<, Nat)
<1>1. IsWellFoundedOn(R, Nat)
  BY NatLessThanWellFounded
<1>2. PICK i \in I : \A j \in I : ~(<<j, i>> \in R)
  <2> HIDE DEF R
  <2> QED BY <1>1, WFMin, Zenon
<1>3. ASSUME NEW j \in I
      PROVE  i <= j
  <2>1. ~(j < i)
    BY <1>2 DEF OpToRel
  <2> QED BY <2>1
<1> QED BY <1>3

\* Induction, on membership in a set.
LEMMA SetInduction ==
  ASSUME NEW S, 0 \in S, \A n \in Nat : n \in S => n + 1 \in S
  PROVE  Nat \subseteq S
<1> SUFFICES ASSUME Nat \ S # {}
             PROVE  FALSE
  OBVIOUS
<1>1. PICK m \in Nat \ S : \A j \in Nat \ S : m <= j
  BY LeastElement
<1>2. m # 0 /\ m - 1 \in Nat
  BY <1>1
<1>3. m - 1 \in S
  BY <1>1, <1>2
<1> QED BY <1>1, <1>2, <1>3

\* The equations of upto have one solution.
LEMMA PartsUnique ==
  ASSUME NEW tr, NEW fr, Len(fr) \in Nat, NEW f, NEW g, Parts(f, tr, fr), Parts(g, tr, fr)
  PROVE  f = g
<1> DEFINE Agree == {d \in Nat : d <= Len(fr) => f[d] = g[d]}
<1>1. 0 \in Agree
  BY DEF Parts
<1>2. ASSUME NEW d \in Nat, d \in Agree
      PROVE  d + 1 \in Agree
  <2> SUFFICES ASSUME d + 1 <= Len(fr)
               PROVE  f[d + 1] = g[d + 1]
    OBVIOUS
  <2>1. d + 1 \in 0..Len(fr) /\ d + 1 # 0 /\ (d + 1) - 1 = d /\ f[d] = g[d]
    BY <1>2
  <2> DEFINE e == d + 1
  <2>2. f[e] = Joined(f[e - 1], e, fr) /\ g[e] = Joined(g[e - 1], e, fr)
    <3>1. e \in 0..Len(fr) /\ e # 0
      BY <2>1
    <3> HIDE DEF e
    <3> QED BY <3>1 DEF Parts
  <2> QED BY <2>1, <2>2
<1>3. Nat \subseteq Agree
  <2> HIDE DEF Agree
  <2> QED BY <1>1, <1>2, SetInduction
<1>4. \A d \in 0..Len(fr) : f[d] = g[d]
  BY <1>3
<1>5. f = [d \in 0..Len(fr) |-> f[d]] /\ g = [d \in 0..Len(fr) |-> g[d]]
  BY DEF Parts
<1> QED BY <1>4, <1>5

LEMMA WholeIs ==
  ASSUME Len(frames) \in Nat, NEW w, Ends(trace, frames, w)
  PROVE  Whole = w
<1>0. PICK f : Parts(f, trace, frames) /\ f[Len(frames)] = w
  BY DEF Ends
<1> DEFINE g == CHOOSE h : Parts(h, trace, frames)
<1>1. Parts(g, trace, frames)
  BY <1>0
<1>2. Whole = g[Len(frames)]
  BY DEF Whole, Parts, Joined, Gap, Depth
<1> HIDE DEF g
<1>3. f = g
  BY <1>0, <1>1, PartsUnique
<1> QED BY <1>0, <1>2, <1>3

-----------------------------------------------------------------------------
(* A trace that grows *)

\* Further instructions do not change what has run.
Extends(r, r2) == \A n \in DOMAIN r : n \in DOMAIN r2 /\ r2[n] = r[n]

\* Events of the call at depth D that are no calls; a halt is the last.
Block(es, D) ==
  /\ es \in Seq(Events)
  /\ \A i \in DOMAIN es : /\ es[i].depth = D /\ es[i].kind # "call"
                          /\ es[i].kind = "halt" => i = Len(es)

\* The event e may come after w.
Ready(w, e) ==
  w # <<>> => LET a == w[Len(w)]
              IN  a.depth >= e.depth /\ (a.kind = "halt" => a.depth > e.depth \/ e.op = 0)

\* No event of an instruction, and the one of instruction n.
Silent(es) == \A i \in DOMAIN es : es[i].kind # "op"

Traces(es, n) ==
  \E k \in DOMAIN es : /\ es[k].kind = "op" /\ es[k].op = n
                       /\ \A i \in DOMAIN es : i # k => es[i].kind # "op"

LEMMA ConcatFacts ==
  ASSUME NEW S, NEW s \in Seq(S), NEW t \in Seq(S)
  PROVE  /\ s \o t \in Seq(S) /\ Len(s \o t) = Len(s) + Len(t)
         /\ Len(s) \in Nat /\ Len(t) \in Nat
         /\ DOMAIN s = 1..Len(s) /\ DOMAIN t = 1..Len(t) /\ DOMAIN (s \o t) = 1..(Len(s) + Len(t))
         /\ \A i \in 1..Len(s) : (s \o t)[i] = s[i]
         /\ \A i \in 1..Len(t) : (s \o t)[Len(s) + i] = t[i]
BY ConcatProperties, LenProperties

LEMMA EventsConcat ==
  ASSUME NEW s \in Seq(Events), NEW t \in Seq(Events)
  PROVE  /\ s \o t \in Seq(Events) /\ Len(s \o t) = Len(s) + Len(t)
         /\ Len(s) \in Nat /\ Len(t) \in Nat
         /\ DOMAIN s = 1..Len(s) /\ DOMAIN t = 1..Len(t) /\ DOMAIN (s \o t) = 1..(Len(s) + Len(t))
         /\ \A i \in 1..Len(s) : (s \o t)[i] = s[i]
         /\ \A i \in 1..Len(t) : (s \o t)[Len(s) + i] = t[i]
BY ConcatProperties, LenProperties

LEMMA Associative ==
  ASSUME NEW a \in Seq(Events), NEW b \in Seq(Events), NEW c \in Seq(Events)
  PROVE  (a \o b) \o c = a \o (b \o c)
<1> DEFINE S == Seq(Events)
<1>1. \A s \in Seq(Events), t \in Seq(Events), u \in Seq(Events) : (s \o t) \o u = s \o (t \o u)
  BY ConcatAssociative
<1> QED BY <1>1

LEMMA FollowsOn ==
  ASSUME NEW a, NEW b, NEW r, NEW r2, Extends(r, r2), Follows(a, b, r),
         a.kind = "op" => a.op \in DOMAIN r
  PROVE  Follows(a, b, r2)
BY DEF Follows, Extends

LEMMA TreeOn ==
  ASSUME NEW w \in Seq(Events), NEW r, NEW r2, Tree(w, r), Order(w, r), Extends(r, r2)
  PROVE  Tree(w, r2)
<1>1. \A i \in DOMAIN w : w[i].kind = "op" => w[i].op \in DOMAIN r
  BY DEF Order, Ops
<1>2. ASSUME NEW i \in 1..(Len(w) - 1)
      PROVE  Follows(w[i], w[i + 1], r2)
  <2>1. i \in DOMAIN w /\ Follows(w[i], w[i + 1], r)
    BY LenProperties DEF Tree
  <2> QED BY <1>1, <2>1, FollowsOn
<1> QED BY <1>2 DEF Tree

\* Two traces, the second of which may go on after the first.
LEMMA TreeConcat ==
  ASSUME NEW w \in Seq(Events), NEW v \in Seq(Events), NEW r, Tree(w, r), Tree(v, r),
         w # <<>> /\ v # <<>> => Follows(w[Len(w)], v[1], r)
  PROVE  w \o v \in Seq(Events) /\ Tree(w \o v, r)
<1> DEFINE x == w \o v
           m == Len(w)
           n == Len(v)
<1>1. /\ x \in Seq(Events) /\ Len(x) = m + n /\ m \in Nat /\ n \in Nat
      /\ DOMAIN w = 1..m /\ DOMAIN v = 1..n /\ DOMAIN x = 1..(m + n)
      /\ \A i \in 1..m : x[i] = w[i]
      /\ \A i \in 1..n : x[m + i] = v[i]
  BY EventsConcat
<1>2. w = <<>> <=> m = 0
  BY EmptySeq
<1>3. v = <<>> <=> n = 0
  BY EmptySeq
<1> HIDE DEF x, m, n
<1>4. ASSUME NEW i \in 1..(m + n), x[i].depth > DepthLimit
      PROVE  x[i].kind = "call"
  <2>1. CASE i <= m
    BY <1>1, <1>4, <2>1 DEF Tree
  <2>2. CASE ~(i <= m)
    <3>1. PICK j \in 1..n : i = m + j
      <4>1. i - m \in 1..n /\ i = m + (i - m)
        BY <1>1, <2>2
      <4> QED BY <4>1
    <3>2. x[i] = v[j] /\ j \in DOMAIN v
      BY <1>1, <3>1
    <3> QED BY <1>4, <3>2 DEF Tree
  <2> QED BY <2>1, <2>2
<1>5. ASSUME NEW i \in 1..(Len(x) - 1)
      PROVE  Follows(x[i], x[i + 1], r)
  <2>1. CASE i < m
    <3>1. i \in 1..(m - 1) /\ x[i] = w[i] /\ x[i + 1] = w[i + 1]
      BY <1>1, <2>1
    <3> QED BY <3>1 DEF Tree, m
  <2>2. CASE i = m
    <3>1. x[i] = w[m] /\ x[i + 1] = v[1] /\ m # 0 /\ n # 0
      BY <1>1, <2>2
    <3> QED BY <1>2, <1>3, <3>1 DEF m
  <2>3. CASE i > m
    <3>1. PICK j \in 1..(n - 1) : i = m + j
      <4>1. i - m \in 1..(n - 1) /\ i = m + (i - m)
        BY <1>1, <2>3
      <4> QED BY <4>1
    <3>2. i + 1 = m + (j + 1) /\ j \in 1..n /\ j + 1 \in 1..n
      BY <1>1, <3>1
    <3>3. x[i] = v[j] /\ x[i + 1] = v[j + 1]
      BY <1>1, <3>1, <3>2
    <3> QED BY <3>1, <3>3 DEF Tree, n
  <2> QED BY <1>1, <2>1, <2>2, <2>3
<1> QED BY <1>1, <1>4, <1>5 DEF Tree, x

LEMMA BlockTree ==
  ASSUME NEW D \in Nat, D <= DepthLimit, NEW es, Block(es, D), NEW r
  PROVE  Tree(es, r)
<1> DEFINE n == Len(es)
<1>1. n \in Nat /\ DOMAIN es = 1..n
  BY LenProperties DEF Block
<1>2. \A i \in DOMAIN es : ~(es[i].depth > DepthLimit)
  BY LimitAssumption DEF Block
<1>3. ASSUME NEW i \in 1..(n - 1)
      PROVE  Follows(es[i], es[i + 1], r)
  <2> HIDE DEF n
  <2>1. i \in DOMAIN es /\ i + 1 \in DOMAIN es /\ i # n
    <3>1. i \in 1..n /\ i + 1 \in 1..n /\ i # n
      BY <1>1
    <3> QED BY <1>1, <3>1
  <2> QED BY <2>1 DEF Follows, Block, n
<1> QED BY <1>2, <1>3 DEF Tree

\* The trace w goes on with a block.
LEMMA TreeBlock ==
  ASSUME NEW w \in Seq(Events), NEW r, NEW r2, Tree(w, r), Order(w, r), Extends(r, r2),
         NEW D \in Nat, D <= DepthLimit, NEW es, Block(es, D), es # <<>> => Ready(w, es[1])
  PROVE  w \o es \in Seq(Events) /\ Tree(w \o es, r2)
<1>1. es \in Seq(Events) /\ Tree(w, r2) /\ Tree(es, r2)
  BY TreeOn, BlockTree DEF Block
<1>2. ASSUME w # <<>>, es # <<>>
      PROVE  Follows(w[Len(w)], es[1], r2)
  <2>1. Ready(w, es[1]) /\ 1 \in DOMAIN es /\ Len(w) \in DOMAIN w
    BY <1>1, <1>2, LenProperties, EmptySeq
  <2>0. es[1] \in Events /\ w[Len(w)] \in Events
    BY <1>1, <2>1, ElementOfSeq, LenProperties
  <2>2. es[1].kind # "call" /\ es[1].depth \in Nat /\ w[Len(w)].depth \in Nat
    BY <2>0, <2>1 DEF Block, Events
  <2> QED BY <1>2, <2>1, <2>2 DEF Follows, Ready
<1> QED BY <1>1, <1>2, TreeConcat

LEMMA OrderSilent ==
  ASSUME NEW w \in Seq(Events), NEW es \in Seq(Events), NEW r, Order(w, r), Silent(es)
  PROVE  Order(w \o es, r)
<1> DEFINE x == w \o es
<1>1. /\ Len(w) \in Nat /\ Len(es) \in Nat
      /\ DOMAIN w = 1..Len(w) /\ DOMAIN es = 1..Len(es) /\ DOMAIN x = 1..(Len(w) + Len(es))
      /\ \A i \in 1..Len(w) : x[i] = w[i]
      /\ \A i \in 1..Len(es) : x[Len(w) + i] = es[i]
  BY EventsConcat
<1> HIDE DEF x
<1>2. \A i \in DOMAIN x : i \notin DOMAIN w => i - Len(w) \in 1..Len(es) /\ Len(w) + (i - Len(w)) = i
  BY <1>1
<1>3. Ops(x) = Ops(w) /\ \A i \in Ops(w) : x[i] = w[i]
  <2>1. \A i \in DOMAIN x : i \notin DOMAIN w => x[i].kind # "op"
    BY <1>1, <1>2 DEF Silent
  <2>2. DOMAIN w \subseteq DOMAIN x
    BY <1>1
  <2> QED BY <1>1, <2>1, <2>2 DEF Ops
<1>4. {x[i].op : i \in Ops(x)} = {w[i].op : i \in Ops(w)}
  BY <1>3
<1>5. Order(x, r)
  BY <1>3, <1>4 DEF Order
<1> QED BY <1>5 DEF x

LEMMA OrderTraces ==
  ASSUME NEW w \in Seq(Events), NEW es \in Seq(Events), NEW r \in Seq(Ran), Order(w, r),
         NEW kind \in Ran, kind # "unpriced", Traces(es, Len(r) + 1)
  PROVE  Order(w \o es, Append(r, kind))
<1> DEFINE x == w \o es
           n == Len(r) + 1
           r2 == Append(r, kind)
<1>1. /\ Len(w) \in Nat /\ Len(es) \in Nat
      /\ DOMAIN w = 1..Len(w) /\ DOMAIN es = 1..Len(es) /\ DOMAIN x = 1..(Len(w) + Len(es))
      /\ \A i \in 1..Len(w) : x[i] = w[i]
      /\ \A i \in 1..Len(es) : x[Len(w) + i] = es[i]
  BY EventsConcat
<1>2. PICK k \in DOMAIN es : /\ es[k].kind = "op" /\ es[k].op = n
                             /\ \A i \in DOMAIN es : i # k => es[i].kind # "op"
  BY DEF Traces
<1>3. /\ n \in Nat /\ n >= 1 /\ DOMAIN r = 1..(n - 1) /\ DOMAIN r2 = 1..n
      /\ r2[n] = kind /\ \A m \in 1..(n - 1) : r2[m] = r[m]
  BY LenProperties, AppendProperties
<1> HIDE DEF x, n, r2
<1> DEFINE o == Len(w) + k
<1>4. o \in DOMAIN x /\ x[o].kind = "op" /\ x[o].op = n /\ \A i \in DOMAIN w : i < o /\ i # o
  BY <1>1, <1>2
<1>5. ASSUME NEW i \in DOMAIN x, x[i].kind = "op"
      PROVE  i \in DOMAIN w \/ i = o
  <2> SUFFICES ASSUME i \notin DOMAIN w
               PROVE  i = o
    OBVIOUS
  <2>1. i - Len(w) \in 1..Len(es) /\ Len(w) + (i - Len(w)) = i
    BY <1>1
  <2>2. i - Len(w) = k
    BY <1>1, <1>2, <1>5, <2>1
  <2> QED BY <1>1, <2>1, <2>2
<1>6. DOMAIN w \subseteq DOMAIN x /\ \A i \in DOMAIN w : x[i] = w[i]
  BY <1>1
<1> HIDE DEF o
<1>7. Ops(x) = Ops(w) \cup {o} /\ o \notin Ops(w)
  BY <1>4, <1>5, <1>6 DEF Ops
<1>8. \A i \in Ops(w) : x[i] = w[i] /\ w[i].op \in 1..(n - 1) /\ i < o /\ i \in Int
  BY <1>1, <1>3, <1>4, <1>6 DEF Order, Ops
<1>9. \A i, j \in Ops(x) : i < j => x[i].op < x[j].op
  <2> SUFFICES ASSUME NEW i \in Ops(x), NEW j \in Ops(x), i < j
               PROVE  x[i].op < x[j].op
    OBVIOUS
  <2>1. o \in Int
    BY <1>1, <1>4
  <2>2. i \in Ops(w)
    BY <1>7, <1>8, <2>1
  <2>3. CASE j \in Ops(w)
    BY <1>8, <2>2, <2>3 DEF Order
  <2>4. CASE j = o
    BY <1>3, <1>4, <1>8, <2>2, <2>4
  <2> QED BY <1>7, <2>3, <2>4
<1>10. {x[i].op : i \in Ops(x)} = {m \in DOMAIN r2 : r2[m] # "unpriced"}
  <2>1. {x[i].op : i \in Ops(x)} = {w[i].op : i \in Ops(w)} \cup {n}
    BY <1>4, <1>7, <1>8
  <2>2. {m \in DOMAIN r2 : r2[m] # "unpriced"} = {m \in DOMAIN r : r[m] # "unpriced"} \cup {n}
    <3>1. \A m : m \in 1..n <=> m \in 1..(n - 1) \/ m = n
      BY <1>3
    <3> QED BY <1>3, <3>1
  <2> QED BY <2>1, <2>2 DEF Order
<1>11. Order(x, r2)
  BY <1>9, <1>10 DEF Order
<1> QED BY <1>11 DEF x, r2

-----------------------------------------------------------------------------
(* The flags of a trace are set *)

\* The traces differ in their flags only.
Same(w, v) ==
  /\ Len(v) = Len(w)
  /\ \A i \in DOMAIN w : v[i].kind = w[i].kind /\ v[i].depth = w[i].depth /\ v[i].op = w[i].op

\* What Join appends.
Flagged(other, reverted) == [i \in DOMAIN other |-> [other[i] EXCEPT !.reverted = reverted]]

LEMMA FlaggedFacts ==
  ASSUME NEW o \in Seq(Events), NEW reverted \in BOOLEAN
  PROVE  LET v == Flagged(o, reverted)
         IN  /\ v \in Seq(Events) /\ Same(o, v)
             /\ \A i \in DOMAIN v : v[i].reverted = reverted
             /\ \A t : Join(t, o, reverted) = t \o v
<1> DEFINE v == Flagged(o, reverted)
           n == Len(o)
<1>1. n \in Nat /\ DOMAIN o = 1..n /\ \A i \in 1..n : o[i] \in Events
  BY LenProperties, ElementOfSeq
<1>2. v = [i \in 1..n |-> [o[i] EXCEPT !.reverted = reverted]]
  BY <1>1 DEF Flagged
<1>3. ASSUME NEW i \in 1..n
      PROVE  /\ v[i] \in Events /\ v[i].reverted = reverted
             /\ v[i].kind = o[i].kind /\ v[i].depth = o[i].depth /\ v[i].op = o[i].op
  <2>1. v[i] = [o[i] EXCEPT !.reverted = reverted] /\ o[i] \in Events
    BY <1>1, <1>2
  <2> QED BY <2>1 DEF Events
<1>4. v \in Seq(Events) /\ Len(v) = n /\ DOMAIN v = 1..n
  <2>1. v \in [1..n -> Events]
    BY <1>2, <1>3
  <2> QED BY <1>1, <2>1, IsASeq, LenProperties
<1>5. \A t : Join(t, o, reverted) = t \o v
  BY DEF Join, Flagged
<1> HIDE DEF v, n
<1> QED BY <1>1, <1>3, <1>4, <1>5 DEF Same, v, n

LEMMA SameGood ==
  ASSUME NEW w \in Seq(Events), NEW v \in Seq(Events), NEW r, Same(w, v), Tree(w, r), Order(w, r)
  PROVE  Tree(v, r) /\ Order(v, r)
<1> DEFINE n == Len(w)
<1>1. /\ n \in Nat /\ DOMAIN w = 1..n /\ DOMAIN v = 1..n /\ Len(v) = n
      /\ \A i \in 1..n : v[i].kind = w[i].kind /\ v[i].depth = w[i].depth /\ v[i].op = w[i].op
  BY LenProperties DEF Same
<1> HIDE DEF n
<1>2. Tree(v, r)
  <2>1. ASSUME NEW i \in 1..(n - 1)
        PROVE  Follows(v[i], v[i + 1], r)
    <3>1. i \in 1..n /\ i + 1 \in 1..n
      BY <1>1
    <3>2. Follows(w[i], w[i + 1], r)
      BY DEF Tree, n
    <3> QED BY <1>1, <3>1, <3>2 DEF Follows
  <2> QED BY <1>1, <2>1 DEF Tree
<1>3. Ops(v) = Ops(w) /\ \A i \in Ops(w) : v[i].op = w[i].op
  BY <1>1 DEF Ops
<1>4. Order(v, r)
  BY <1>3 DEF Order
<1> QED BY <1>2, <1>4

LEMMA SameConcat ==
  ASSUME NEW w \in Seq(Events), NEW o \in Seq(Events), NEW v \in Seq(Events), Same(o, v)
  PROVE  Same(w \o o, w \o v)
<1> DEFINE x == w \o o
           y == w \o v
           m == Len(w)
           n == Len(o)
<1>1. /\ m \in Nat /\ n \in Nat /\ Len(x) = m + n /\ DOMAIN x = 1..(m + n)
      /\ (\A i \in 1..m : x[i] = w[i]) /\ \A i \in 1..n : x[m + i] = o[i]
      /\ DOMAIN o = 1..n
  BY EventsConcat
<1>2. /\ Len(v) = n /\ Len(y) = m + n
      /\ (\A i \in 1..m : y[i] = w[i]) /\ \A i \in 1..n : y[m + i] = v[i]
  <2>1. Len(v) = n
    BY DEF Same
  <2> HIDE DEF n
  <2> QED BY <2>1, EventsConcat
<1> HIDE DEF x, y, m, n
<1>3. ASSUME NEW i \in 1..(m + n)
      PROVE  y[i].kind = x[i].kind /\ y[i].depth = x[i].depth /\ y[i].op = x[i].op
  <2>1. CASE i <= m
    BY <1>1, <1>2, <2>1
  <2>2. CASE ~(i <= m)
    <3>1. PICK j \in 1..n : i = m + j
      <4>1. i - m \in 1..n /\ i = m + (i - m)
        BY <1>1, <2>2
      <4> QED BY <4>1
    <3>2. v[j].kind = o[j].kind /\ v[j].depth = o[j].depth /\ v[j].op = o[j].op
      BY <1>1 DEF Same
    <3> QED BY <1>1, <1>2, <3>1, <3>2
  <2> QED BY <2>1, <2>2
<1> QED BY <1>1, <1>2, <1>3 DEF Same, x, y

-----------------------------------------------------------------------------
(* The buffers under way *)

LEMMA GapTypes ==
  ASSUME NEW fr, Stacked(fr), NEW d \in 1..Len(fr)
  PROVE  Gap(d, fr) \in Seq(Events) /\ fr[d] \in Frame /\ fr[d].events \in Seq(Events) /\ fr[d].op \in Nat
<1>1. fr[d] \in Frame /\ Len(fr) \in Nat
  BY ElementOfSeq, LenProperties DEF Stacked
<1>2. fr[d].events \in Seq(Events) /\ fr[d].op \in Nat
  BY <1>1 DEF Frame
<1>3. Event("op", d - 1, fr[d].op, FALSE) \in Events
  BY <1>1, <1>2 DEF Event, Events, Kinds
<1> DEFINE e == Event("op", d - 1, fr[d].op, FALSE)
<1>0. e \in Events
  BY <1>3
<1> HIDE DEF e
<1>4. <<>> \in Seq(Events) /\ <<e>> \in Seq(Events)
  BY <1>0
<1>5. Gap(d, fr) \in {<<>>, <<e>>}
  BY DEF Gap, e
<1> QED BY <1>1, <1>2, <1>4, <1>5

LEMMA PartsTyped ==
  ASSUME NEW tr \in Seq(Events), NEW fr, Stacked(fr), NEW f, Parts(f, tr, fr)
  PROVE  /\ Len(fr) \in Nat /\ f[0] = tr /\ \A d \in 0..Len(fr) : f[d] \in Seq(Events)
         /\ \A d \in 1..Len(fr) : f[d] = Joined(f[d - 1], d, fr)
         /\ f = [d \in 0..Len(fr) |-> f[d]]
<1> DEFINE D == Len(fr)
<1>1. D \in Nat
  BY LenProperties DEF Stacked
<1>2. f[0] = tr /\ f = [d \in 0..D |-> f[d]]
  BY <1>1 DEF Parts
<1>3. \A d \in 1..D : f[d] = Joined(f[d - 1], d, fr)
  BY <1>1 DEF Parts
<1> HIDE DEF D
<1> DEFINE Typed == {d \in Nat : d <= D => f[d] \in Seq(Events)}
<1>4. 0 \in Typed
  BY <1>2
<1>5. ASSUME NEW d \in Nat, d \in Typed
      PROVE  d + 1 \in Typed
  <2> SUFFICES ASSUME d + 1 <= D
               PROVE  f[d + 1] \in Seq(Events)
    OBVIOUS
  <2> DEFINE e == d + 1
  <2>1. e \in 1..D /\ e - 1 = d /\ f[d] \in Seq(Events)
    BY <1>1, <1>5
  <2> HIDE DEF e
  <2>2. Gap(e, fr) \in Seq(Events) /\ fr[e].events \in Seq(Events)
    BY <2>1, GapTypes DEF D
  <2>3. f[e] = Joined(f[d], e, fr)
    BY <1>3, <2>1
  <2>4. f[e] \in Seq(Events)
    BY <2>1, <2>2, <2>3, ConcatProperties DEF Joined
  <2> QED BY <2>4 DEF e
<1>6. Nat \subseteq Typed
  <2> HIDE DEF Typed
  <2> QED BY <1>4, <1>5, SetInduction
<1>7. \A d \in 0..D : f[d] \in Seq(Events)
  BY <1>1, <1>6
<1> QED BY <1>1, <1>2, <1>3, <1>7 DEF D

\* Events are pushed into the innermost buffer.
Pushing(fr, es, fr2) ==
  LET D == Len(fr)
  IN  /\ Len(fr2) = D /\ \A d \in 1..(D - 1) : fr2[d] = fr[d]
      /\ fr2[D].op = fr[D].op /\ fr2[D].events = fr[D].events \o es

LEMMA PartsPush ==
  ASSUME NEW tr \in Seq(Events), NEW fr, Stacked(fr), NEW f, Parts(f, tr, fr), Len(fr) > 0,
         NEW es \in Seq(Events), NEW fr2, Pushing(fr, es, fr2)
  PROVE  Ends(tr, fr2, f[Len(fr)] \o es)
<1>0. /\ Len(fr2) = Len(fr) /\ \A d \in 1..(Len(fr) - 1) : fr2[d] = fr[d]
      /\ fr2[Len(fr)].op = fr[Len(fr)].op /\ fr2[Len(fr)].events = fr[Len(fr)].events \o es
  BY DEF Pushing
<1> DEFINE D == Len(fr)
           g == [d \in 0..D |-> IF d = D THEN f[D] \o es ELSE f[d]]
<1>1. /\ D \in Nat /\ D > 0 /\ f[0] = tr /\ \A d \in 0..D : f[d] \in Seq(Events)
      /\ \A d \in 1..D : f[d] = Joined(f[d - 1], d, fr)
  BY PartsTyped
<1>2. \A d \in 1..D : Gap(d, fr) \in Seq(Events) /\ fr[d].events \in Seq(Events)
  BY GapTypes
<1>3. \A d \in 1..D : Gap(d, fr2) = Gap(d, fr)
  <2>1. ASSUME NEW d \in 1..D PROVE fr2[d].op = fr[d].op
    <3>1. d = D \/ d \in 1..(D - 1)
      BY <1>1
    <3> QED BY <1>0, <3>1
  <2> HIDE DEF D
  <2> QED BY <2>1 DEF Gap
<1> HIDE DEF D
<1>4. ASSUME NEW d \in 1..D
      PROVE  g[d] = Joined(g[d - 1], d, fr2)
  <2>0. g[d - 1] = f[d - 1] /\ d - 1 \in 0..D
    BY <1>1
  <2>1. CASE d # D
    <3>1. fr2[d] = fr[d] /\ g[d] = f[d]
      BY <1>0, <1>1, <2>1 DEF D
    <3> QED BY <1>1, <1>3, <2>0, <3>1 DEF Joined
  <2>2. CASE d = D
    <3> DEFINE a == f[d - 1] \o Gap(d, fr)
               b == fr[d].events
    <3>1. a \in Seq(Events) /\ b \in Seq(Events)
      BY <1>1, <1>2, <2>0, ConcatProperties
    <3>2. f[d] = a \o b
      BY <1>1 DEF Joined
    <3>3. g[d] = f[d] \o es
      BY <1>1, <2>2
    <3>4. fr2[d].events = b \o es
      BY <1>0, <2>2 DEF D
    <3>5. Joined(g[d - 1], d, fr2) = a \o (b \o es)
      BY <1>3, <2>0, <3>4 DEF Joined
    <3> HIDE DEF a, b, g
    <3>6. (a \o b) \o es = a \o (b \o es)
      BY <3>1, Associative
    <3> QED BY <3>2, <3>3, <3>5, <3>6
  <2> QED BY <2>1, <2>2
<1>5. Parts(g, tr, fr2)
  <2>1. g[0] = tr /\ g = [d \in 0..D |-> g[d]] /\ Len(fr2) = D
    BY <1>0, <1>1 DEF D
  <2>2. \A d \in 0..D : g[d] = IF d = 0 THEN tr ELSE Joined(g[d - 1], d, fr2)
    <3>1. \A d \in 0..D : d = 0 \/ d \in 1..D
      BY <1>1
    <3> HIDE DEF g
    <3> QED BY <1>4, <2>1, <3>1
  <2> HIDE DEF g
  <2> QED BY <2>1, <2>2 DEF Parts
<1>6. g[D] = f[D] \o es
  BY <1>1
<1>7. Len(fr2) = D /\ f[D] = f[Len(fr)]
  BY <1>0 DEF D
<1> HIDE DEF g
<1> QED BY <1>5, <1>6, <1>7 DEF Ends

\* A call is entered.
LEMMA PartsNest ==
  ASSUME NEW tr \in Seq(Events), NEW fr, Stacked(fr), NEW f, Parts(f, tr, fr), NEW x \in Frame
  PROVE  LET fr2 == Append(fr, x)
             n   == Len(fr) + 1
         IN  \E g : Parts(g, tr, fr2) /\ g[Len(fr2)] = Joined(f[n - 1], n, fr2)
<1> DEFINE D == Len(fr)
           n == D + 1
           fr2 == Append(fr, x)
           g == [d \in 0..n |-> IF d = n THEN Joined(f[D], n, fr2) ELSE f[d]]
<1>1. /\ D \in Nat /\ f[0] = tr /\ \A d \in 0..D : f[d] \in Seq(Events)
      /\ \A d \in 1..D : f[d] = Joined(f[d - 1], d, fr)
  BY PartsTyped
<1>2. Len(fr2) = n /\ fr2[n] = x /\ \A d \in 1..D : fr2[d] = fr[d]
  BY AppendProperties DEF Stacked
<1>3. \A d \in 1..D : Gap(d, fr2) = Gap(d, fr)
  BY <1>2 DEF Gap
<1>4. n \in Nat /\ n - 1 = D /\ n # 0
  BY <1>1
<1> HIDE DEF D, fr2, n
<1>5. ASSUME NEW d \in 1..n
      PROVE  g[d] = Joined(g[d - 1], d, fr2)
  <2>1. CASE d = n
    <3>1. g[d - 1] = f[D] /\ g[d] = Joined(f[D], n, fr2)
      BY <1>1, <1>4, <2>1
    <3> HIDE DEF g
    <3> QED BY <2>1, <3>1
  <2>2. CASE d # n
    <3>1. d \in 1..D /\ g[d] = f[d] /\ g[d - 1] = f[d - 1]
      BY <1>1, <1>4, <2>2
    <3> HIDE DEF g
    <3> QED BY <1>1, <1>2, <1>3, <3>1 DEF Joined
  <2> QED BY <2>1, <2>2
<1>6. Parts(g, tr, fr2)
  <2>1. g[0] = tr /\ g = [d \in 0..n |-> g[d]]
    BY <1>1, <1>4
  <2>2. \A d \in 0..n : g[d] = IF d = 0 THEN tr ELSE Joined(g[d - 1], d, fr2)
    <3> HIDE DEF g
    <3> QED BY <1>4, <1>5, <2>1
  <2> HIDE DEF g
  <2> QED BY <1>2, <2>1, <2>2 DEF Parts
<1>7. g[n] = Joined(f[D], n, fr2)
  BY <1>4
<1> HIDE DEF g
<1> QED BY <1>2, <1>4, <1>6, <1>7 DEF n, D, fr2

\* The innermost call is left out.
LEMMA PartsPop ==
  ASSUME NEW tr \in Seq(Events), NEW fr, Stacked(fr), NEW f, Parts(f, tr, fr), Len(fr) > 0,
         NEW fr2, Len(fr2) = Len(fr) - 1, \A d \in 1..(Len(fr) - 1) : fr2[d] = fr[d]
  PROVE  \E g : Parts(g, tr, fr2) /\ g[Len(fr2)] = f[Len(fr) - 1]
<1> DEFINE n == Len(fr) - 1
           g == [d \in 0..n |-> f[d]]
<1>1. /\ n \in Nat /\ n + 1 = Len(fr) /\ f[0] = tr
      /\ \A d \in 1..(n + 1) : f[d] = Joined(f[d - 1], d, fr)
  BY PartsTyped
<1>2. Len(fr2) = n /\ \A d \in 1..n : fr2[d] = fr[d] /\ Gap(d, fr2) = Gap(d, fr)
  BY DEF Gap
<1> HIDE DEF n
<1>3. \A d \in 0..n : g[d] = IF d = 0 THEN tr ELSE Joined(g[d - 1], d, fr2)
  <2>1. \A d \in 1..n : d \in 1..(n + 1) /\ d - 1 \in 0..n /\ d \in 0..n
    BY <1>1
  <2>2. \A d \in 0..n : g[d] = f[d]
    OBVIOUS
  <2>3. \A d \in 0..n : d = 0 \/ d \in 1..n
    BY <1>1
  <2> HIDE DEF g
  <2>4. ASSUME NEW d \in 1..n PROVE g[d] = Joined(g[d - 1], d, fr2)
    <3>1. g[d] = f[d] /\ g[d - 1] = f[d - 1] /\ f[d] = Joined(f[d - 1], d, fr)
      BY <1>1, <2>1, <2>2
    <3> QED BY <1>2, <3>1 DEF Joined
  <2>5. g[0] = tr
    BY <1>1, <2>2
  <2> QED BY <2>3, <2>4, <2>5
<1>4. g = [d \in 0..n |-> g[d]] /\ g[n] = f[n]
  BY <1>1
<1> HIDE DEF g
<1>5. Parts(g, tr, fr2)
  BY <1>2, <1>3, <1>4 DEF Parts
<1> QED BY <1>2, <1>4, <1>5 DEF n

LEMMA EndsTyped ==
  ASSUME NEW tr \in Seq(Events), NEW fr, Stacked(fr), NEW w, Ends(tr, fr, w)
  PROVE  w \in Seq(Events) /\ Len(fr) \in Nat
<1>1. PICK f : Parts(f, tr, fr) /\ f[Len(fr)] = w
  BY DEF Ends
<1>2. Len(fr) \in Nat /\ \A d \in 0..Len(fr) : f[d] \in Seq(Events)
  BY <1>1, PartsTyped
<1> QED BY <1>1, <1>2

LEMMA EndsPush ==
  ASSUME NEW tr \in Seq(Events), NEW fr, Stacked(fr), NEW w, Ends(tr, fr, w), Len(fr) > 0,
         NEW es \in Seq(Events), NEW fr2, Pushing(fr, es, fr2)
  PROVE  Ends(tr, fr2, w \o es)
<1>1. PICK f : Parts(f, tr, fr) /\ f[Len(fr)] = w
  BY DEF Ends
<1>2. Ends(tr, fr2, f[Len(fr)] \o es)
  BY <1>1, PartsPush
<1> QED BY <1>1, <1>2

LEMMA EndsNest ==
  ASSUME NEW tr \in Seq(Events), NEW fr, Stacked(fr), NEW w, Ends(tr, fr, w), NEW x \in Frame
  PROVE  Ends(tr, Append(fr, x), Joined(w, Len(fr) + 1, Append(fr, x)))
<1>1. PICK f : Parts(f, tr, fr) /\ f[Len(fr)] = w
  BY DEF Ends
<1>2. \E g : /\ Parts(g, tr, Append(fr, x))
             /\ g[Len(Append(fr, x))] = Joined(f[(Len(fr) + 1) - 1], Len(fr) + 1, Append(fr, x))
  BY <1>1, PartsNest
<1>3. (Len(fr) + 1) - 1 = Len(fr)
  BY LenProperties DEF Stacked
<1> QED BY <1>1, <1>2, <1>3 DEF Ends

\* The innermost call is left out, and w is what the trace v becomes with it.
Shrinks(fr, fr2) == Len(fr2) = Len(fr) - 1 /\ \A d \in 1..(Len(fr) - 1) : fr2[d] = fr[d]

LEMMA EndsPop ==
  ASSUME NEW tr \in Seq(Events), NEW fr, Stacked(fr), NEW w, Ends(tr, fr, w), Len(fr) > 0,
         NEW fr2, Shrinks(fr, fr2)
  PROVE  \E v \in Seq(Events) : Ends(tr, fr2, v) /\ w = Joined(v, Len(fr), fr)
<1>1. PICK f : Parts(f, tr, fr) /\ f[Len(fr)] = w
  BY DEF Ends
<1>2. /\ Len(fr) \in Nat /\ \A d \in 0..Len(fr) : f[d] \in Seq(Events)
      /\ \A d \in 1..Len(fr) : f[d] = Joined(f[d - 1], d, fr)
  BY <1>1, PartsTyped
<1>3. Len(fr) - 1 \in 0..Len(fr) /\ Len(fr) \in 1..Len(fr)
  BY <1>2
<1> DEFINE v == f[Len(fr) - 1]
<1>4. v \in Seq(Events) /\ w = Joined(v, Len(fr), fr)
  BY <1>1, <1>2, <1>3
<1>5. \E g : Parts(g, tr, fr2) /\ g[Len(fr2)] = f[Len(fr) - 1]
  BY <1>1, PartsPop DEF Shrinks
<1>6. Ends(tr, fr2, v)
  BY <1>5 DEF Ends
<1> HIDE DEF v
<1> QED BY <1>4, <1>6

-----------------------------------------------------------------------------
(* An instruction that is no call *)

LEMMA RanGrows ==
  ASSUME NEW S, NEW r \in Seq(S), NEW kind \in S
  PROVE  /\ Append(r, kind) \in Seq(S) /\ Extends(r, Append(r, kind))
         /\ Len(r) \in Nat /\ Append(r, kind)[Len(r) + 1] = kind
<1> DEFINE r2 == Append(r, kind)
           m  == Len(r)
<1>1. /\ m \in Nat /\ r2 \in Seq(S) /\ Len(r2) = m + 1 /\ r2[m + 1] = kind
      /\ \A i \in 1..m : r2[i] = r[i]
  BY AppendProperties, LenProperties
<1>2. DOMAIN r = 1..m /\ DOMAIN r2 = 1..Len(r2)
  BY <1>1, LenProperties
<1> HIDE DEF r2, m
<1>3. Extends(r, r2)
  BY <1>1, <1>2 DEF Extends
<1> QED BY <1>1, <1>3 DEF r2, m

LEMMA OrderUnpriced ==
  ASSUME NEW w, NEW r \in Seq(Ran), Order(w, r)
  PROVE  Order(w, Append(r, "unpriced"))
<1> DEFINE r2 == Append(r, "unpriced")
           n == Len(r) + 1
<1>1. /\ n \in Nat /\ n >= 1 /\ DOMAIN r = 1..(n - 1) /\ DOMAIN r2 = 1..n
      /\ r2[n] = "unpriced" /\ \A m \in 1..(n - 1) : r2[m] = r[m]
  BY LenProperties, AppendProperties
<1> HIDE DEF r2, n
<1>2. \A m : m \in 1..n <=> m \in 1..(n - 1) \/ m = n
  BY <1>1
<1>3. {m \in DOMAIN r2 : r2[m] # "unpriced"} = {m \in DOMAIN r : r[m] # "unpriced"}
  BY <1>1, <1>2
<1> QED BY <1>3 DEF Order, r2

\* What Push leaves on the stack of calls.
Pushed(fr, es, status) ==
  [fr EXCEPT ![Len(fr)].events = @ \o es, ![Len(fr)].steps = @ + 1, ![Len(fr)].status = status]

LEMMA FrameUpdate ==
  ASSUME NEW y \in Frame, NEW events, NEW steps, NEW status
  PROVE  [y EXCEPT !.events = events, !.steps = steps, !.status = status]
           = [ events |-> events, op |-> y.op, create |-> y.create, steps |-> steps,
               status |-> status ]
<1> DEFINE y1 == [y EXCEPT !.events = events]
           y2 == [y1 EXCEPT !.steps = steps]
           y3 == [y2 EXCEPT !.status = status]
<1>1. y1 = [ events |-> events, op |-> y.op, create |-> y.create, steps |-> y.steps,
             status |-> y.status ]
  BY DEF Frame
<1> HIDE DEF y1
<1>2. y2 = [ events |-> events, op |-> y.op, create |-> y.create, steps |-> steps,
             status |-> y.status ]
  BY <1>1
<1> HIDE DEF y2
<1>3. y3 = [ events |-> events, op |-> y.op, create |-> y.create, steps |-> steps,
             status |-> status ]
  BY <1>2
<1> HIDE DEF y3
<1> QED BY <1>3, Zenon DEF y1, y2, y3

\* The innermost frame becomes x, which has further events.
Adds(fr, es, x) ==
  x \in Frame /\ x.op = fr[Len(fr)].op /\ x.events = fr[Len(fr)].events \o es

Replaced(fr, x) == [d \in 1..Len(fr) |-> IF d = Len(fr) THEN x ELSE fr[d]]

LEMMA TopChanged ==
  ASSUME NEW fr, Stacked(fr), Len(fr) > 0, ~(Len(fr) > DepthLimit),
         NEW es \in Seq(Events), NEW x, Adds(fr, es, x)
  PROVE  LET fr2 == Replaced(fr, x)
         IN  Stacked(fr2) /\ Pushing(fr, es, fr2) /\ Len(fr2) = Len(fr) /\ fr2[Len(fr)] = x
<1> DEFINE D == Len(fr)
           fr2 == Replaced(fr, x)
<1>1. D \in Nat /\ D > 0 /\ DOMAIN fr = 1..D /\ \A d \in 1..D : fr[d] \in Frame
  BY LenProperties, ElementOfSeq DEF Stacked
<1>2. fr2 = [d \in 1..D |-> IF d = D THEN x ELSE fr[d]]
  BY DEF Replaced
<1>3. ~(D > DepthLimit) /\ x \in Frame /\ x.op = fr[D].op /\ x.events = fr[D].events \o es
  BY DEF Adds
<1> HIDE DEF D, fr2
<1>5. fr2 \in Seq(Frame) /\ Len(fr2) = D
  <2>1. fr2 \in [1..D -> Frame]
    BY <1>1, <1>2, <1>3
  <2> QED BY <1>1, <2>1, IsASeq, LenProperties
<1>6. (\A d \in 1..(D - 1) : fr2[d] = fr[d]) /\ fr2[D] = x
  BY <1>1, <1>2
<1>7. \A d \in 1..D : /\ d < D => fr2[d].status = "running"
                      /\ d > DepthLimit => fr2[d].status = "reverted"
  <2>1. ASSUME NEW d \in 1..D
        PROVE  /\ d < D => fr2[d].status = "running"
               /\ d > DepthLimit => fr2[d].status = "reverted"
    <3>1. CASE d = D
      BY <1>1, <1>3, <3>1
    <3>2. CASE d # D
      <4>1. d \in 1..(D - 1) /\ d < D
        BY <1>1, <3>2
      <4> QED BY <1>6, <4>1 DEF Stacked, D
    <3> QED BY <3>1, <3>2
  <2> QED BY <2>1
<1>8. Stacked(fr2)
  BY <1>5, <1>7 DEF Stacked
<1> QED BY <1>3, <1>5, <1>6, <1>8 DEF Pushing, D, fr2

LEMMA RunningWithin ==
  ASSUME NEW fr, Stacked(fr), Len(fr) > 0, fr[Len(fr)].status = "running"
  PROVE  Len(fr) \in Nat /\ ~(Len(fr) > DepthLimit) /\ Len(fr) <= DepthLimit
<1>1. Len(fr) \in Nat /\ Len(fr) \in 1..Len(fr)
  BY LenProperties DEF Stacked
<1>2. ~(Len(fr) > DepthLimit)
  BY <1>1 DEF Stacked
<1> QED BY <1>1, <1>2, LimitAssumption

LEMMA PushedFacts ==
  ASSUME NEW fr, Stacked(fr), Len(fr) > 0, fr[Len(fr)].status = "running",
         NEW es \in Seq(Events), NEW status \in Statuses
  PROVE  LET fr2 == Pushed(fr, es, status)
             D   == Len(fr)
         IN  Stacked(fr2) /\ Pushing(fr, es, fr2) /\ Len(fr2) = D /\ fr2[D].status = status
<1> DEFINE fr2 == Pushed(fr, es, status)
           D == Len(fr)
           x == [fr[D] EXCEPT !.events = @ \o es, !.steps = @ + 1, !.status = status]
<1>1. D \in Nat /\ D > 0 /\ DOMAIN fr = 1..D /\ fr[D] \in Frame
  BY LenProperties, ElementOfSeq DEF Stacked
<1>2. fr2 = [d \in 1..D |-> IF d = D THEN x ELSE fr[d]]
  BY <1>1 DEF Pushed
<1>r. fr2 = Replaced(fr, x)
  BY <1>2 DEF Replaced
<1>3. x \in Frame /\ x.op = fr[D].op /\ x.events = fr[D].events \o es /\ x.status = status
  <2>1. fr[D].events \o es \in Seq(Events)
    BY <1>1, ConcatProperties DEF Frame
  <2> DEFINE z == [ events |-> fr[D].events \o es, op |-> fr[D].op, create |-> fr[D].create,
                    steps |-> fr[D].steps + 1, status |-> status ]
  <2>2. x = z
    BY <1>1, FrameUpdate
  <2>3. z \in Frame
    BY <1>1, <2>1 DEF Frame
  <2> QED BY <2>2, <2>3
<1>a. Adds(fr, es, x)
  BY <1>3 DEF Adds
<1> HIDE DEF x, fr2
<1>4. Stacked(fr2) /\ Pushing(fr, es, fr2) /\ Len(fr2) = D /\ fr2[D] = x
  BY <1>1, <1>r, <1>a, RunningWithin, TopChanged
<1> QED BY <1>3, <1>4 DEF fr2

LEMMA NotCalled ==
  ASSUME Flow, Len(frames) > 0, phase' = phase
  PROVE  FlagsAgree'
BY DEF Flow, FlagsAgree

LEMMA PushStep ==
  ASSUME Inv, NEW kind \in Ran, NEW es, NEW status \in Statuses, Push(kind, es, status),
         Block(es, Len(frames)), es # <<>>,
         \/ kind # "unpriced" /\ Traces(es, Len(ran) + 1)
         \/ kind = "unpriced" /\ Silent(es),
         es[Len(es)].kind = "halt" => status = "reverted"
  PROVE  Inv'
<1> DEFINE D == Len(frames)
<1>1. /\ trace \in Seq(Events) /\ ran \in Seq(Ran) /\ Stacked(frames) /\ Flow
      /\ trace' = trace /\ phase' = phase /\ ran' = Append(ran, kind)
      /\ D > 0 /\ frames[D].status = "running" /\ es \in Seq(Events)
      /\ frames' = Pushed(frames, es, status)
  BY DEF Inv, Push, Running, Top, Depth, Block, Pushed
<1>2. PICK w : Ends(trace, frames, w) /\ Good(w, frames, ran)
  BY DEF Inv
<1>3. /\ Stacked(frames') /\ Pushing(frames, es, frames') /\ Len(frames') = D
      /\ frames'[D].status = status
  BY <1>1, PushedFacts
<1>4. Ends(trace, frames', w \o es)
  BY <1>1, <1>2, <1>3, EndsPush
<1>5. /\ D \in Nat /\ D <= DepthLimit /\ Len(es) \in DOMAIN es /\ 1 \in DOMAIN es
      /\ w \in Seq(Events) /\ Tree(w, ran) /\ Order(w, ran) /\ Last(w, frames)
  <2>1. D \in Nat /\ D \in 1..D
    BY <1>1, LenProperties DEF Stacked
  <2>2. D <= DepthLimit
    BY <1>1, <2>1, LimitAssumption DEF Stacked
  <2>3. Len(es) \in DOMAIN es /\ 1 \in DOMAIN es
    BY <1>1, LenProperties, EmptySeq
  <2> QED BY <1>2, <2>1, <2>2, <2>3 DEF Good
<1>6. ran' \in Seq(Ran) /\ Extends(ran, ran')
  BY <1>1, RanGrows
<1>7. Ready(w, es[1])
  <2>1. es[1].depth = D
    BY <1>5 DEF Block
  <2>2. w # <<>> => w[Len(w)] \in Events
    BY <1>5, LenProperties, ElementOfSeq, EmptySeq
  <2> QED BY <1>1, <1>5, <2>1, <2>2 DEF Ready, Last, Events
<1>8. w \o es \in Seq(Events) /\ Tree(w \o es, ran')
  BY <1>5, <1>6, <1>7, TreeBlock
<1>9. Order(w \o es, ran')
  <2>1. CASE kind # "unpriced" /\ Traces(es, Len(ran) + 1)
    BY <1>1, <1>5, <2>1, OrderTraces
  <2>2. CASE kind = "unpriced" /\ Silent(es)
    BY <1>1, <1>5, <2>2, OrderSilent, OrderUnpriced
  <2> QED BY <2>1, <2>2
<1>10. Last(w \o es, frames')
  <2>1. /\ Len(w \o es) = Len(w) + Len(es) /\ Len(es) \in 1..Len(es) /\ Len(w) \in Nat
        /\ (w \o es)[Len(w) + Len(es)] = es[Len(es)]
    BY <1>1, <1>5, EventsConcat
  <2>2. es[Len(es)].depth = D
    BY <1>5 DEF Block
  <2>3. w \o es # <<>>
    BY <1>8, <2>1, EmptySeq
  <2> QED BY <1>3, <1>5, <2>1, <2>2, <2>3 DEF Last
<1>11. Flow'
  BY <1>1, <1>3 DEF Flow
<1>12. FlagsAgree'
  BY <1>1, NotCalled
<1> QED BY <1>1, <1>3, <1>4, <1>6, <1>8, <1>9, <1>10, <1>11, <1>12 DEF Inv, Good

\* What an instruction pushes: something that is no event of an instruction, its
\* own event, and a halt.
Pieces(a, b, c, D, n) ==
  /\ a \in Events /\ b \in Events /\ c \in Events
  /\ a.depth = D /\ b.depth = D /\ c.depth = D
  /\ a.kind \in {"account", "return"} /\ b.kind = "op" /\ b.op = n /\ c.kind = "halt"

LEMMA Blocks ==
  ASSUME NEW D, NEW n, NEW a, NEW b, NEW c, Pieces(a, b, c, D, n)
  PROVE  /\ \A es \in {<<b>>, <<a, b>>, <<b, c>>, <<a, b, c>>} :
              Block(es, D) /\ es # <<>> /\ Traces(es, n)
         /\ \A es \in {<<b>>, <<a, b>>} : es[Len(es)].kind # "halt"
         /\ Block(<<c>>, D) /\ <<c>> # <<>> /\ Silent(<<c>>)
<1>0. /\ a \in Events /\ b \in Events /\ c \in Events
      /\ a.depth = D /\ b.depth = D /\ c.depth = D
      /\ a.kind \in {"account", "return"} /\ b.kind = "op" /\ b.op = n /\ c.kind = "halt"
  BY DEF Pieces
<1>1. a.kind # "call" /\ a.kind # "op" /\ a.kind # "halt"
  BY <1>0
<1>2. Block(<<b>>, D) /\ Traces(<<b>>, n) /\ <<b>>[Len(<<b>>)].kind # "halt"
  <2>1. <<b>> \in Seq(Events) /\ DOMAIN <<b>> = {1} /\ <<b>>[1] = b /\ Len(<<b>>) = 1
    BY <1>0
  <2> DEFINE es == <<b>>
  <2> HIDE DEF es
  <2> QED BY <1>0, <2>1 DEF Block, Traces, es
<1>3. Block(<<a, b>>, D) /\ Traces(<<a, b>>, n) /\ <<a, b>>[Len(<<a, b>>)].kind # "halt"
  <2> DEFINE es == <<a, b>>
  <2>1. /\ es \in Seq(Events) /\ DOMAIN es = {1, 2} /\ es[1] = a /\ es[2] = b
        /\ Len(es) = 2
    BY <1>0
  <2> HIDE DEF es
  <2>2. Block(es, D) /\ Traces(es, n) /\ es[Len(es)].kind # "halt"
    BY <1>0, <1>1, <2>1 DEF Block, Traces
  <2> QED BY <2>2 DEF es
<1>4. Block(<<b, c>>, D) /\ Traces(<<b, c>>, n)
  <2> DEFINE es == <<b, c>>
  <2>1. /\ es \in Seq(Events) /\ DOMAIN es = {1, 2} /\ es[1] = b /\ es[2] = c
        /\ Len(es) = 2
    BY <1>0
  <2> HIDE DEF es
  <2>2. Block(es, D) /\ Traces(es, n)
    BY <1>0, <2>1 DEF Block, Traces
  <2> QED BY <2>2 DEF es
<1>5. Block(<<a, b, c>>, D) /\ Traces(<<a, b, c>>, n)
  <2> DEFINE es == <<a, b, c>>
  <2>1. /\ es \in Seq(Events) /\ DOMAIN es = {1, 2, 3} /\ es[1] = a /\ es[2] = b
        /\ es[3] = c /\ Len(es) = 3
    BY <1>0
  <2> HIDE DEF es
  <2>2. Block(es, D) /\ Traces(es, n)
    BY <1>0, <1>1, <2>1 DEF Block, Traces
  <2> QED BY <2>2 DEF es
<1>6. Block(<<c>>, D) /\ Silent(<<c>>)
  <2> DEFINE es == <<c>>
  <2>1. es \in Seq(Events) /\ DOMAIN es = {1} /\ es[1] = c /\ Len(es) = 1
    BY <1>0
  <2> HIDE DEF es
  <2>2. Block(es, D) /\ Silent(es)
    BY <1>0, <2>1 DEF Block, Silent
  <2> QED BY <2>2 DEF es
<1>7. <<b>> # <<>> /\ <<a, b>> # <<>> /\ <<b, c>> # <<>> /\ <<a, b, c>> # <<>> /\ <<c>> # <<>>
  OBVIOUS
<1> QED BY <1>2, <1>3, <1>4, <1>5, <1>6, <1>7

LEMMA Tuples ==
  ASSUME NEW a, NEW b, NEW c
  PROVE  /\ <<>> \o <<b>> = <<b>> /\ <<a>> \o <<b>> = <<a, b>>
         /\ <<>> \o <<b, c>> = <<b, c>>
<1> DEFINE S == {a, b, c}
<1>1. /\ <<a>> \in Seq(S) /\ <<b>> \in Seq(S) /\ <<b, c>> \in Seq(S)
  OBVIOUS
<1>2. <<>> \o <<b>> = <<b>> /\ <<>> \o <<b, c>> = <<b, c>>
  BY <1>1, ConcatEmptySeq
<1>3. <<a>> \o <<b>> = <<a, b>>
  <2> DEFINE x == <<a>> \o <<b>>
             y == <<a, b>>
  <2>1. /\ y \in Seq(S) /\ Len(y) = 2 /\ y[1] = a /\ y[2] = b
        /\ Len(<<a>>) = 1 /\ Len(<<b>>) = 1 /\ <<a>>[1] = a /\ <<b>>[1] = b
    OBVIOUS
  <2>2. x \in Seq(S) /\ Len(x) = 2 /\ x[1] = a /\ x[2] = b
    BY <1>1, <2>1, ConcatProperties
  <2> HIDE DEF x, y, S
  <2>3. x = y
    BY <2>1, <2>2, SeqEqual
  <2> QED BY <2>3 DEF x, y
<1> QED BY <1>2, <1>3

LEMMA Triple ==
  ASSUME NEW a, NEW b, NEW c
  PROVE  <<a>> \o <<b, c>> = <<a, b, c>>
<1> DEFINE S == {a, b, c}
<1>1. <<a>> \in Seq(S) /\ <<b, c>> \in Seq(S)
  OBVIOUS
<1>2. <<a>> \o <<b, c>> = <<a, b, c>>
  <2> DEFINE t == <<b, c>>
             x == <<a>> \o t
             y == <<a, b, c>>
  <2>1. /\ y \in Seq(S) /\ Len(y) = 3 /\ y[1] = a /\ y[2] = b /\ y[3] = c
        /\ Len(<<a>>) = 1 /\ Len(t) = 2 /\ <<a>>[1] = a /\ t[1] = b /\ t[2] = c
    OBVIOUS
  <2>2. t \in Seq(S)
    BY <1>1
  <2> HIDE DEF t, y, S
  <2>3. x \in Seq(S) /\ Len(x) = 3 /\ x[1] = a /\ x[2] = b /\ x[3] = c
    <3>1. <<a>> \in Seq(S)
      BY <1>1
    <3> DEFINE s == <<a>>
    <3>2. Len(s) = 1 /\ s[1] = a
      OBVIOUS
    <3> HIDE DEF s
    <3>3. /\ s \o t \in Seq(S) /\ Len(s \o t) = Len(s) + Len(t) /\ 1 \in 1..Len(s)
          /\ \A i \in 1..Len(s) : (s \o t)[i] = s[i]
          /\ \A i \in 1..Len(t) : (s \o t)[Len(s) + i] = t[i]
      BY <2>2, <3>1, <3>2, ConcatFacts DEF s
    <3>4. (s \o t)[1 + 1] = t[1] /\ (s \o t)[1 + 2] = t[2] /\ 1 + 1 = 2 /\ 1 + 2 = 3
      BY <2>1, <3>2, <3>3
    <3>5. s \o t \in Seq(S) /\ Len(s \o t) = 3 /\ (s \o t)[1] = a /\ (s \o t)[2] = b /\ (s \o t)[3] = c
      BY <2>1, <3>2, <3>3, <3>4
    <3> QED BY <3>5 DEF s
  <2> HIDE DEF x
  <2>4. x = y
    BY <2>1, <2>3, SeqEqual
  <2> QED BY <2>4 DEF x, y, t
<1> QED BY <1>2

LEMMA EventTypes ==
  ASSUME Len(frames) \in Nat, Len(ran) \in Nat, NEW reverted \in BOOLEAN
  PROVE  /\ \A e \in {Account, Return(reverted)} :
              e \in Events /\ e.depth = Len(frames) /\ e.kind \in {"account", "return"}
         /\ Op(reverted) \in Events /\ Op(reverted).depth = Len(frames)
         /\ Op(reverted).kind = "op" /\ Op(reverted).op = Len(ran) + 1
         /\ Halted \in Events /\ Halted.depth = Len(frames) /\ Halted.kind = "halt"
BY DEF Account, Return, Op, Halted, Event, Events, Kinds, Depth, Now

\* The events of an instruction that is traced.
Instruction(es, status) ==
  /\ Block(es, Len(frames)) /\ es # <<>> /\ Traces(es, Len(ran) + 1)
  /\ es[Len(es)].kind = "halt" => status = "reverted"

LEMMA Instructions ==
  ASSUME Len(frames) \in Nat, Len(ran) \in Nat, NEW reverted \in BOOLEAN, NEW status,
         NEW a \in {Account, Return(FALSE), Return(TRUE)}
  PROVE  /\ Instruction(<<Op(reverted)>>, status)
         /\ Instruction(<<a, Op(reverted)>>, status)
         /\ Instruction(<<Op(reverted), Halted>>, "reverted")
         /\ Instruction(<<a, Op(reverted), Halted>>, "reverted")
<1> DEFINE D == Len(frames)
           n == Len(ran) + 1
           b == Op(reverted)
           c == Halted
<1>1. Pieces(a, b, c, D, n)
  BY EventTypes DEF Pieces
<1> HIDE DEF D, n, b, c
<1>2. /\ \A es \in {<<b>>, <<a, b>>, <<b, c>>, <<a, b, c>>} :
           Block(es, D) /\ es # <<>> /\ Traces(es, n)
      /\ \A es \in {<<b>>, <<a, b>>} : es[Len(es)].kind # "halt"
  BY <1>1, Blocks
<1>3. \A es \in {<<b>>, <<a, b>>} : Instruction(es, status)
  BY <1>2 DEF Instruction, D, n
<1>4. \A es \in {<<b, c>>, <<a, b, c>>} : Instruction(es, "reverted")
  BY <1>2 DEF Instruction, D, n
<1> QED BY <1>3, <1>4 DEF b, c

LEMMA InstructionStep ==
  ASSUME Inv, NEW kind \in Ran, kind # "unpriced", NEW status \in Statuses, NEW es,
         Push(kind, es, status), Instruction(es, status)
  PROVE  Inv'
BY PushStep DEF Instruction

LEMMA InstructionSteps ==
  ASSUME Inv, Plain \/ SelfDestruct \/ End \/ Halt \/ HaltSstore \/ Fail \/ FallOff
              \/ CallUnpriced \/ CallUnpaid \/ CallPrecompile
  PROVE  Inv'
<1>0. Len(frames) \in Nat /\ Len(ran) \in Nat
  BY LenProperties DEF Inv, Stacked
<1>s. "running" \in Statuses /\ "stopped" \in Statuses /\ "reverted" \in Statuses
  BY DEF Statuses
<1>k. "plain" \in Ran /\ "plain" # "unpriced" /\ "call" \in Ran /\ "call" # "unpriced"
  BY DEF Ran
<1>1. ASSUME Plain PROVE Inv'
  <2>1. PICK es \in Accounts : Push("plain", es \o <<Op(FALSE)>>, "running")
    BY <1>1 DEF Plain
  <2>2. CASE es = <<>>
    <3>1. Push("plain", <<Op(FALSE)>>, "running")
      BY <2>1, <2>2, Tuples
    <3> QED BY <1>0, <1>s, <1>k, <3>1, Instructions, InstructionStep
  <2>3. CASE es = <<Account>>
    <3>1. Push("plain", <<Account, Op(FALSE)>>, "running")
      BY <2>1, <2>3, Tuples
    <3> QED BY <1>0, <1>s, <1>k, <3>1, Instructions, InstructionStep
  <2> QED BY <2>2, <2>3 DEF Accounts
<1>2. ASSUME SelfDestruct PROVE Inv'
  BY <1>0, <1>s, <1>k, <1>2, Instructions, InstructionStep DEF SelfDestruct
<1>3. ASSUME End PROVE Inv'
  <2>1. PICK reverted \in BOOLEAN :
          Push("plain", <<Return(reverted), Op(FALSE)>>, IF reverted THEN "reverted" ELSE "stopped")
    BY <1>3 DEF End
  <2>2. CASE reverted = TRUE
    <3>1. Push("plain", <<Return(TRUE), Op(FALSE)>>, "reverted")
      BY <2>1, <2>2
    <3> QED BY <1>0, <1>s, <1>k, <3>1, Instructions, InstructionStep
  <2>3. CASE reverted = FALSE
    <3>1. Push("plain", <<Return(FALSE), Op(FALSE)>>, "stopped")
      BY <2>1, <2>3
    <3> QED BY <1>0, <1>s, <1>k, <3>1, Instructions, InstructionStep
  <2> QED BY <2>2, <2>3
<1>4. ASSUME Halt PROVE Inv'
  <2>1. PICK es \in Accounts \cup {<<Return(FALSE)>>, <<Return(TRUE)>>} :
          Push("plain", es \o <<Op(FALSE), Halted>>, "reverted")
    BY <1>4 DEF Halt
  <2>2. CASE es = <<>>
    <3>1. Push("plain", <<Op(FALSE), Halted>>, "reverted")
      BY <2>1, <2>2, Tuples
    <3> QED BY <1>0, <1>s, <1>k, <3>1, Instructions, InstructionStep
  <2>3. ASSUME NEW a \in {Account, Return(FALSE), Return(TRUE)}, es = <<a>>
        PROVE  Inv'
    <3> DEFINE b == Op(FALSE)
    <3>0. <<a>> \o <<b, Halted>> = <<a, b, Halted>>
      BY Triple
    <3>1. Push("plain", <<a, b, Halted>>, "reverted")
      BY <2>1, <2>3, <3>0
    <3>2. Instruction(<<a, b, Halted>>, "reverted")
      BY <1>0, Instructions
    <3> QED BY <1>s, <1>k, <3>1, <3>2, InstructionStep
  <2> QED BY <2>2, <2>3 DEF Accounts
<1>5. ASSUME HaltSstore PROVE Inv'
  BY <1>0, <1>s, <1>k, <1>5, Instructions, InstructionStep DEF HaltSstore
<1>6. ASSUME Fail PROVE Inv'
  BY <1>0, <1>s, <1>k, <1>6, Instructions, InstructionStep DEF Fail
<1>7. ASSUME FallOff PROVE Inv'
  BY <1>0, <1>s, <1>k, <1>7, Instructions, InstructionStep DEF FallOff
<1>8. ASSUME CallUnpriced PROVE Inv'
  <2>1. Push("unpriced", <<Halted>>, "reverted")
    BY <1>8 DEF CallUnpriced
  <2>2. Pieces(Account, Op(FALSE), Halted, Len(frames), Len(ran) + 1)
    BY <1>0, EventTypes DEF Pieces
  <2> DEFINE es == <<Halted>>
  <2>3. Block(es, Len(frames)) /\ es # <<>> /\ Silent(es)
    BY <2>2, Blocks
  <2>4. "unpriced" \in Ran
    BY DEF Ran
  <2> HIDE DEF es
  <2> QED BY <1>s, <2>1, <2>3, <2>4, PushStep DEF es
<1>9. ASSUME CallUnpaid PROVE Inv'
  BY <1>0, <1>s, <1>k, <1>9, Instructions, InstructionStep DEF CallUnpaid
<1>10. ASSUME CallPrecompile PROVE Inv'
  BY <1>0, <1>s, <1>k, <1>10, Instructions, InstructionStep DEF CallPrecompile
<1> QED BY <1>1, <1>2, <1>3, <1>4, <1>5, <1>6, <1>7, <1>8, <1>9, <1>10

-----------------------------------------------------------------------------
(* A call begins *)

OpOf(b, D, n) == b \in Events /\ b.depth = D /\ b.kind = "op" /\ b.op = n

LEMMA BlockThen ==
  ASSUME NEW D, NEW n, NEW es, Block(es, D), Silent(es), \A i \in DOMAIN es : es[i].kind # "halt",
         NEW b, OpOf(b, D, n)
  PROVE  LET all == es \o <<b>>
         IN  Block(all, D) /\ Traces(all, n) /\ all # <<>> /\ all[Len(all)] = b
<1> DEFINE all == es \o <<b>>
           one == <<b>>
           m   == Len(es)
<1>0. b \in Events /\ b.depth = D /\ b.kind = "op" /\ b.op = n
  BY DEF OpOf
<1>1. es \in Seq(Events) /\ one \in Seq(Events) /\ Len(one) = 1 /\ one[1] = b
  BY <1>0 DEF Block
<1> HIDE DEF one
<1>2. /\ all \in Seq(Events) /\ Len(all) = m + 1 /\ m \in Nat /\ DOMAIN all = 1..(m + 1)
      /\ DOMAIN es = 1..m /\ (\A i \in 1..m : all[i] = es[i]) /\ all[m + 1] = b
  <2>1. /\ es \o one \in Seq(Events) /\ Len(es \o one) = Len(es) + Len(one) /\ Len(es) \in Nat
        /\ DOMAIN es = 1..Len(es) /\ DOMAIN (es \o one) = 1..(Len(es) + Len(one))
        /\ (\A i \in 1..Len(es) : (es \o one)[i] = es[i])
        /\ \A i \in 1..Len(one) : (es \o one)[Len(es) + i] = one[i]
    BY <1>1, EventsConcat
  <2> QED BY <1>1, <2>1 DEF one
<1> HIDE DEF all, m
<1>3. \A i \in 1..(m + 1) : i = m + 1 \/ (i \in 1..m /\ i # m + 1)
  BY <1>2
<1>4. Block(all, D)
  BY <1>0, <1>2, <1>3 DEF Block
<1>5. Traces(all, n)
  <2>1. m + 1 \in DOMAIN all
    BY <1>2
  <2>2. \A i \in DOMAIN all : i # m + 1 => all[i].kind # "op"
    BY <1>2, <1>3 DEF Silent
  <2> QED BY <1>0, <1>2, <2>1, <2>2 DEF Traces
<1>6. all # <<>>
  BY <1>2, EmptySeq
<1> QED BY <1>2, <1>4, <1>5, <1>6 DEF all, one

\* The event of a call, after the trace u.
LEMMA CallFollows ==
  ASSUME NEW u \in Seq(Events), NEW r, Tree(u, r), Order(u, r), NEW c \in Events,
         c.kind = "call", u # <<>> => Follows(u[Len(u)], c, r)
  PROVE  LET v == u \o <<c>>
         IN  /\ v \in Seq(Events) /\ Tree(v, r) /\ Order(v, r)
             /\ v # <<>> /\ v[Len(v)] = c
<1> DEFINE one == <<c>>
           v   == u \o <<c>>
<1>1. one \in Seq(Events) /\ Len(one) = 1 /\ one[1] = c /\ DOMAIN one = {1} /\ one # <<>>
  OBVIOUS
<1> HIDE DEF one
<1>2. Tree(one, r) /\ Silent(one)
  <2>1. 1..(Len(one) - 1) = {}
    BY <1>1
  <2> QED BY <1>1, <2>1 DEF Tree, Silent
<1>3. u \o one \in Seq(Events) /\ Tree(u \o one, r)
  BY <1>1, <1>2, TreeConcat
<1>4. Order(u \o one, r)
  BY <1>1, <1>2, OrderSilent
<1>5. Len(u \o one) = Len(u) + 1 /\ (u \o one)[Len(u) + 1] = c /\ Len(u) \in Nat
  <2>1. /\ Len(u \o one) = Len(u) + Len(one) /\ Len(u) \in Nat
        /\ \A i \in 1..Len(one) : (u \o one)[Len(u) + i] = one[i]
    BY <1>1, EventsConcat
  <2> QED BY <1>1, <2>1
<1>6. u \o one # <<>>
  BY <1>3, <1>5, EmptySeq
<1> QED BY <1>3, <1>4, <1>5, <1>6 DEF one

\* What Enter does to the frame of the caller.
Added(fr, es) == [fr EXCEPT ![Len(fr)].events = @ \o es]

LEMMA AddedFacts ==
  ASSUME NEW fr, Stacked(fr), Len(fr) > 0, fr[Len(fr)].status = "running", NEW es \in Seq(Events)
  PROVE  LET fr2 == Added(fr, es)
             D   == Len(fr)
         IN  Stacked(fr2) /\ Pushing(fr, es, fr2) /\ Len(fr2) = D /\ fr2[D].status = "running"
<1> DEFINE fr2 == Added(fr, es)
           D == Len(fr)
           x == [fr[D] EXCEPT !.events = @ \o es]
<1>1. D \in Nat /\ D > 0 /\ DOMAIN fr = 1..D /\ fr[D] \in Frame
  BY LenProperties, ElementOfSeq DEF Stacked
<1>2. fr2 = [d \in 1..D |-> IF d = D THEN x ELSE fr[d]]
  BY <1>1 DEF Added
<1>r. fr2 = Replaced(fr, x)
  BY <1>2 DEF Replaced
<1>3. x \in Frame /\ x.op = fr[D].op /\ x.events = fr[D].events \o es /\ x.status = "running"
  <2>1. fr[D].events \o es \in Seq(Events)
    BY <1>1, ConcatProperties DEF Frame
  <2> QED BY <1>1, <2>1 DEF Frame
<1>a. Adds(fr, es, x)
  BY <1>3 DEF Adds
<1> HIDE DEF x, fr2
<1>4. Stacked(fr2) /\ Pushing(fr, es, fr2) /\ Len(fr2) = D /\ fr2[D] = x
  BY <1>1, <1>r, <1>a, RunningWithin, TopChanged
<1> QED BY <1>3, <1>4 DEF fr2

\* A call under a stack whose calls all wait.
LEMMA NestedStack ==
  ASSUME NEW fr, Stacked(fr), Len(fr) > 0 => fr[Len(fr)].status = "running",
         NEW op \in Nat, NEW create \in BOOLEAN, NEW status \in EntryStatus(Len(fr) + 1)
  PROVE  LET x   == Entered(Len(fr) + 1, op, create, status)
             fr2 == Append(fr, x)
         IN  /\ x \in Frame /\ Stacked(fr2) /\ Len(fr2) = Len(fr) + 1 /\ fr2[Len(fr) + 1] = x
             /\ x.events = << Event("call", Len(fr) + 1, 0, FALSE) >> /\ x.op = op
<1> DEFINE D   == Len(fr)
           c   == Event("call", D + 1, 0, FALSE)
           x   == Entered(D + 1, op, create, status)
           fr2 == Append(fr, x)
<1>1. D \in Nat /\ \A d \in 1..D : d < D \/ d = D
  BY LenProperties DEF Stacked
<1>2. c \in Events
  BY <1>1 DEF Event, Events, Kinds
<1>3. <<c>> \in Seq(Events)
  <2> HIDE DEF c
  <2> QED BY <1>2
<1>4. status \in Statuses /\ (D + 1 > DepthLimit => status = "reverted")
  BY DEF EntryStatus, Statuses
<1>5. x \in Frame /\ x.status = status /\ x.events = <<c>> /\ x.op = op
  BY <1>3, <1>4 DEF Entered, Frame
<1>6. fr \in Seq(Frame)
  BY DEF Stacked
<1> HIDE DEF x, c
<1>7. /\ fr2 \in Seq(Frame) /\ Len(fr2) = D + 1 /\ fr2[D + 1] = x
      /\ \A d \in 1..D : fr2[d] = fr[d]
  BY <1>5, <1>6, AppendProperties
<1> HIDE DEF fr2
<1>8. Stacked(fr2)
  <2>1. ASSUME NEW d \in 1..(D + 1)
        PROVE  /\ d < D + 1 => fr2[d].status = "running"
               /\ d > DepthLimit => fr2[d].status = "reverted"
    <3>1. CASE d = D + 1
      BY <1>1, <1>4, <1>5, <1>7, <3>1
    <3>2. CASE d # D + 1
      <4>1. d \in 1..D /\ D > 0
        BY <1>1, <3>2
      <4>2. fr[d].status = "running"
        BY <1>1, <4>1 DEF Stacked
      <4> QED BY <1>7, <4>1, <4>2 DEF Stacked
    <3> QED BY <3>1, <3>2
  <2> QED BY <1>7, <2>1 DEF Stacked
<1> QED BY <1>5, <1>7, <1>8 DEF x, fr2, c

\* The events before a call: those of the accounts it touches.
Quiet(es, D) ==
  Block(es, D) /\ Silent(es) /\ es # <<>> /\ \A i \in DOMAIN es : es[i].kind # "halt"

LEMMA EnterStep ==
  ASSUME Inv, NEW create \in BOOLEAN, NEW es, Enter(create, es), Quiet(es, Len(frames))
  PROVE  Inv'
<1> DEFINE D   == Len(frames)
           n   == Len(ran) + 1
           r2  == Append(ran, "call")
           fr1 == Added(frames, es)
           b   == Event("op", D, n, FALSE)
           c   == Event("call", D + 1, 0, FALSE)
           blk == es \o <<b>>
<1>1. /\ trace \in Seq(Events) /\ ran \in Seq(Ran) /\ Stacked(frames) /\ Flow
      /\ trace' = trace /\ phase' = phase /\ ran' = r2
      /\ D > 0 /\ frames[D].status = "running"
  BY DEF Inv, Enter, Running, Top, Depth
<1>2. PICK status \in EntryStatus(D + 1) : frames' = Append(fr1, Entered(D + 1, n, create, status))
  BY DEF Enter, Depth, Now, Added
<1>3. PICK w : Ends(trace, frames, w) /\ Good(w, frames, ran)
  BY DEF Inv
<1>4. es \in Seq(Events) /\ Block(es, D) /\ Silent(es) /\ es # <<>> /\ \A i \in DOMAIN es : es[i].kind # "halt"
  BY DEF Quiet, Block
<1>5. /\ D \in Nat /\ D <= DepthLimit /\ n \in Nat /\ 1 \in DOMAIN es
      /\ w \in Seq(Events) /\ Tree(w, ran) /\ Order(w, ran) /\ Last(w, frames)
  <2>1. D \in Nat /\ D <= DepthLimit
    BY <1>1, RunningWithin
  <2>2. Len(ran) \in Nat /\ 1 \in DOMAIN es
    BY <1>1, <1>4, LenProperties, EmptySeq
  <2> QED BY <1>3, <2>1, <2>2 DEF Good
<1>6. Stacked(fr1) /\ Pushing(frames, es, fr1) /\ Len(fr1) = D /\ fr1[D].status = "running"
  BY <1>1, <1>4, AddedFacts
<1>7. Ends(trace, fr1, w \o es)
  BY <1>1, <1>3, <1>4, <1>6, EndsPush
<1> DEFINE x   == Entered(D + 1, n, create, status)
           fr2 == Append(fr1, x)
<1>8. /\ x \in Frame /\ Stacked(fr2) /\ Len(fr2) = D + 1 /\ fr2[D + 1] = x
      /\ x.events = <<c>> /\ x.op = n
  <2>1. /\ Stacked(fr1) /\ status \in EntryStatus(Len(fr1) + 1) /\ n \in Nat
        /\ Len(fr1) > 0 => fr1[Len(fr1)].status = "running"
    BY <1>2, <1>5, <1>6
  <2> DEFINE m == Len(fr1)
             y == Entered(m + 1, n, create, status)
  <2> HIDE DEF fr1, n
  <2>2. /\ y \in Frame /\ Stacked(Append(fr1, y)) /\ Len(Append(fr1, y)) = m + 1
        /\ Append(fr1, y)[m + 1] = y
        /\ y.events = << Event("call", m + 1, 0, FALSE) >> /\ y.op = n
    BY <2>1, NestedStack
  <2>3. m = D
    BY <1>6
  <2> HIDE DEF m, D
  <2> QED BY <2>2, <2>3
<1>9. OpOf(b, D, n) /\ b \in Events /\ b.depth = D /\ b.kind = "op" /\ b.op = n
  BY <1>5 DEF OpOf, Event, Events, Kinds
<1>10. c \in Events /\ c.depth = D + 1 /\ c.kind = "call" /\ c.op = 0
  BY <1>5 DEF Event, Events, Kinds
<1>11. r2 \in Seq(Ran) /\ Extends(ran, r2) /\ r2[n] = "call"
  <2>1. "call" \in Ran
    BY DEF Ran
  <2> QED BY <1>1, <2>1, RanGrows
<1>12. Ends(trace, fr2, Joined(w \o es, D + 1, fr2))
  BY <1>1, <1>6, <1>7, <1>8, EndsNest
<1>13. Joined(w \o es, D + 1, fr2) = (w \o blk) \o <<c>>
  <2>1. Gap(D + 1, fr2) = <<b>>
    <3>1. D + 1 # 1 /\ (D + 1) - 1 = D /\ fr2[D + 1].op = n
      BY <1>1, <1>5, <1>8
    <3> HIDE DEF D, n, fr2
    <3> QED BY <3>1 DEF Gap
  <2>2. fr2[D + 1].events = <<c>>
    BY <1>8
  <2>3. <<b>> \in Seq(Events)
    <3> HIDE DEF b
    <3> QED BY <1>9
  <2>4. (w \o es) \o <<b>> = w \o blk
    <3> DEFINE one == <<b>>
    <3>1. one \in Seq(Events)
      BY <2>3
    <3> HIDE DEF one
    <3>2. (w \o es) \o one = w \o (es \o one)
      BY <1>4, <1>5, <3>1, Associative
    <3> QED BY <3>2 DEF one
  <2> HIDE DEF D, b, c, fr2, blk
  <2> QED BY <2>1, <2>2, <2>4 DEF Joined
<1> HIDE DEF b, c, x, fr2, fr1
<1>14. Block(blk, D) /\ Traces(blk, n) /\ blk # <<>> /\ blk[Len(blk)] = b
  BY <1>4, <1>9, BlockThen
<1>15. Ready(w, blk[1])
  <2>1. blk[1].depth = D
    <3>1. 1 \in DOMAIN blk
      BY <1>14, LenProperties, EmptySeq DEF Block
    <3> QED BY <1>14, <3>1 DEF Block
  <2>2. w # <<>> => w[Len(w)] \in Events
    BY <1>5, LenProperties, ElementOfSeq, EmptySeq
  <2> HIDE DEF blk
  <2> QED BY <1>1, <1>5, <2>1, <2>2 DEF Ready, Last, Events
<1> HIDE DEF blk
<1>16. w \o blk \in Seq(Events) /\ Tree(w \o blk, r2) /\ Order(w \o blk, r2)
  <2>1. w \o blk \in Seq(Events) /\ Tree(w \o blk, r2)
    BY <1>5, <1>11, <1>14, <1>15, TreeBlock
  <2>2. "call" \in Ran /\ "call" # "unpriced"
    BY DEF Ran
  <2>3. blk \in Seq(Events)
    BY <1>14 DEF Block
  <2>4. Order(w \o blk, r2)
    BY <1>1, <1>5, <1>14, <2>2, <2>3, OrderTraces
  <2> QED BY <2>1, <2>4
<1> DEFINE u == w \o blk
<1>17. u # <<>> /\ u[Len(u)] = b
  <2>1. blk \in Seq(Events) /\ Len(blk) \in 1..Len(blk)
    BY <1>14, LenProperties, EmptySeq DEF Block
  <2>2. Len(u) = Len(w) + Len(blk) /\ u[Len(w) + Len(blk)] = blk[Len(blk)] /\ Len(w) \in Nat
    BY <1>5, <2>1, EventsConcat
  <2> HIDE DEF u
  <2>3. u # <<>>
    BY <2>1, <2>2, EmptySeq
  <2> QED BY <1>14, <2>2, <2>3
<1> HIDE DEF u, r2
<1>18. Follows(u[Len(u)], c, r2)
  BY <1>5, <1>9, <1>10, <1>11, <1>17 DEF Follows
<1>19. /\ u \o <<c>> \in Seq(Events) /\ Tree(u \o <<c>>, r2) /\ Order(u \o <<c>>, r2)
       /\ u \o <<c>> # <<>> /\ (u \o <<c>>)[Len(u \o <<c>>)] = c
  BY <1>10, <1>16, <1>17, <1>18, CallFollows DEF u
<1>20. frames' = fr2
  BY <1>2 DEF fr2, x
<1>21. Ends(trace', frames', u \o <<c>>)
  BY <1>1, <1>12, <1>13, <1>20 DEF u
<1>22. Good(u \o <<c>>, frames', ran')
  <2>1. Last(u \o <<c>>, fr2)
    BY <1>5, <1>8, <1>10, <1>19 DEF Last
  <2> QED BY <1>1, <1>19, <1>20, <2>1 DEF Good
<1>23. Flow'
  BY <1>1, <1>5, <1>8, <1>20 DEF Flow
<1>24. FlagsAgree'
  BY <1>1, NotCalled
<1> QED BY <1>1, <1>8, <1>11, <1>20, <1>21, <1>22, <1>23, <1>24 DEF Inv

LEMMA QuietTuples ==
  ASSUME NEW D, NEW a \in Events, a.depth = D, a.kind = "account"
  PROVE  Quiet(<<a>>, D) /\ Quiet(<<a, a, a>>, D)
<1>1. Quiet(<<a>>, D)
  <2> DEFINE es == <<a>>
  <2>1. es \in Seq(Events) /\ DOMAIN es = {1} /\ es[1] = a /\ Len(es) = 1 /\ es # <<>>
    OBVIOUS
  <2> HIDE DEF es
  <2>2. Quiet(es, D)
    BY <2>1 DEF Quiet, Block, Silent
  <2> QED BY <2>2 DEF es
<1>2. Quiet(<<a, a, a>>, D)
  <2> DEFINE es == <<a, a, a>>
  <2>1. /\ es \in Seq(Events) /\ DOMAIN es = {1, 2, 3} /\ es[1] = a /\ es[2] = a /\ es[3] = a
        /\ Len(es) = 3 /\ es # <<>>
    OBVIOUS
  <2> HIDE DEF es
  <2>2. Quiet(es, D)
    BY <2>1 DEF Quiet, Block, Silent
  <2> QED BY <2>2 DEF es
<1> QED BY <1>1, <1>2

LEMMA CallSteps ==
  ASSUME Inv
  PROVE  (Call => Inv') /\ (Create => Inv')
<1>1. Account \in Events /\ Account.depth = Len(frames) /\ Account.kind = "account"
  <2>1. Len(frames) \in Nat /\ Len(ran) \in Nat
    BY LenProperties DEF Inv, Stacked
  <2> QED BY <2>1 DEF Account, Event, Events, Kinds, Depth, Now
<1>2. Quiet(<<Account>>, Len(frames)) /\ Quiet(<<Account, Account, Account>>, Len(frames))
  BY <1>1, QuietTuples
<1>3. ASSUME Call PROVE Inv'
  <2>1. \/ Enter(FALSE, <<Account, Account, Account>>)
        \/ Enter(FALSE, <<Account>>)
    BY <1>3 DEF Call
  <2> QED BY <1>2, <2>1, EnterStep
<1>4. ASSUME Create PROVE Inv'
  BY <1>2, <1>4, EnterStep DEF Create
<1> QED BY <1>3, <1>4

-----------------------------------------------------------------------------
(* A call is over *)

\* What is pushed after a call is over, if anything.
Closing(es, D) == Block(es, D) /\ Silent(es) /\ \A i \in DOMAIN es : es[i].kind # "halt"

LEMMA ClosingFacts ==
  ASSUME NEW D
  PROVE  /\ Closing(<<>>, D)
         /\ \A es : Quiet(es, D) => Closing(es, D)
<1>1. <<>> \in Seq(Events) /\ DOMAIN <<>> = {}
  OBVIOUS
<1>2. Closing(<<>>, D)
  <2> DEFINE es == <<>>
  <2>1. es \in Seq(Events) /\ DOMAIN es = {}
    BY <1>1
  <2> HIDE DEF es
  <2>2. Closing(es, D)
    BY <2>1 DEF Closing, Block, Silent
  <2> QED BY <2>2 DEF es
<1> QED BY <1>2 DEF Closing, Quiet

\* The trace w, whose flags become those of v, goes on with es.
Closed(w, v, D, es) ==
  /\ w \in Seq(Events) /\ v \in Seq(Events) /\ Same(w, v)
  /\ D \in Nat /\ D <= DepthLimit /\ Closing(es, D)
  /\ w # <<>> /\ w[Len(w)].depth >= D
  /\ es # <<>> => w[Len(w)].depth > D \/ es[1].op = 0

LEMMA ClosedGood ==
  ASSUME NEW w, NEW v, NEW r, NEW D, NEW es, Closed(w, v, D, es), Tree(w, r), Order(w, r)
  PROVE  LET x == v \o es
         IN  /\ x \in Seq(Events) /\ Tree(x, r) /\ Order(x, r) /\ x # <<>>
             /\ w[Len(w)].depth > D =>
                  x[Len(x)].depth >= D /\ (x[Len(x)].kind = "halt" => x[Len(x)].depth > D)
<1> DEFINE x == v \o es
<1>1. /\ w \in Seq(Events) /\ v \in Seq(Events) /\ Same(w, v)
      /\ D \in Nat /\ D <= DepthLimit /\ Closing(es, D)
      /\ w # <<>> /\ w[Len(w)].depth >= D
      /\ es # <<>> => w[Len(w)].depth > D \/ es[1].op = 0
  BY DEF Closed
<1>2. es \in Seq(Events) /\ Block(es, D) /\ Silent(es) /\ \A i \in DOMAIN es : es[i].kind # "halt"
  BY <1>1 DEF Closing, Block
<1>3. Tree(v, r) /\ Order(v, r)
  BY <1>1, SameGood
<1>4. /\ Len(v) = Len(w) /\ Len(w) \in DOMAIN w /\ Len(w) \in Nat /\ v # <<>>
      /\ v[Len(v)].depth = w[Len(w)].depth /\ v[Len(v)] \in Events
  <2>1. Len(w) \in Nat /\ Len(w) # 0 /\ DOMAIN w = 1..Len(w)
    BY <1>1, LenProperties, EmptySeq
  <2>2. Len(w) \in DOMAIN w
    BY <2>1
  <2>3. Len(v) = Len(w) /\ v[Len(v)].depth = w[Len(w)].depth
    BY <1>1, <2>2 DEF Same
  <2>4. v # <<>> /\ v[Len(v)] \in Events
    BY <1>1, <2>1, <2>3, EmptySeq, ElementOfSeq
  <2> QED BY <2>1, <2>2, <2>3, <2>4
<1>5. es # <<>> => /\ 1 \in DOMAIN es /\ Len(es) \in DOMAIN es
                   /\ es[1].depth = D /\ es[Len(es)].depth = D /\ es[Len(es)].kind # "halt"
  <2>1. es # <<>> => 1 \in DOMAIN es /\ Len(es) \in DOMAIN es
    BY <1>2, LenProperties, EmptySeq
  <2> QED BY <1>2, <2>1 DEF Block
<1>6. es # <<>> => Ready(v, es[1])
  <2> SUFFICES ASSUME es # <<>> PROVE Ready(v, es[1])
    OBVIOUS
  <2> QED BY <1>1, <1>4, <1>5 DEF Ready
<1>7. Extends(r, r)
  BY DEF Extends
<1>8. x \in Seq(Events) /\ Tree(x, r)
  BY <1>1, <1>2, <1>3, <1>6, <1>7, TreeBlock
<1>9. Order(x, r)
  BY <1>1, <1>2, <1>3, OrderSilent
<1>10. /\ Len(x) = Len(v) + Len(es) /\ Len(es) \in Nat /\ Len(v) \in Nat
       /\ (\A i \in 1..Len(v) : x[i] = v[i]) /\ \A i \in 1..Len(es) : x[Len(v) + i] = es[i]
       /\ DOMAIN es = 1..Len(es)
  BY <1>1, <1>2, EventsConcat
<1> HIDE DEF x
<1>11. x # <<>>
  <2>1. Len(x) # 0
    BY <1>1, <1>4, <1>10, EmptySeq
  <2> QED BY <2>1, EmptySeq
<1>12. ASSUME w[Len(w)].depth > D
       PROVE  x[Len(x)].depth >= D /\ (x[Len(x)].kind = "halt" => x[Len(x)].depth > D)
  <2>1. CASE es = <<>>
    <3>1. Len(es) = 0
      BY <2>1, EmptySeq
    <3>2. Len(x) = Len(v) /\ x[Len(x)] = v[Len(v)]
      <4>1. Len(v) # 0
        BY <1>1, <1>4, EmptySeq
      <4> QED BY <1>10, <3>1, <4>1
    <3>3. v[Len(v)].depth \in Nat
      BY <1>4 DEF Events
    <3> QED BY <1>1, <1>4, <1>12, <3>2, <3>3
  <2>2. CASE es # <<>>
    <3>1. x[Len(x)] = es[Len(es)]
      BY <1>5, <1>10, <2>2
    <3> QED BY <1>1, <1>5, <2>2, <3>1
  <2> QED BY <2>1, <2>2
<1> QED BY <1>8, <1>9, <1>11, <1>12 DEF x

\* What Leave does to the frame of the caller.
Resumed(y, events) == [y EXCEPT !.steps = @ + 1, !.events = events]

LEMMA ResumedFacts ==
  ASSUME NEW y \in Frame, NEW events \in Seq(Events)
  PROVE  LET x == Resumed(y, events)
         IN  x \in Frame /\ x.op = y.op /\ x.events = events /\ x.status = y.status
<1> DEFINE y1 == [y EXCEPT !.steps = y.steps + 1]
<1>1. y1 \in Frame /\ y1.op = y.op /\ y1.status = y.status
  BY DEF Frame
<1>2. Resumed(y, events) = [y1 EXCEPT !.events = events]
  BY Zenon DEF Resumed
<1> HIDE DEF y1
<1> DEFINE x == [y1 EXCEPT !.events = events]
<1>3. x \in Frame /\ x.op = y1.op /\ x.events = events /\ x.status = y1.status
  BY <1>1 DEF Frame
<1> HIDE DEF x
<1> QED BY <1>1, <1>2, <1>3 DEF x

Buffers(a, b, c, d) ==
  a \in Seq(Events) /\ b \in Seq(Events) /\ c \in Seq(Events) /\ d \in Seq(Events)

LEMMA Regroup ==
  ASSUME NEW a, NEW b, NEW c, NEW d, Buffers(a, b, c, d)
  PROVE  a \o ((b \o c) \o d) = ((a \o b) \o c) \o d
<1> USE DEF Buffers
<1>1. b \o c \in Seq(Events)
  BY ConcatProperties
<1>2. (a \o (b \o c)) \o d = a \o ((b \o c) \o d)
  BY <1>1, Associative
<1>3. (a \o b) \o c = a \o (b \o c)
  BY Associative
<1> QED BY <1>2, <1>3

LEMMA LeaveStep ==
  ASSUME Inv, Leave
  PROVE  Inv'
<1> DEFINE D   == Len(frames)
           rev == frames[D].status = "reverted"
           o   == frames[D].events
           op  == Event("op", D - 1, frames[D].op, FALSE)
           v   == Flagged(o, rev)
           one == <<op>>
           ev  == frames[D - 1].events
           fr1 == [i \in 1..(D - 1) |-> frames[i]]
<1>1. /\ trace \in Seq(Events) /\ ran \in Seq(Ran) /\ Stacked(frames) /\ Flow
      /\ trace' = trace /\ phase' = phase /\ ran' = ran
      /\ D > 1 /\ frames[D].status # "running"
  BY DEF Inv, Leave, Ended, Top, Depth
<1>2. PICK w : Ends(trace, frames, w) /\ Good(w, frames, ran)
  BY DEF Inv
<1>3. D \in Nat /\ DOMAIN frames = 1..D /\ \A d \in 1..D : frames[d] \in Frame
  BY <1>1, LenProperties, ElementOfSeq DEF Stacked
<1>4. D - 1 \in 1..D /\ D \in 1..D /\ D - 1 < D /\ D - 1 \in Nat /\ D - 1 > 0
  BY <1>1, <1>3
<1>5. /\ o \in Seq(Events) /\ ev \in Seq(Events) /\ frames[D - 1].status = "running"
      /\ op \in Events /\ rev \in BOOLEAN /\ frames[D - 1] \in Frame
  <2>1. frames[D] \in Frame /\ frames[D - 1] \in Frame
    BY <1>3, <1>4
  <2>2. frames[D - 1].status = "running"
    BY <1>1, <1>4 DEF Stacked
  <2>3. op \in Events
    BY <1>4, <2>1 DEF Event, Events, Kinds, Frame
  <2> QED BY <2>1, <2>2, <2>3 DEF Frame
<1>6. one \in Seq(Events)
  <2> HIDE DEF op
  <2> QED BY <1>5
<1>7. /\ v \in Seq(Events) /\ Same(o, v)
      /\ \A t : Join(t, o, rev) = t \o v
  <2> HIDE DEF o, rev
  <2> QED BY <1>5, FlaggedFacts
<1>8. PICK es : /\ Closing(es, D - 1)
                /\ frames' = [i \in 1..(D - 1) |-> IF i < D - 1 THEN frames[i]
                                ELSE Resumed(frames[i], Join(Append(frames[i].events, op), o, rev) \o es)]
  <2>1. PICK es \in {<<>>} \cup (IF Top.create /\ Top.status = "stopped" THEN Deployed ELSE {}) :
          frames' = [i \in 1..(D - 1) |-> IF i < D - 1 THEN frames[i]
                       ELSE Resumed(frames[i], Join(Append(frames[i].events, op), o, rev) \o es)]
    BY DEF Leave, Resumed, Depth, Top
  <2>2. Closing(es, D - 1)
    <3> DEFINE a == Event("account", D - 1, frames[D].op, FALSE)
    <3>1. a \in Events /\ a.depth = D - 1 /\ a.kind = "account"
      BY <1>3, <1>4 DEF Event, Events, Kinds, Frame
    <3>2. es = <<>> \/ es = <<a>> \/ es = <<a, a, a>>
      BY <2>1 DEF Deployed, Depth, Top
    <3> HIDE DEF a
    <3> QED BY <3>1, <3>2, QuietTuples, ClosingFacts
  <2> QED BY <2>1, <2>2
<1>9. es \in Seq(Events)
  BY <1>8 DEF Closing, Block
<1> DEFINE all == (one \o v) \o es
           x   == Resumed(frames[D - 1], ev \o all)
<1>10. all \in Seq(Events) /\ ev \o all \in Seq(Events)
  <2> HIDE DEF one, v, ev
  <2>1. one \o v \in Seq(Events)
    BY <1>6, <1>7, ConcatProperties
  <2>2. all \in Seq(Events)
    BY <1>9, <2>1, ConcatProperties
  <2> HIDE DEF all
  <2> QED BY <1>5, <2>2, ConcatProperties
<1>11. Join(Append(ev, op), o, rev) \o es = ev \o all
  <2>1. Append(ev, op) = ev \o one
    BY <1>5, AppendIsConcat
  <2>2. Join(Append(ev, op), o, rev) = (ev \o one) \o v
    BY <1>7, <2>1
  <2> HIDE DEF one, v, ev
  <2>3. ev \o ((one \o v) \o es) = ((ev \o one) \o v) \o es
    <3>1. Buffers(ev, one, v, es)
      BY <1>5, <1>6, <1>7, <1>9 DEF Buffers
    <3> QED BY <3>1, Regroup
  <2> QED BY <2>2, <2>3
<1>12. /\ Len(fr1) = D - 1 /\ Stacked(fr1) /\ Shrinks(frames, fr1)
       /\ fr1[D - 1] = frames[D - 1]
  <2>1. fr1 \in [1..(D - 1) -> Frame]
    BY <1>3, <1>4
  <2>2. fr1 \in Seq(Frame) /\ Len(fr1) = D - 1
    BY <1>4, <2>1, IsASeq, LenProperties
  <2>3. \A d \in 1..(D - 1) : fr1[d] = frames[d] /\ d \in 1..D
    BY <1>3
  <2> HIDE DEF fr1
  <2>4. Stacked(fr1)
    <3>1. \A d \in 1..(D - 1) : d < D
      BY <1>3
    <3> QED BY <1>1, <2>2, <2>3, <3>1 DEF Stacked
  <2> QED BY <1>4, <2>2, <2>3, <2>4 DEF Shrinks
<1>13. PICK v0 \in Seq(Events) : Ends(trace, fr1, v0) /\ w = Joined(v0, D, frames)
  <2>1. Len(frames) > 0
    BY <1>1
  <2> HIDE DEF fr1
  <2> QED BY <1>1, <1>2, <1>12, <2>1, EndsPop
<1> DEFINE base == v0 \o one
           w2   == base \o v
<1>14. base \in Seq(Events) /\ w = base \o o /\ w2 \in Seq(Events) /\ Same(w, w2)
  <2>1. base \in Seq(Events)
    <3> HIDE DEF one
    <3> QED BY <1>6, <1>13, ConcatProperties
  <2>2. w = base \o o
    <3>1. Gap(D, frames) = one
      <4>1. D # 1
        BY <1>1, <1>3
      <4> HIDE DEF D
      <4> QED BY <4>1 DEF Gap, op
    <3> HIDE DEF one
    <3> QED BY <1>13, <3>1 DEF Joined
  <2> HIDE DEF base, v, o
  <2>3. w2 \in Seq(Events)
    BY <1>7, <2>1, ConcatProperties
  <2>4. Same(base \o o, base \o v)
    BY <1>5, <1>7, <2>1, SameConcat
  <2> QED BY <2>1, <2>2, <2>3, <2>4
<1>15. v0 \o all = w2 \o es
  <2> HIDE DEF one, v
  <2>1. Buffers(v0, one, v, es)
    BY <1>6, <1>7, <1>9, <1>13 DEF Buffers
  <2> QED BY <2>1, Regroup
<1>16. frames' = Replaced(fr1, x)
  <2>1. frames' = [i \in 1..(D - 1) |-> IF i = D - 1 THEN x ELSE frames[i]]
    <3>1. \A i \in 1..(D - 1) : i < D - 1 <=> i # D - 1
      <4>1. D \in Nat
        BY <1>3
      <4> HIDE DEF D
      <4> QED BY <4>1
    <3>2. Resumed(frames[D - 1], Join(Append(ev, op), o, rev) \o es) = x
      BY <1>11
    <3> HIDE DEF x
    <3> QED BY <1>8, <3>1, <3>2
  <2>2. \A i \in 1..(D - 1) : fr1[i] = frames[i]
    OBVIOUS
  <2>3. Replaced(fr1, x) = [i \in 1..(D - 1) |-> IF i = D - 1 THEN x ELSE fr1[i]]
    BY <1>12 DEF Replaced
  <2> HIDE DEF x, fr1
  <2> QED BY <2>1, <2>2, <2>3
<1>17. x \in Frame /\ x.op = frames[D - 1].op /\ x.events = ev \o all /\ x.status = "running"
  <2> DEFINE y == frames[D - 1]
             e == ev \o all
  <2>1. y \in Frame /\ e \in Seq(Events)
    BY <1>5, <1>10
  <2> HIDE DEF y, e
  <2>2. Resumed(y, e) \in Frame /\ Resumed(y, e).op = y.op /\ Resumed(y, e).events = e /\ Resumed(y, e).status = y.status
    BY <2>1, ResumedFacts
  <2> QED BY <1>5, <2>2 DEF y, e
<1> HIDE DEF all, x, fr1, base, one, v, op, rev
<1>18. Adds(fr1, all, x)
  BY <1>12, <1>17 DEF Adds
<1>19. /\ Len(fr1) > 0 /\ Len(fr1) <= DepthLimit /\ ~(Len(fr1) > DepthLimit)
       /\ fr1[Len(fr1)].status = "running"
  <2>1. Len(fr1) > 0 /\ fr1[Len(fr1)].status = "running"
    BY <1>4, <1>5, <1>12
  <2> QED BY <1>12, <2>1, RunningWithin
<1>20. /\ Stacked(frames') /\ Pushing(fr1, all, frames') /\ Len(frames') = D - 1
       /\ frames'[D - 1].status = "running"
  <2>1. LET fr2 == Replaced(fr1, x)
        IN  Stacked(fr2) /\ Pushing(fr1, all, fr2) /\ Len(fr2) = Len(fr1) /\ fr2[Len(fr1)] = x
    BY <1>10, <1>12, <1>18, <1>19, TopChanged
  <2> QED BY <1>12, <1>16, <1>17, <2>1
<1>21. Ends(trace, frames', v0 \o all)
  BY <1>1, <1>10, <1>12, <1>13, <1>19, <1>20, EndsPush
<1> HIDE DEF w2
<1>22. Tree(w, ran) /\ Order(w, ran) /\ w \in Seq(Events) /\ w # <<>> /\ w[Len(w)].depth >= D
       /\ w[Len(w)] \in Events
  <2>1. Tree(w, ran) /\ Order(w, ran) /\ w \in Seq(Events) /\ w # <<>> /\ w[Len(w)].depth >= D
    BY <1>1, <1>2 DEF Good, Last
  <2>2. w[Len(w)] \in Events
    BY <2>1, LenProperties, ElementOfSeq, EmptySeq
  <2> QED BY <2>1, <2>2
<1>23. Closed(w, w2, D - 1, es) /\ w[Len(w)].depth > D - 1
  <2>1. D - 1 \in Nat /\ D - 1 <= DepthLimit /\ w[Len(w)].depth >= D - 1 /\ w[Len(w)].depth > D - 1
    <3>1. w[Len(w)].depth \in Nat
      BY <1>22 DEF Events
    <3> QED BY <1>3, <1>4, <1>12, <1>19, <1>22, <3>1
  <2> QED BY <1>8, <1>14, <1>22, <2>1 DEF Closed
<1>24. LET z == w2 \o es
       IN  /\ z \in Seq(Events) /\ Tree(z, ran) /\ Order(z, ran) /\ z # <<>>
           /\ z[Len(z)].depth >= D - 1 /\ (z[Len(z)].kind = "halt" => z[Len(z)].depth > D - 1)
  BY <1>22, <1>23, ClosedGood
<1>25. Good(w2 \o es, frames', ran')
  BY <1>1, <1>20, <1>24 DEF Good, Last
<1>26. Flow'
  BY <1>1, <1>4, <1>20 DEF Flow
<1>27. FlagsAgree'
  <2>1. Len(frames) > 0
    BY <1>1, <1>3
  <2> QED BY <1>1, <2>1, NotCalled
<1> QED BY <1>1, <1>15, <1>20, <1>21, <1>25, <1>26, <1>27 DEF Inv

-----------------------------------------------------------------------------
(* The transaction *)

LEMMA NoFrames ==
  /\ Stacked(<<>>)
  /\ \A tr, w : Ends(tr, <<>>, w) <=> w = tr
<1>1. Len(<<>>) = 0 /\ <<>> \in Seq(Frame) /\ 1..0 = {} /\ 0..0 = {0}
  OBVIOUS
<1>2. Stacked(<<>>)
  <2> DEFINE fr == <<>>
  <2>1. fr \in Seq(Frame) /\ 1..Len(fr) = {}
    BY <1>1
  <2> HIDE DEF fr
  <2>2. Stacked(fr)
    BY <2>1 DEF Stacked
  <2> QED BY <2>2 DEF fr
<1>3. ASSUME NEW tr, NEW w
      PROVE  Ends(tr, <<>>, w) <=> w = tr
  <2> DEFINE fr == <<>>
  <2>1. Len(fr) = 0 /\ 0..Len(fr) = {0}
    BY <1>1
  <2> HIDE DEF fr
  <2>2. ASSUME NEW f, Parts(f, tr, fr)
        PROVE  f[0] = tr
    BY <2>1, <2>2 DEF Parts
  <2>3. Parts([d \in {0} |-> tr], tr, fr)
    BY <2>1 DEF Parts
  <2>4. Ends(tr, fr, w) <=> w = tr
    BY <2>1, <2>2, <2>3 DEF Ends
  <2> QED BY <2>4 DEF fr
<1> QED BY <1>2, <1>3

LEMMA ClosingStarts ==
  ASSUME NEW tr, Closing(tr, 1)
  PROVE  tr \in Seq(Events) /\ Tree(tr, <<>>) /\ Order(tr, <<>>)
<1>1. /\ tr \in Seq(Events) /\ Block(tr, 1) /\ Silent(tr)
      /\ 1 \in Nat /\ 1 <= DepthLimit
  BY LimitAssumption DEF Closing, Block
<1>2. Tree(tr, <<>>)
  BY <1>1, BlockTree
<1>3. Order(tr, <<>>)
  <2>1. Ops(tr) = {}
    BY <1>1 DEF Ops, Silent
  <2>2. DOMAIN <<>> = {}
    OBVIOUS
  <2> DEFINE r == <<>>
  <2>3. DOMAIN r = {}
    BY <2>2
  <2> HIDE DEF r
  <2>4. Order(tr, r)
    BY <2>1, <2>3 DEF Order
  <2> QED BY <2>4 DEF r
<1> QED BY <1>1, <1>2, <1>3

\* The call of a transaction, after the events tr.
LEMMA Starts ==
  ASSUME NEW tr, Closing(tr, 1), NEW create \in BOOLEAN, NEW status \in EntryStatus(1)
  PROVE  LET fr2 == << Entered(1, 0, create, status) >>
         IN  Stacked(fr2) /\ Len(fr2) = 1 /\ \E w : Ends(tr, fr2, w) /\ Good(w, fr2, <<>>)
<1> DEFINE none == <<>>
           x    == Entered(1, 0, create, status)
           c    == Event("call", 1, 0, FALSE)
           fr2  == Append(none, x)
<1>1. fr2 = <<x>>
  OBVIOUS
<1>2. Len(none) = 0 /\ Stacked(none) /\ Ends(tr, none, tr)
  BY NoFrames
<1>3. tr \in Seq(Events) /\ Tree(tr, none) /\ Order(tr, none) /\ Closing(tr, 1)
  BY ClosingStarts
<1> HIDE DEF none
<1>4. /\ x \in Frame /\ Stacked(fr2) /\ Len(fr2) = 1 /\ fr2[1] = x /\ x.events = <<c>> /\ x.op = 0
  <2> DEFINE m == Len(none)
             y == Entered(m + 1, 0, create, status)
  <2>1. status \in EntryStatus(m + 1) /\ (m > 0 => none[m].status = "running") /\ 0 \in Nat
        /\ Stacked(none)
    BY <1>2
  <2>2. /\ y \in Frame /\ Stacked(Append(none, y)) /\ Len(Append(none, y)) = m + 1
        /\ Append(none, y)[m + 1] = y
        /\ y.events = << Event("call", m + 1, 0, FALSE) >> /\ y.op = 0
    BY <2>1, NestedStack
  <2>3. m + 1 = 1
    BY <1>2
  <2> HIDE DEF m
  <2> QED BY <2>2, <2>3
<1>5. c \in Events /\ c.depth = 1 /\ c.kind = "call"
  BY DEF Event, Events, Kinds
<1> HIDE DEF x, c, fr2
<1>6. Ends(tr, Append(none, x), Joined(tr, Len(none) + 1, Append(none, x)))
  BY <1>2, <1>3, <1>4, EndsNest
<1>7. Ends(tr, fr2, Joined(tr, 1, fr2))
  <2>1. Len(none) + 1 = 1
    BY <1>2
  <2> QED BY <1>6, <2>1 DEF fr2
<1>8. Joined(tr, 1, fr2) = tr \o <<c>>
  <2>1. Gap(1, fr2) = <<>>
    BY DEF Gap
  <2>2. tr \o <<>> = tr
    BY <1>3, ConcatEmptySeq
  <2> QED BY <1>4, <2>1, <2>2 DEF Joined
<1>9. tr # <<>> => Follows(tr[Len(tr)], c, none)
  <2> SUFFICES ASSUME tr # <<>> PROVE Follows(tr[Len(tr)], c, none)
    OBVIOUS
  <2>1. Len(tr) \in DOMAIN tr
    BY <1>3, LenProperties, EmptySeq
  <2>2. tr[Len(tr)].kind # "halt"
    BY <1>3, <2>1 DEF Closing
  <2> QED BY <1>5, <2>2 DEF Follows
<1> DEFINE w == tr \o <<c>>
<1>10. /\ w \in Seq(Events) /\ Tree(w, none) /\ Order(w, none)
       /\ w # <<>> /\ w[Len(w)] = c
  BY <1>3, <1>5, <1>9, CallFollows
<1> HIDE DEF w
<1>11. Good(w, fr2, none)
  BY <1>4, <1>5, <1>10 DEF Good, Last
<1>12. Ends(tr, fr2, w)
  BY <1>7, <1>8 DEF w
<1> QED BY <1>1, <1>4, <1>11, <1>12 DEF x, none

\* No transaction is under way.
LEMMA IdleGood ==
  trace = <<>> /\ frames = <<>> /\ ran = <<>> /\ phase = "idle" => Inv
<1> SUFFICES ASSUME trace = <<>>, frames = <<>>, ran = <<>>, phase = "idle"
             PROVE  Inv
  OBVIOUS
<1>1. Closing(<<>>, 1)
  BY ClosingFacts
<1>2. <<>> \in Seq(Events) /\ Tree(<<>>, <<>>) /\ Order(<<>>, <<>>)
  BY <1>1, ClosingStarts
<1>3. Ends(trace, frames, <<>>) /\ Stacked(frames)
  BY NoFrames
<1>4. Len(frames) = 0 /\ ran \in Seq(Ran)
  OBVIOUS
<1>5. Last(<<>>, frames)
  BY <1>4 DEF Last
<1>6. Good(<<>>, frames, ran)
  BY <1>2, <1>5 DEF Good
<1>7. Flow /\ FlagsAgree
  BY <1>4 DEF Flow, FlagsAgree
<1> QED BY <1>2, <1>3, <1>4, <1>6, <1>7 DEF Inv

LEMMA BeginSteps ==
  ASSUME Inv, Begin \/ BeginCreate
  PROVE  Inv'
<1>1. phase = "idle" /\ trace = <<>> /\ ran = <<>> /\ ran' = <<>>
  BY DEF Inv, Flow, Begin, BeginCreate
<1> DEFINE a == Event("account", 1, 0, FALSE)
<1>2. a \in Events /\ a.depth = 1 /\ a.kind = "account" /\ a.op = 0 /\ ~a.reverted
  BY DEF Event, Events, Kinds
<1>3. PICK create \in BOOLEAN, status \in EntryStatus(1) :
        /\ frames' = << Entered(1, 0, create, status) >>
        /\ \/ phase' = "calling" /\ trace' \in {<<a>>, <<a, a, a>>}
           \/ phase' = "creating" /\ trace' = <<>>
  BY <1>1 DEF Begin, BeginCreate
<1> HIDE DEF a
<1>4. Closing(trace', 1)
  <2>1. Closing(<<>>, 1) /\ Closing(<<a>>, 1) /\ Closing(<<a, a, a>>, 1)
    BY <1>2, QuietTuples, ClosingFacts
  <2> QED BY <1>3, <2>1
<1>5. trace' \in Seq(Events)
  BY <1>4 DEF Closing, Block
<1>6. /\ Stacked(frames') /\ Len(frames') = 1
      /\ \E w : Ends(trace', frames', w) /\ Good(w, frames', ran')
  BY <1>1, <1>3, <1>4, Starts
<1>7. phase' = "calling" => \A i \in DOMAIN trace' : Prelude(trace'[i])
  <2>1. DOMAIN <<a>> = {1} /\ DOMAIN <<a, a, a>> = {1, 2, 3}
    OBVIOUS
  <2>2. ASSUME phase' = "calling", NEW i \in DOMAIN trace'
        PROVE  trace'[i] = a
    BY <1>3, <2>1, <2>2
  <2> QED BY <1>2, <2>2 DEF Prelude
<1>8. Flow'
  <2>1. phase' \in {"calling", "creating"} /\ (phase' = "creating" => trace' = <<>>)
    BY <1>3
  <2> QED BY <1>6, <1>7, <2>1 DEF Flow
<1>9. FlagsAgree'
  BY <1>3 DEF FlagsAgree
<1>10. ran' \in Seq(Ran)
  BY <1>1
<1> QED BY <1>5, <1>6, <1>8, <1>9, <1>10 DEF Inv

LEMMA EndsLast ==
  ASSUME NEW tr \in Seq(Events), NEW fr, Stacked(fr), NEW w, Ends(tr, fr, w), Len(fr) > 0,
         Shrinks(fr, <<>>)
  PROVE  w = Joined(tr, Len(fr), fr)
<1> DEFINE none == <<>>
<1>1. Shrinks(fr, none)
  OBVIOUS
<1> HIDE DEF none
<1>2. PICK v \in Seq(Events) : Ends(tr, none, v) /\ w = Joined(v, Len(fr), fr)
  BY <1>1, EndsPop
<1>3. v = tr
  BY <1>2, NoFrames DEF none
<1> QED BY <1>2, <1>3

\* The buffer of the transaction's call and the trace before it.
LEMMA OneFrame ==
  ASSUME Inv, Len(frames) = 1
  PROVE  LET o == frames[1].events
         IN  /\ o \in Seq(Events) /\ trace \o o \in Seq(Events) /\ trace \o o # <<>>
             /\ Tree(trace \o o, ran) /\ Order(trace \o o, ran)
             /\ (trace \o o)[Len(trace \o o)].depth >= 1
<1> DEFINE o == frames[1].events
<1>1. trace \in Seq(Events) /\ Stacked(frames)
  BY DEF Inv
<1>2. PICK w : Ends(trace, frames, w) /\ Good(w, frames, ran)
  BY DEF Inv
<1>3. Shrinks(frames, <<>>)
  <2>1. Len(<<>>) = 0 /\ 1..(1 - 1) = {}
    OBVIOUS
  <2> QED BY <2>1 DEF Shrinks
<1>4. w = Joined(trace, Len(frames), frames)
  <2>1. Len(frames) > 0
    OBVIOUS
  <2> QED BY <1>1, <1>2, <1>3, <2>1, EndsLast
<1>6. Gap(1, frames) = <<>>
  BY DEF Gap
<1>7. trace \o <<>> = trace
  BY <1>1, ConcatEmptySeq
<1>8. w = trace \o o
  BY <1>4, <1>6, <1>7 DEF Joined
<1>9. o \in Seq(Events)
  <2>1. 1 \in 1..Len(frames)
    OBVIOUS
  <2> QED BY <1>1, <2>1, GapTypes
<1>10. /\ w \in Seq(Events) /\ Tree(w, ran) /\ Order(w, ran)
       /\ w # <<>> /\ w[Len(w)].depth >= 1
  BY <1>2 DEF Good, Last
<1> HIDE DEF o
<1>11. /\ trace \o o \in Seq(Events) /\ Tree(trace \o o, ran) /\ Order(trace \o o, ran)
       /\ trace \o o # <<>> /\ (trace \o o)[Len(trace \o o)].depth >= 1
  BY <1>8, <1>10
<1> QED BY <1>9, <1>11 DEF o

\* A trace of no call under way.
LEMMA OverGood ==
  ASSUME NEW w, w \in Seq(Events), Tree(w, ran), Order(w, ran), ran \in Seq(Ran),
         trace' = w, frames' = <<>>, ran' = ran, phase' \in {"called", "reverted", "created"}, FlagsAgree'
  PROVE  Inv'
<1>1. Stacked(frames') /\ Ends(trace', frames', w)
  BY NoFrames
<1>2. Len(frames') = 0
  OBVIOUS
<1>3. Good(w, frames', ran')
  BY <1>2 DEF Good, Last
<1>4. Flow'
  BY <1>2 DEF Flow
<1> QED BY <1>1, <1>3, <1>4 DEF Inv

LEMMA FinishStep ==
  ASSUME Inv, Finish
  PROVE  Inv'
<1> DEFINE o   == frames[1].events
           rev == frames[1].status = "reverted"
           v   == Flagged(o, rev)
           a   == Event("account", 1, 0, FALSE)
           fee == Event("fee", 1, 0, FALSE)
<1>1. /\ Len(frames) = 1 /\ phase = "calling" /\ frames' = <<>> /\ ran' = ran
      /\ phase' = IF rev THEN "reverted" ELSE "called"
      /\ trace \in Seq(Events) /\ ran \in Seq(Ran)
  BY DEF Inv, Finish, Ended, Top, Depth
<1>2. PICK es \in {<<fee>>, <<a, fee>>} : trace' = Join(trace, o, rev) \o es
  BY <1>1 DEF Finish, Top, Depth
<1>3. /\ a \in Events /\ a.depth = 1 /\ a.op = 0 /\ a.kind = "account" /\ ~a.reverted
      /\ fee \in Events /\ fee.depth = 1 /\ fee.op = 0 /\ fee.kind = "fee" /\ ~fee.reverted
  BY DEF Event, Events, Kinds
<1> HIDE DEF a, fee
<1>4. /\ es \in Seq(Events) /\ es # <<>> /\ 1 \in DOMAIN es
      /\ \A i \in DOMAIN es : es[i] \in {a, fee}
  <2>1. DOMAIN <<fee>> = {1} /\ DOMAIN <<a, fee>> = {1, 2} /\ <<fee>>[1] = fee
        /\ <<a, fee>>[1] = a /\ <<a, fee>>[2] = fee
        /\ <<fee>> # <<>> /\ <<a, fee>> # <<>>
    OBVIOUS
  <2>2. <<fee>> \in Seq(Events) /\ <<a, fee>> \in Seq(Events)
    BY <1>3
  <2> QED BY <2>1, <2>2
<1>5. Closing(es, 1) /\ es[1].op = 0
  BY <1>3, <1>4 DEF Closing, Block, Silent
<1>6. /\ o \in Seq(Events) /\ trace \o o \in Seq(Events) /\ trace \o o # <<>>
      /\ Tree(trace \o o, ran) /\ Order(trace \o o, ran)
      /\ (trace \o o)[Len(trace \o o)].depth >= 1
  BY <1>1, OneFrame
<1>7. /\ v \in Seq(Events) /\ Same(o, v) /\ Join(trace, o, rev) = trace \o v
      /\ \A i \in DOMAIN v : v[i].reverted = rev
  <2>1. rev \in BOOLEAN
    OBVIOUS
  <2> HIDE DEF o, rev
  <2> QED BY <1>6, <2>1, FlaggedFacts
<1> HIDE DEF o, v, rev
<1>8. trace \o v \in Seq(Events) /\ Same(trace \o o, trace \o v)
  <2>1. trace \o v \in Seq(Events)
    BY <1>1, <1>7, ConcatProperties
  <2>2. Same(trace \o o, trace \o v)
    BY <1>1, <1>6, <1>7, SameConcat
  <2> QED BY <2>1, <2>2
<1> DEFINE x == trace \o v
           z == x \o es
<1>9. z \in Seq(Events) /\ Tree(z, ran) /\ Order(z, ran)
  <2>1. Closed(trace \o o, trace \o v, 1, es)
    BY <1>5, <1>6, <1>8, LimitAssumption DEF Closed
  <2> HIDE DEF x, z
  <2>2. LET y == (trace \o v) \o es
        IN  y \in Seq(Events) /\ Tree(y, ran) /\ Order(y, ran)
    BY <1>6, <2>1, ClosedGood
  <2> QED BY <2>2 DEF x, z
<1>10. trace' = z
  BY <1>2, <1>7
<1>11. \A i \in DOMAIN trace : Prelude(trace[i])
  BY <1>1 DEF Inv, Flow
<1>12. ASSUME NEW i \in DOMAIN z
       PROVE  z[i].reverted = rev \/ Prelude(z[i])
  <2>1. /\ Len(trace) \in Nat /\ Len(v) \in Nat /\ DOMAIN trace = 1..Len(trace)
        /\ DOMAIN v = 1..Len(v) /\ Len(x) = Len(trace) + Len(v)
        /\ (\A j \in 1..Len(trace) : x[j] = trace[j])
        /\ (\A j \in 1..Len(v) : x[Len(trace) + j] = v[j])
    BY <1>1, <1>7, EventsConcat
  <2> HIDE DEF x
  <2>2. /\ Len(es) \in Nat /\ DOMAIN es = 1..Len(es) /\ DOMAIN z = 1..(Len(x) + Len(es))
        /\ (\A j \in 1..Len(x) : z[j] = x[j])
        /\ (\A j \in 1..Len(es) : z[Len(x) + j] = es[j])
    BY <1>4, <1>8, EventsConcat DEF x
  <2> HIDE DEF z
  <2>3. CASE i \in 1..Len(trace)
    <3>1. z[i] = trace[i] /\ Prelude(trace[i])
      BY <1>11, <2>1, <2>2, <2>3
    <3> QED BY <3>1
  <2>4. CASE i \in (Len(trace) + 1)..Len(x)
    <3>1. PICK j \in 1..Len(v) : i = Len(trace) + j
      <4>1. i - Len(trace) \in 1..Len(v) /\ i = Len(trace) + (i - Len(trace))
        BY <2>1, <2>4
      <4> QED BY <4>1
    <3>2. z[i] = v[j]
      BY <2>1, <2>2, <2>4, <3>1
    <3> QED BY <1>7, <2>1, <3>2
  <2>5. CASE i \in (Len(x) + 1)..(Len(x) + Len(es))
    <3>1. PICK j \in 1..Len(es) : i = Len(x) + j
      <4>1. i - Len(x) \in 1..Len(es) /\ i = Len(x) + (i - Len(x))
        BY <2>1, <2>2, <2>5
      <4> QED BY <4>1
    <3>2. z[i] \in {a, fee}
      BY <1>4, <2>2, <3>1
    <3> QED BY <1>3, <3>2 DEF Prelude
  <2> QED BY <2>1, <2>2, <2>3, <2>4, <2>5
<1>13. FlagsAgree'
  <2>1. phase' \in {"called", "reverted"} /\ (phase' = "reverted" <=> rev)
    BY <1>1
  <2> HIDE DEF z
  <2>2. rev \in BOOLEAN
    BY DEF rev
  <2> QED BY <1>10, <1>12, <2>1, <2>2 DEF FlagsAgree, Prelude
<1> HIDE DEF z
<1> QED BY <1>1, <1>9, <1>10, <1>13, OverGood

LEMMA FinishCreateStep ==
  ASSUME Inv, FinishCreate
  PROVE  Inv'
<1> DEFINE o == frames[1].events
<1>1. /\ Len(frames) = 1 /\ phase = "creating" /\ phase' = "created" /\ frames' = <<>> /\ ran' = ran
      /\ trace = <<>> /\ trace' = o /\ ran \in Seq(Ran)
  BY DEF Inv, Flow, FinishCreate, Ended, Top, Depth
<1>2. o \in Seq(Events) /\ Tree(trace \o o, ran) /\ Order(trace \o o, ran)
  BY <1>1, OneFrame
<1> HIDE DEF o
<1>3. trace \o o = o
  BY <1>1, <1>2, ConcatEmptySeq
<1>4. FlagsAgree'
  BY <1>1 DEF FlagsAgree
<1> QED BY <1>1, <1>2, <1>3, <1>4, OverGood

LEMMA TakeStep ==
  ASSUME Inv, Take
  PROVE  Inv'
<1>1. phase \in {"called", "reverted", "created"} /\ trace' = <<>> /\ ran' = <<>> /\ phase' = "idle"
      /\ frames' = frames
  BY DEF Take
<1>2. frames = <<>>
  <2>1. frames \in Seq(Frame) /\ ~(Len(frames) > 0)
    BY <1>1 DEF Inv, Flow, Stacked
  <2> QED BY <2>1, EmptySeq
<1>3. trace' = <<>> /\ frames' = <<>> /\ ran' = <<>> /\ phase' = "idle"
  BY <1>1, <1>2
<1>4. (trace = <<>> /\ frames = <<>> /\ ran = <<>> /\ phase = "idle" => Inv)'
  BY IdleGood, PTL
<1> QED BY <1>3, <1>4

-----------------------------------------------------------------------------
(* Theorems *)

LEMMA StutterStep ==
  ASSUME Inv, UNCHANGED vars
  PROVE  Inv'
<1>1. trace' = trace /\ frames' = frames /\ ran' = ran /\ phase' = phase
  BY DEF vars
<1>2. Flow' /\ FlagsAgree'
  BY <1>1 DEF Inv, Flow, FlagsAgree
<1>3. PICK w : Ends(trace, frames, w) /\ Good(w, frames, ran)
  BY DEF Inv
<1>4. Ends(trace', frames', w) /\ Good(w, frames', ran')
  BY <1>1, <1>3
<1>5. trace' \in Seq(Events) /\ ran' \in Seq(Ran) /\ Stacked(frames')
  BY <1>1 DEF Inv
<1> QED BY <1>2, <1>4, <1>5 DEF Inv

\* Whatever instructions run and however calls and instructions end, the buffers
\* that the executor forks and joins make up a trace that is a tree of calls and
\* in the order of the program.
THEOREM TraceInvariance == Spec => []Inv
<1>1. Init => Inv
  BY IdleGood DEF Init
<1>2. Inv /\ [Next]_vars => Inv'
  <2> SUFFICES ASSUME Inv, [Next]_vars PROVE Inv'
    OBVIOUS
  <2>1. CASE UNCHANGED vars
    BY <2>1, StutterStep
  <2>2. CASE Plain \/ SelfDestruct \/ End \/ Halt \/ HaltSstore \/ Fail \/ FallOff
             \/ CallUnpriced \/ CallUnpaid \/ CallPrecompile
    BY <2>2, InstructionSteps
  <2>3. CASE Call \/ Create
    BY <2>3, CallSteps
  <2>4. CASE Leave
    BY <2>4, LeaveStep
  <2>5. CASE Begin \/ BeginCreate
    BY <2>5, BeginSteps
  <2>6. CASE Finish
    BY <2>6, FinishStep
  <2>7. CASE FinishCreate
    BY <2>7, FinishCreateStep
  <2>8. CASE Take
    BY <2>8, TakeStep
  <2> QED BY <2>1, <2>2, <2>3, <2>4, <2>5, <2>6, <2>7, <2>8 DEF Next
<1> QED BY <1>1, <1>2, PTL DEF Spec

LEMMA InvWhole ==
  ASSUME Inv
  PROVE  Tree(Whole, ran) /\ Order(Whole, ran)
<1>1. PICK w : Ends(trace, frames, w) /\ Good(w, frames, ran)
  BY DEF Inv
<1>2. Whole = w
  <2>1. Len(frames) \in Nat
    BY LenProperties DEF Inv, Stacked
  <2> QED BY <1>1, <2>1, WholeIs
<1> QED BY <1>1, <1>2 DEF Good

\* Every instruction is traced once and in the order in which they started, for
\* any depth of calls and any way they end, but for the call instructions that
\* fail on their operands: the place of a callee's events is right when Leave has
\* appended the caller's event before it joins the buffers.
THEOREM AlwaysProgramOrder == Spec => []ProgramOrder
<1>1. Inv => ProgramOrder
  BY InvWhole DEF ProgramOrder, Order, Ops
<1> QED BY <1>1, TraceInvariance, PTL

\* The depths of the trace are those of a tree of calls, for any limit.
THEOREM AlwaysCallTree == Spec => []CallTree
<1>1. Inv => CallTree
  BY InvWhole DEF CallTree, Tree, Follows
<1> QED BY <1>1, TraceInvariance, PTL

\* The flags of a complete trace tell what became of the transaction, as the last
\* Join sets them over, whatever became of the calls within.
THEOREM AlwaysFlagsAgree == Spec => []FlagsAgree
<1>1. Inv => FlagsAgree
  BY DEF Inv
<1> QED BY <1>1, TraceInvariance, PTL
=============================================================================
