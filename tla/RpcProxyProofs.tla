---------------------------- MODULE RpcProxyProofs ----------------------------
(***************************************************************************)
(* The caching proxy (module RpcProxy), for any number of handlers, nodes  *)
(* and queries.  The invariant says of every value on its way into the     *)
(* cache, in the cache and out of it, which query some node has answered   *)
(* with it, of every inode that it serves one path only, and of every      *)
(* handler what its place in the code entitles it to.                      *)
(***************************************************************************)
EXTENDS RpcProxy, FiniteSetTheorems, WellFoundedInduction, TLAPS

-----------------------------------------------------------------------------
(* The invariant.  The parts of the state are arguments, so that the same  *)
(* formula can be used of the state before and after a step.               *)

Steps == {"idle", "done", "find", "open", "get", "url", "send", "sleep", "insert",
          "create", "write", "finish", "rename", "unlink", "symlink"}

Answers == {Result(q, k) : q \in Queries, k \in 0..MaxBlock} \cup {None, Null, Error, Zero}

Request == [ pc: Steps, q: Queries \cup {Idle.q}, url: Urls, attempt: 0..(MaxAttempts - 1),
             delay: Nat, db: Nat, fd: Inode \cup {0}, val: Answers,
             from: {"none", "proxy", "cache", "upstream"} ]

\* A node with the heads hd has answered the cacheable query q with v, and v is
\* something on_result keeps.
Fetched(q, v, hd) ==
  /\ q \in Queries /\ Cacheable(q)
  /\ \E k \in 0..MaxBlock : v = Result(q, k) /\ \E u \in Urls : k <= hd[u]
  /\ v # Error /\ Stored(q, v) # None

\* p is looked up where q is kept.
SameKey(p, q) ==
  \/ {Method(p), Method(q)} \subseteq KvMethods /\ DbOf(p) = DbOf(q) /\ Key(p) = Key(q)
  \/ Method(p) \in FileMethods /\ Alike(p, q)

\* v is what the cache may answer q with.
Found(q, v, hd) == \E p \in Queries, w \in Answers :
                     Fetched(p, w, hd) /\ v = Stored(p, w) /\ SameKey(p, q)

\* The path of a query that is cached in a file.
PathOf(q) == IF Method(q) \in BlockMethods THEN <<"block", Item(q)>> ELSE <<Method(q), Item(q)>>

\* v may be kept in the file p.
Filed(p, v, hd) ==
  \E q \in Queries : Method(q) \in FileMethods /\ PathOf(q) = p /\ Fetched(q, v, hd)

\* What the place of a handler in the code says of its request.
Placed(r, hd) ==
  /\ r.pc \notin {"idle", "done"} => r.q \in Queries
  /\ r.pc \in {"find", "open"} => /\ Method(r.q) = "eth_getStorageAt" /\ Cacheable(r.q)
                                  /\ r.val = None \/ Fetched(r.q, r.val, hd)
  /\ r.pc = "get" => /\ Cacheable(r.q) /\ r.val = None
                     /\ Method(r.q) = "eth_getStorageAt" => r.db # 0
  /\ r.pc \in {"url", "send", "sleep"} => r.val = None
  /\ r.pc = "insert" => /\ Method(r.q) \in KvMethods /\ Fetched(r.q, r.val, hd)
                        /\ Method(r.q) = "eth_getStorageAt" => r.db # 0
  /\ r.pc \in {"create", "write", "finish", "rename"} =>
       Method(r.q) \in FileMethods /\ Fetched(r.q, r.val, hd)
  /\ r.pc \in {"unlink", "symlink"} => Method(r.q) \in BlockMethods /\ Fetched(r.q, r.val, hd)
  /\ r.fd # 0 <=> r.pc \in {"write", "finish", "rename"}
  /\ r.pc = "done" /\ r.from = "cache" => Found(r.q, r.val, hd)

\* The back-off: before it has reached the limit, the delay is that of the attempt.
Paced(r) ==
  /\ r.pc \notin {"send", "sleep"} /\ r.val = None => r.attempt = 0
  /\ r.pc = "send" /\ r.delay < MaxDelay =>
       r.delay = InitialDelay * Pow2[IF r.attempt = 0 THEN 0 ELSE r.attempt - 1]
  /\ r.pc = "sleep" => /\ r.attempt + 1 < MaxAttempts
                       /\ r.delay < MaxDelay => r.delay = InitialDelay * Pow2[r.attempt]
                       /\ r.delay < 2 * MaxDelay

\* A handler holds the store its database is open with.
Holds(r, d) ==
  r.db # 0 => /\ Method(r.q) = "eth_getStorageAt" /\ r.q \in Queries
              /\ r.db = d[DbOf(r.q)]

Serving(rq, hd, d) ==
  /\ rq \in [Handler -> Request]
  /\ \A h \in Handler : Placed(rq[h], hd) /\ Paced(rq[h]) /\ Holds(rq[h], d)

\* Every entry of a store is what a node has answered to a query with its key.
Kept(name, kv, hd) ==
  \A key \in DOMAIN kv : \E q \in Queries, w \in Answers :
    /\ Method(q) \in KvMethods /\ DbOf(q) = name /\ Key(q) = key
    /\ Fetched(q, w, hd) /\ kv[key] = Stored(q, w)

Stores(d, ks, dk, hd) ==
  /\ \E S : ks \in Seq(S)
  /\ d \in [Dbs -> 0..Len(ks)]
  /\ d[<<"eth_getBalance">>] # 0 /\ d[<<"eth_getTransactionCount">>] # 0
  /\ \A m, n \in Dbs : d[m] = d[n] /\ d[m] # 0 => m = n
  /\ \A n \in Dbs : Kept(n, dk[n], hd) /\ (d[n] # 0 => Kept(n, ks[d[n]], hd))

\* The inode i serves the path p.
Serves(i, p, f, t, rq) ==
  \/ f[p] = i
  \/ t[p] = i
  \/ \E h \in Handler : rq[h].fd = i /\ PathOf(rq[h].q) = p

Files(f, t, b, l, rq, hd) ==
  /\ f \in [Paths -> Inode \cup {0}]
  /\ t \in [Paths -> Inode \cup {0}]
  /\ b \in [Inode -> Answers \X Answers]
  /\ l \in [Blocks -> Blocks \cup {0}]
  /\ \A n \in Blocks : l[n] \in {0, n}
  /\ \A i \in Inode, p, s \in Paths : Serves(i, p, f, t, rq) /\ Serves(i, s, f, t, rq) => p = s
  /\ \A i \in Inode, p \in Paths : Serves(i, p, f, t, rq) =>
       \A j \in {1, 2} : b[i][j] = None \/ Filed(p, b[i][j], hd)

Inv ==
  /\ head \in [Urls -> 0..MaxBlock] /\ url \in Urls /\ kills \in Nat
  /\ Serving(req, head, dbs)
  /\ Stores(dbs, kvs, disk, head)
  /\ Files(file, tmp, blob, link, req, head)

-----------------------------------------------------------------------------
(* Powers of two *)

LEMMA LeastElement ==
  ASSUME NEW I, I \subseteq Nat, I # {}
  PROVE  \E i \in I : \A j \in I : i <= j
<1> DEFINE R == OpToRel(<, Nat)
<1>1. IsWellFoundedOn(R, Nat)
  BY NatLessThanWellFounded
<1>2. PICK i \in I : \A j \in I : ~(<<j, i>> \in R)
  <2> HIDE DEF R
  <2> QED BY <1>1, WFMin, Zenon
<1>3. ASSUME NEW j \in I
      PROVE  i <= j
  <2>1. ~(j < i)
    BY <1>2 DEF OpToRel
  <2> QED BY <2>1
<1> QED BY <1>3

\* Induction, on membership in a set.
LEMMA SetInduction ==
  ASSUME NEW S, 0 \in S, \A n \in Nat : n \in S => n + 1 \in S
  PROVE  Nat \subseteq S
<1> SUFFICES ASSUME Nat \ S # {}
             PROVE  FALSE
  OBVIOUS
<1>1. PICK m \in Nat \ S : \A j \in Nat \ S : m <= j
  BY LeastElement
<1>2. m # 0 /\ m - 1 \in Nat
  BY <1>1
<1>3. m - 1 \in S
  BY <1>1, <1>2
<1> QED BY <1>1, <1>2, <1>3

\* What the recursive definition says is what the powers are.
LEMMA Pow2Facts ==
  /\ Pow2[0] = 1
  /\ \A n \in Nat : Pow2[n + 1] = 2 * Pow2[n]
  /\ \A n \in Nat : Pow2[n] \in Nat
<1> DEFINE Doubled(f, n) == IF n = 0 THEN 1 ELSE 2 * f[n - 1]
           Upto(f, n) == f = [i \in 0..n |-> Doubled(f, i)]
           Defined == {n \in Nat : \E f : Upto(f, n)}
           pow(n) == CHOOSE f : Upto(f, n)
           all == [n \in Nat |-> pow(n)[n]]
<1>1. \A n \in Nat : Upto(pow(n), n)
  <2>1. 0 \in Defined
    <3>1. Upto([i \in 0..0 |-> 1], 0)
      OBVIOUS
    <3> QED BY <3>1
  <2>2. ASSUME NEW n \in Nat, n \in Defined
        PROVE  n + 1 \in Defined
    <3>1. PICK g : Upto(g, n)
      BY <2>2
    <3> DEFINE h == [i \in 0..(n + 1) |-> IF i <= n THEN g[i] ELSE Doubled(g, i)]
    <3>2. ASSUME NEW i \in 0..(n + 1)
          PROVE  h[i] = Doubled(h, i)
      <4>1. i # 0 => i - 1 \in 0..n /\ h[i - 1] = g[i - 1]
        OBVIOUS
      <4>2. h[i] = Doubled(g, i)
        BY <3>1
      <4> QED BY <4>1, <4>2
    <3>3. h = [i \in 0..(n + 1) |-> h[i]]
      OBVIOUS
    <3> HIDE DEF h, Doubled
    <3>4. Upto(h, n + 1)
      BY <3>2, <3>3
    <3> HIDE DEF Upto
    <3>5. n + 1 \in Nat
      OBVIOUS
    <3> QED BY <3>4, <3>5, Zenon
  <2>3. Nat \subseteq Defined
    <3> HIDE DEF Defined
    <3> QED BY <2>1, <2>2, SetInduction
  <2> HIDE DEF Upto
  <2> QED BY <2>3
<1>2. ASSUME NEW n \in Nat, NEW f, NEW g, Upto(f, n), Upto(g, n + 1)
      PROVE  \A i \in 0..n : f[i] = g[i]
  <2> DEFINE Agree == {i \in Nat : i <= n => f[i] = g[i]}
  <2>1. 0 \in Agree
    BY <1>2
  <2>2. ASSUME NEW i \in Nat, i \in Agree
        PROVE  i + 1 \in Agree
    <3>1. CASE i + 1 <= n
      <4>1. f[i] = g[i]
        BY <2>2, <3>1
      <4>2. i + 1 \in 0..n /\ i + 1 \in 0..(n + 1) /\ i + 1 # 0 /\ (i + 1) - 1 = i
        BY <3>1
      <4>3. f[i + 1] = Doubled(f, i + 1) /\ g[i + 1] = Doubled(g, i + 1)
        <5> HIDE DEF Doubled
        <5> QED BY <1>2, <4>2
      <4>4. f[i + 1] = 2 * f[i] /\ g[i + 1] = 2 * g[i]
        BY <4>2, <4>3
      <4> QED BY <4>1, <4>4
    <3>2. CASE ~(i + 1 <= n)
      BY <3>2
    <3> QED BY <3>1, <3>2
  <2>3. Nat \subseteq Agree
    <3> HIDE DEF Agree
    <3> QED BY <2>1, <2>2, SetInduction
  <2> HIDE DEF Upto
  <2> QED BY <2>3
<1>3. ASSUME NEW n \in Nat
      PROVE  all[n] = Doubled(all, n)
  <2>1. Upto(pow(n), n) /\ all[n] = pow(n)[n]
    BY <1>1
  <2>2. pow(n)[n] = Doubled(pow(n), n)
    <3> HIDE DEF Doubled, pow
    <3> QED BY <2>1
  <2>3. CASE n = 0
    BY <2>1, <2>2, <2>3
  <2>4. CASE n # 0
    <3>1. n - 1 \in Nat /\ (n - 1) + 1 = n /\ n - 1 \in 0..(n - 1)
      BY <2>4
    <3>2. Upto(pow(n - 1), n - 1)
      BY <1>1, <3>1
    <3>3. pow(n - 1)[n - 1] = pow(n)[n - 1]
      <4> HIDE DEF Upto, pow
      <4> QED BY <1>2, <2>1, <3>1, <3>2
    <3>4. all[n - 1] = pow(n - 1)[n - 1]
      BY <3>1
    <3> HIDE DEF pow, Upto, all
    <3> QED BY <2>1, <2>2, <2>4, <3>3, <3>4
  <2> QED BY <2>3, <2>4
<1>4. all = [n \in Nat |-> Doubled(all, n)]
  <2>1. all = [n \in Nat |-> all[n]]
    OBVIOUS
  <2> HIDE DEF all, Doubled
  <2> QED BY <1>3, <2>1
<1>5. Pow2 = [n \in Nat |-> Doubled(Pow2, n)]
  <2> HIDE DEF all
  <2> QED BY <1>4 DEF Pow2
<1>6. Pow2[0] = 1 /\ \A n \in Nat : Pow2[n + 1] = 2 * Pow2[n]
  <2>1. Pow2[0] = Doubled(Pow2, 0)
    <3> HIDE DEF Doubled
    <3> QED BY <1>5
  <2>2. ASSUME NEW n \in Nat
        PROVE  Pow2[n + 1] = 2 * Pow2[n]
    <3>1. n + 1 \in Nat /\ n + 1 # 0 /\ (n + 1) - 1 = n
      OBVIOUS
    <3>2. Pow2[n + 1] = Doubled(Pow2, n + 1)
      <4> HIDE DEF Doubled
      <4> QED BY <1>5, <3>1
    <3> QED BY <3>1, <3>2
  <2> QED BY <2>1, <2>2
<1>7. \A n \in Nat : Pow2[n] \in Nat
  <2> DEFINE Whole == {n \in Nat : Pow2[n] \in Nat}
  <2>1. 0 \in Whole
    BY <1>6
  <2>2. ASSUME NEW n \in Nat, n \in Whole
        PROVE  n + 1 \in Whole
    BY <1>6, <2>2
  <2>3. Nat \subseteq Whole
    <3> HIDE DEF Whole
    <3> QED BY <2>1, <2>2, SetInduction
  <2> QED BY <2>3
<1> QED BY <1>6, <1>7

-----------------------------------------------------------------------------
(* What nodes answer *)

LEMMA ResultFacts ==
  ASSUME NEW q \in Queries, Cacheable(q), NEW k \in 0..MaxBlock
  PROVE  /\ Result(q, k) # None
         /\ Method(q) \in BlockMethods /\ Result(q, k) # Null =>
              Item(q) \in Blocks /\ Result(q, k) = <<"block", Item(q), Sub(q)>>
         /\ ~NullState /\ Method(q) \in KvMethods => Result(q, k) # Null
<1>1. Null # None /\ Error # None /\ Error # Null
  BY DEF Null, None, Error
<1>2. CASE Method(q) \in KvMethods \cup {"eth_getCode"}
  <2>1. Result(q, k) = StateAt(q, k) /\ Method(q) \notin BlockMethods
    BY <1>2 DEF Result, KvMethods, BlockMethods
  <2> DEFINE n == IF Tag(q) = Latest THEN k ELSE Tag(q)
             late == n >= DeployedAt
  <2>2. n \in Int
    BY <1>2, QueryAssumption DEF Latest
  <2>3. \/ NullState /\ StateAt(q, k) = Null
        \/ StateAt(q, k) = Error
        \/ Method(q) \in KvMethods /\ StateAt(q, k) = <<Method(q), Item(q), Sub(q), n>>
        \/ Method(q) = "eth_getCode" /\ StateAt(q, k) = <<"code", Item(q), late>>
    <3> HIDE DEF late
    <3> QED BY <1>2, <2>2, ChainAssumption DEF StateAt, KvMethods, late
  <2> HIDE DEF n, late
  <2>4. /\ <<Method(q), Item(q), Sub(q), n>> \notin {Null, None}
        /\ <<"code", Item(q), late>> \notin {Null, None}
    BY DEF Null, None
  <2>5. Method(q) = "eth_getCode" => Method(q) \notin KvMethods
    BY DEF KvMethods
  <2> QED BY <1>1, <2>1, <2>3, <2>4, <2>5
<1>3. CASE Method(q) \in BlockMethods
  <2>1. Result(q, k) = BlockAt(q, k) /\ Method(q) \notin KvMethods
    BY <1>3 DEF Result, KvMethods, BlockMethods
  <2>2. Item(q) \in Nat \ {0} /\ Item(q) # Latest
    BY <1>3, QueryAssumption DEF Cacheable, Latest
  <2>3. BlockAt(q, k) = IF Item(q) <= k THEN <<"block", Item(q), Sub(q)>> ELSE Null
    BY <2>2 DEF BlockAt
  <2>4. Item(q) <= k => Item(q) \in Blocks
    BY <2>2, ChainAssumption DEF Blocks
  <2>5. <<"block", Item(q), Sub(q)>> # None
    BY DEF None
  <2> QED BY <1>1, <2>1, <2>3, <2>4, <2>5
<1>4. CASE Method(q) \in {"eth_getTransactionByHash", "eth_getTransactionReceipt"}
  <2> DEFINE mined == Item(q) <= k
  <2>1. /\ Result(q, k) \in {TransactionAt(q, k), ReceiptAt(q, k)}
        /\ Method(q) \notin BlockMethods \cup KvMethods
    BY <1>4 DEF Result, KvMethods, BlockMethods
  <2>2. /\ TransactionAt(q, k) \in {<<"tx", Item(q), mined>>, Null}
        /\ ReceiptAt(q, k) \in {<<"receipt", Item(q)>>, Null}
    BY Zenon DEF TransactionAt, ReceiptAt
  <2> HIDE DEF mined
  <2>3. <<"tx", Item(q), mined>> # None /\ <<"receipt", Item(q)>> # None
    BY DEF None
  <2> QED BY <1>1, <2>1, <2>2, <2>3
<1> QED BY <1>2, <1>3, <1>4 DEF Cacheable, FileMethods

\* The methods with values in a store and the ones with files are different ones.
LEMMA MethodFacts ==
  ASSUME NEW q, Method(q) \in FileMethods
  PROVE  Method(q) \notin KvMethods /\ Method(q) # "eth_getStorageAt"
BY DEF FileMethods, KvMethods, BlockMethods

\* What is fetched for a file belongs in the file of its query.
LEMMA FetchedFacts ==
  ASSUME NEW q, NEW v, NEW hd, Fetched(q, v, hd)
  PROVE  /\ q \in Queries /\ Cacheable(q) /\ v \in Answers /\ v # None /\ v # Error
         /\ Stored(q, v) \in Answers
         /\ Method(q) \in FileMethods => v # Null /\ PathOf(q) \in Paths /\ PathFor(q, v) = PathOf(q)
         /\ Method(q) \in BlockMethods => v[2] = Item(q) /\ Item(q) \in Blocks
         /\ ~NullState => v # Null /\ Stored(q, v) = v
<1>1. PICK k \in 0..MaxBlock : v = Result(q, k)
  BY DEF Fetched
<1>2. q \in Queries /\ Cacheable(q) /\ v # Error /\ Stored(q, v) # None
  BY DEF Fetched
<1>3. v \in Answers /\ {None, Null, Error, Zero} \subseteq Answers
  BY <1>1, <1>2 DEF Answers
<1>4. /\ v # None
      /\ Method(q) \in BlockMethods /\ v # Null =>
              Item(q) \in Blocks /\ v = <<"block", Item(q), Sub(q)>>
      /\ ~NullState /\ Method(q) \in KvMethods => v # Null
  BY <1>1, <1>2, ResultFacts
<1>5. Stored(q, v) \in Answers /\ (Method(q) # "eth_getStorageAt" => v # Null)
  BY <1>2, <1>3 DEF Stored
<1>6. CASE Method(q) \in BlockMethods
  <2>1. Method(q) \in FileMethods /\ Method(q) \notin KvMethods /\ Method(q) # "eth_getStorageAt"
    BY <1>6, MethodFacts DEF FileMethods
  <2>2. v = <<"block", Item(q), Sub(q)>> /\ Item(q) \in Blocks
    BY <1>4, <1>5, <1>6, <2>1
  <2>3. PathFor(q, v) = PathOf(q) /\ PathOf(q) \in Paths /\ v[2] = Item(q)
    BY <1>6, <2>2 DEF PathFor, PathOf, Paths
  <2> QED BY <1>2, <1>3, <1>4, <1>5, <2>1, <2>2, <2>3 DEF Stored
<1>7. CASE Method(q) \in FileMethods \ BlockMethods
  <2>1. Method(q) # "eth_getStorageAt"
    BY <1>7, MethodFacts
  <2>2. PathFor(q, v) = PathOf(q) /\ PathOf(q) \in Paths
    BY <1>2, <1>7 DEF PathFor, PathOf, Paths
  <2> QED BY <1>2, <1>3, <1>4, <1>5, <1>7, <2>1, <2>2 DEF Stored
<1>8. CASE Method(q) \notin FileMethods
  <2>1. Method(q) \notin BlockMethods /\ Method(q) \in KvMethods
    BY <1>2, <1>8 DEF FileMethods, Cacheable
  <2> QED BY <1>2, <1>3, <1>4, <1>5, <1>8, <2>1 DEF Stored
<1> QED BY <1>6, <1>7, <1>8

-----------------------------------------------------------------------------
(* As the chain grows *)

Heads == [Urls -> 0..MaxBlock]

Grown(hd, hd2) == \A u \in Urls : hd[u] <= hd2[u]

\* What was fetched, found or filed before is so when the nodes have more blocks.
LEMMA FetchedGrown ==
  ASSUME NEW hd \in Heads, NEW hd2 \in Heads, Grown(hd, hd2), NEW q, NEW v, Fetched(q, v, hd)
  PROVE  Fetched(q, v, hd2)
<1>1. PICK k \in 0..MaxBlock, u \in Urls : v = Result(q, k) /\ k <= hd[u]
  BY DEF Fetched
<1>2. hd[u] \in 0..MaxBlock /\ hd2[u] \in 0..MaxBlock /\ MaxBlock \in Nat
  BY ChainAssumption DEF Heads
<1>3. k <= hd2[u]
  BY <1>1, <1>2 DEF Grown
<1> QED BY <1>1, <1>3 DEF Fetched

LEMMA FoundGrown ==
  ASSUME NEW hd \in Heads, NEW hd2 \in Heads, Grown(hd, hd2), NEW q, NEW v
  PROVE  Found(q, v, hd) => Found(q, v, hd2)
BY FetchedGrown DEF Found

LEMMA FiledGrown ==
  ASSUME NEW hd \in Heads, NEW hd2 \in Heads, Grown(hd, hd2), NEW p, NEW v
  PROVE  Filed(p, v, hd) => Filed(p, v, hd2)
BY FetchedGrown DEF Filed

LEMMA PlacedGrown ==
  ASSUME NEW hd \in Heads, NEW hd2 \in Heads, Grown(hd, hd2), NEW r, Placed(r, hd)
  PROVE  Placed(r, hd2)
<1>1. Fetched(r.q, r.val, hd) => Fetched(r.q, r.val, hd2)
  BY FetchedGrown
<1>2. Found(r.q, r.val, hd) => Found(r.q, r.val, hd2)
  BY FoundGrown
<1> QED BY <1>1, <1>2 DEF Placed

LEMMA KeptGrown ==
  ASSUME NEW hd \in Heads, NEW hd2 \in Heads, Grown(hd, hd2), NEW n, NEW kv, Kept(n, kv, hd)
  PROVE  Kept(n, kv, hd2)
<1> SUFFICES ASSUME NEW key \in DOMAIN kv
             PROVE  \E q \in Queries, w \in Answers :
                      /\ Method(q) \in KvMethods /\ DbOf(q) = n /\ Key(q) = key
                      /\ Fetched(q, w, hd2) /\ kv[key] = Stored(q, w)
  BY DEF Kept
<1>1. PICK q \in Queries, w \in Answers :
        /\ Method(q) \in KvMethods /\ DbOf(q) = n /\ Key(q) = key
        /\ Fetched(q, w, hd) /\ kv[key] = Stored(q, w)
  BY DEF Kept
<1>2. Fetched(q, w, hd2)
  BY <1>1, FetchedGrown
<1> QED BY <1>1, <1>2

LEMMA StoresGrown ==
  ASSUME NEW hd \in Heads, NEW hd2 \in Heads, Grown(hd, hd2),
         NEW d, NEW ks, NEW dk, Stores(d, ks, dk, hd)
  PROVE  Stores(d, ks, dk, hd2)
<1>1. \A n \in Dbs : Kept(n, dk[n], hd2) /\ (d[n] # 0 => Kept(n, ks[d[n]], hd2))
  BY KeptGrown DEF Stores
<1> QED BY <1>1 DEF Stores

LEMMA FilesGrown ==
  ASSUME NEW hd \in Heads, NEW hd2 \in Heads, Grown(hd, hd2),
         NEW f, NEW t, NEW b, NEW l, NEW rq, Files(f, t, b, l, rq, hd)
  PROVE  Files(f, t, b, l, rq, hd2)
<1>1. \A i \in Inode, p \in Paths : Serves(i, p, f, t, rq) =>
        \A j \in {1, 2} : b[i][j] = None \/ Filed(p, b[i][j], hd2)
  BY FiledGrown DEF Files
<1> QED BY <1>1 DEF Files

-----------------------------------------------------------------------------
(* Steps of one handler *)

LEMMA AnswerTypes == {None, Null, Error, Zero} \subseteq Answers
BY DEF Answers

LEMMA IdleFacts ==
  /\ Idle \in Request /\ Idle.pc = "idle" /\ Idle.val = None /\ Idle.fd = 0 /\ Idle.db = 0
  /\ Idle.attempt = 0 /\ Idle.from = "none"
<1>1. 0 \in 0..(MaxAttempts - 1)
  BY RetryAssumption
<1>2. DefaultUrl \in Urls /\ None \in Answers
  BY ChainAssumption, AnswerTypes
<1> QED BY <1>1, <1>2 DEF Idle, Request, Steps

\* Every handler is idle again.
LEMMA AllIdle ==
  ASSUME NEW rq, rq = [h \in Handler |-> Idle], NEW hd, NEW d
  PROVE  Serving(rq, hd, d)
<1>1. Placed(Idle, hd) /\ Paced(Idle) /\ Holds(Idle, d)
  BY IdleFacts DEF Placed, Paced, Holds
<1> QED BY <1>1, IdleFacts DEF Serving

\* The handler of h goes on with the request r.
LEMMA OneRequest ==
  ASSUME NEW rq, NEW hd, NEW d, Serving(rq, hd, d), NEW h \in Handler,
         NEW r \in Request, Placed(r, hd), Paced(r), Holds(r, d)
  PROVE  Serving([rq EXCEPT ![h] = r], hd, d)
BY DEF Serving

\* It opens no file and goes on with the same query if it has one open.
LEMMA QuietRequest ==
  ASSUME NEW rq \in [Handler -> Request], NEW hd, NEW f, NEW t, NEW b, NEW l,
         Files(f, t, b, l, rq, hd), NEW h \in Handler, NEW r \in Request,
         r.fd = 0 \/ (r.fd = rq[h].fd /\ r.q = rq[h].q)
  PROVE  Files(f, t, b, l, [rq EXCEPT ![h] = r], hd)
<1>1. ASSUME NEW i \in Inode, NEW p \in Paths, Serves(i, p, f, t, [rq EXCEPT ![h] = r])
      PROVE  Serves(i, p, f, t, rq)
  <2>1. ASSUME NEW g \in Handler, [rq EXCEPT ![h] = r][g].fd = i,
               PathOf([rq EXCEPT ![h] = r][g].q) = p
        PROVE  rq[g].fd = i /\ PathOf(rq[g].q) = p
    <3>1. i # 0
      BY DEF Inode
    <3> QED BY <2>1, <3>1
  <2> QED BY <1>1, <2>1 DEF Serves
<1> QED BY <1>1 DEF Files

LEMMA RequestTypes ==
  ASSUME Inv, NEW h \in Handler
  PROVE  /\ req \in [Handler -> Request] /\ req[h] \in Request
         /\ Placed(req[h], head) /\ Paced(req[h]) /\ Holds(req[h], dbs)
         /\ req[h].url \in Urls /\ req[h].attempt \in 0..(MaxAttempts - 1) /\ req[h].delay \in Nat
         /\ req[h].val \in Answers /\ req[h].pc \in Steps
BY DEF Inv, Serving, Request

\* A step by which only the request of h changes, as above.
LEMMA LocalStep ==
  ASSUME Inv, NEW h \in Handler, NEW r \in Request, req' = [req EXCEPT ![h] = r],
         UNCHANGED <<head, url, dbs, kvs, disk, files, kills>>,
         Placed(r, head), Paced(r), Holds(r, dbs),
         r.fd = 0 \/ (r.fd = req[h].fd /\ r.q = req[h].q)
  PROVE  Inv'
<1>1. Serving(req', head, dbs)
  BY OneRequest DEF Inv
<1>2. Files(file, tmp, blob, link, req', head)
  BY RequestTypes, QuietRequest DEF Inv
<1> QED BY <1>1, <1>2 DEF Inv, files

\* The answer val of the handler of h.
Reply(h, from, val) == [Idle EXCEPT !.pc = "done", !.q = req[h].q, !.from = from, !.val = val]

LEMMA AnswerStep ==
  ASSUME Inv, NEW h \in Handler, NEW from \in {"proxy", "cache", "upstream"}, NEW val \in Answers,
         from = "cache" => Found(req[h].q, val, head), Answer(h, from, val)
  PROVE  LET r == Reply(h, from, val)
         IN  /\ req' = [req EXCEPT ![h] = r] /\ r \in Request /\ r.fd = 0 /\ r.pc = "done"
             /\ Placed(r, head) /\ Paced(r) /\ Holds(r, dbs)
<1> DEFINE r == Reply(h, from, val)
<1>1. req' = [req EXCEPT ![h] = r]
  BY DEF Answer, Reply
<1>2. /\ r \in Request /\ r.fd = 0 /\ r.pc = "done" /\ r.attempt = 0 /\ r.db = 0
      /\ r.q = req[h].q /\ r.val = val /\ r.from = from
  BY RequestTypes, IdleFacts DEF Reply, Request, Steps
<1> HIDE DEF r
<1>3. Placed(r, head) /\ Paced(r) /\ Holds(r, dbs)
  BY <1>2 DEF Placed, Paced, Holds
<1> QED BY <1>1, <1>2, <1>3 DEF r

-----------------------------------------------------------------------------
(* Requests and the back-off *)

LEMMA ArriveStep ==
  ASSUME Inv, NEW h \in Handler, NEW q \in Queries, Arrive(h, q)
  PROVE  Inv'
<1> DEFINE r == IF Method(q) = "invalid"
                THEN [Idle EXCEPT !.q = q, !.pc = "done", !.from = "proxy", !.val = Error]
                ELSE [Idle EXCEPT !.q = q,
                                  !.pc = IF ~Cacheable(q) THEN "url"
                                         ELSE IF Method(q) = "eth_getStorageAt" THEN "find" ELSE "get"]
<1>1. req' = [req EXCEPT ![h] = r] /\ UNCHANGED <<head, url, dbs, kvs, disk, files, kills>>
  BY DEF Arrive
<1>2. CASE Method(q) = "invalid"
  <2>1. /\ r \in Request /\ r.pc = "done" /\ r.from = "proxy" /\ r.fd = 0 /\ r.db = 0 /\ r.attempt = 0
    BY <1>2, IdleFacts, AnswerTypes DEF Request, Steps
  <2> HIDE DEF r
  <2>2. Placed(r, head) /\ Paced(r) /\ Holds(r, dbs)
    BY <2>1 DEF Placed, Paced, Holds
  <2> QED BY <1>1, <2>1, <2>2, LocalStep
<1>3. CASE Method(q) # "invalid"
  <2>1. /\ r \in Request /\ r.q = q /\ r.fd = 0 /\ r.db = 0 /\ r.attempt = 0 /\ r.val = None
        /\ r.pc = IF ~Cacheable(q) THEN "url"
                  ELSE IF Method(q) = "eth_getStorageAt" THEN "find" ELSE "get"
    BY <1>3, IdleFacts DEF Request, Steps
  <2> HIDE DEF r
  <2>2. Placed(r, head) /\ Paced(r) /\ Holds(r, dbs)
    BY <2>1 DEF Placed, Paced, Holds
  <2> QED BY <1>1, <2>1, <2>2, LocalStep
<1> QED BY <1>2, <1>3

LEMMA LeaveStep ==
  ASSUME Inv, NEW h \in Handler, Leave(h)
  PROVE  Inv'
<1>1. req' = [req EXCEPT ![h] = Idle] /\ UNCHANGED <<head, url, dbs, kvs, disk, files, kills>>
  BY DEF Leave
<1>2. Placed(Idle, head) /\ Paced(Idle) /\ Holds(Idle, dbs)
  BY IdleFacts DEF Placed, Paced, Holds
<1> QED BY <1>1, <1>2, IdleFacts, LocalStep

LEMMA ReadUrlStep ==
  ASSUME Inv, NEW h \in Handler, ReadUrl(h)
  PROVE  Inv'
<1> DEFINE s == req[h]
           r == [s EXCEPT !.pc = "send", !.url = url, !.delay = InitialDelay]
<1>1. s \in Request /\ Placed(s, head) /\ Paced(s) /\ Holds(s, dbs) /\ req \in [Handler -> Request]
  BY RequestTypes
<1>2. s.pc = "url" /\ url \in Urls /\ InitialDelay \in Nat
  BY RetryAssumption DEF ReadUrl, At, Inv
<1>3. req' = [req EXCEPT ![h] = r] /\ UNCHANGED <<head, url, dbs, kvs, disk, files, kills>>
  BY <1>1 DEF ReadUrl
<1> HIDE DEF s
<1>4. /\ r \in Request /\ r.pc = "send" /\ r.q = s.q /\ r.val = s.val /\ r.fd = s.fd /\ r.db = s.db
      /\ r.attempt = s.attempt /\ r.delay = InitialDelay
  BY <1>1, <1>2 DEF Request, Steps
<1> HIDE DEF r
<1>5. Placed(r, head) /\ Holds(r, dbs)
  BY <1>1, <1>2, <1>4 DEF Placed, Holds
<1>6. Paced(r)
  <2>1. s.val = None /\ s.attempt = 0
    BY <1>1, <1>2 DEF Placed, Paced
  <2> QED BY <1>2, <1>4, <2>1, Pow2Facts DEF Paced
<1> QED BY <1>3, <1>4, <1>5, <1>6, LocalStep DEF s

\* The delay before the next attempt stays below twice the limit.
LEMMA NextDelayFacts ==
  ASSUME NEW n \in Nat, NEW delay \in Nat,
         delay < MaxDelay => delay = InitialDelay * Pow2[IF n = 0 THEN 0 ELSE n - 1]
  PROVE  LET next == NextDelay(delay, n)
         IN  /\ next \in Nat /\ next < 2 * MaxDelay
             /\ next < MaxDelay => next = InitialDelay * Pow2[n]
<1>1. MaxDelay \in Nat /\ MaxDelay > 0 /\ InitialDelay \in Nat
  BY RetryAssumption
<1>2. CASE delay >= MaxDelay
  BY <1>1, <1>2 DEF NextDelay
<1>3. CASE delay < MaxDelay
  <2> DEFINE next == InitialDelay * Pow2[n]
  <2>1. NextDelay(delay, n) = next
    BY <1>1, <1>3 DEF NextDelay
  <2>2. CASE n = 0
    BY <1>1, <1>3, <2>1, <2>2, Pow2Facts
  <2>3. CASE n # 0
    <3>1. PICK m \in Nat : n = m + 1
      <4>1. n - 1 \in Nat /\ n = (n - 1) + 1
        BY <2>3
      <4> QED BY <4>1
    <3>2. delay = InitialDelay * Pow2[m] /\ Pow2[n] = 2 * Pow2[m] /\ Pow2[m] \in Nat
      BY <1>3, <2>3, <3>1, Pow2Facts
    <3>3. \A x, y \in Nat : x * (2 * y) = 2 * (x * y) /\ x * y \in Nat
      OBVIOUS
    <3>4. next = 2 * delay
      BY <1>1, <3>2, <3>3
    <3> QED BY <1>1, <1>3, <2>1, <3>4
  <2> QED BY <2>2, <2>3
<1> QED BY <1>1, <1>2, <1>3

LEMMA RefuseStep ==
  ASSUME Inv, NEW h \in Handler, NEW retryable, Refuse(h, retryable)
  PROVE  Inv'
<1>1. CASE Answer(h, "proxy", Error)
  <2>1. UNCHANGED <<head, url, dbs, kvs, disk, files, kills>> /\ Error \in Answers
    BY AnswerTypes DEF Refuse
  <2> QED BY <1>1, <2>1, AnswerStep, LocalStep
<1>2. CASE ~Answer(h, "proxy", Error)
  <2> DEFINE s == req[h]
             next == NextDelay(s.delay, s.attempt)
             r == [s EXCEPT !.pc = "sleep", !.delay = next]
  <2>1. /\ s \in Request /\ Placed(s, head) /\ Paced(s) /\ Holds(s, dbs) /\ req \in [Handler -> Request]
        /\ s.attempt \in 0..(MaxAttempts - 1) /\ s.delay \in Nat
    BY RequestTypes
  <2>2. s.pc = "send" /\ ~(s.attempt + 1 >= MaxAttempts)
    BY <1>2 DEF Refuse, At
  <2>3. req' = [req EXCEPT ![h] = r] /\ UNCHANGED <<head, url, dbs, kvs, disk, files, kills>>
    BY <1>2, <2>1 DEF Refuse
  <2> HIDE DEF s
  <2>4. next \in Nat /\ next < 2 * MaxDelay /\ (next < MaxDelay => next = InitialDelay * Pow2[s.attempt])
    <3>1. s.delay < MaxDelay => s.delay = InitialDelay * Pow2[IF s.attempt = 0 THEN 0 ELSE s.attempt - 1]
      BY <2>1, <2>2 DEF Paced
    <3>2. s.attempt \in Nat
      BY <2>1, RetryAssumption
    <3> QED BY <2>1, <3>1, <3>2, NextDelayFacts
  <2> HIDE DEF next
  <2>5. /\ r \in Request /\ r.pc = "sleep" /\ r.q = s.q /\ r.val = s.val /\ r.fd = s.fd /\ r.db = s.db
        /\ r.attempt = s.attempt /\ r.delay = next
    BY <2>1, <2>4 DEF Request, Steps
  <2> HIDE DEF r
  <2>6. Placed(r, head) /\ Holds(r, dbs)
    BY <2>1, <2>2, <2>5 DEF Placed, Holds
  <2>7. Paced(r)
    <3>1. s.attempt + 1 < MaxAttempts
      BY <2>1, <2>2, RetryAssumption
    <3> QED BY <2>4, <2>5, <3>1 DEF Paced
  <2> QED BY <2>3, <2>5, <2>6, <2>7, LocalStep DEF s
<1> QED BY <1>1, <1>2

LEMMA WakeStep ==
  ASSUME Inv, NEW h \in Handler, Wake(h)
  PROVE  Inv'
<1> DEFINE s == req[h]
           r == [s EXCEPT !.pc = "send", !.attempt = @ + 1]
<1>1. /\ s \in Request /\ Placed(s, head) /\ Paced(s) /\ Holds(s, dbs) /\ req \in [Handler -> Request]
      /\ s.attempt \in 0..(MaxAttempts - 1) /\ s.pc = "sleep"
  BY RequestTypes DEF Wake, At
<1>2. req' = [req EXCEPT ![h] = r] /\ UNCHANGED <<head, url, dbs, kvs, disk, files, kills>>
  BY <1>1 DEF Wake
<1> HIDE DEF s
<1>3. s.attempt + 1 < MaxAttempts /\ (s.delay < MaxDelay => s.delay = InitialDelay * Pow2[s.attempt])
  BY <1>1 DEF Paced
<1>4. s.attempt + 1 \in 0..(MaxAttempts - 1) /\ s.attempt + 1 # 0 /\ (s.attempt + 1) - 1 = s.attempt
  BY <1>1, <1>3, RetryAssumption
<1>5. /\ r \in Request /\ r.pc = "send" /\ r.q = s.q /\ r.val = s.val /\ r.fd = s.fd /\ r.db = s.db
      /\ r.attempt = s.attempt + 1 /\ r.delay = s.delay
  BY <1>1, <1>4 DEF Request, Steps
<1> HIDE DEF r
<1>6. Placed(r, head) /\ Holds(r, dbs)
  BY <1>1, <1>5 DEF Placed, Holds
<1>7. Paced(r)
  BY <1>3, <1>4, <1>5 DEF Paced
<1> QED BY <1>2, <1>5, <1>6, <1>7, LocalStep DEF s

LEMMA RespondStep ==
  ASSUME Inv, NEW h \in Handler, NEW val, Respond(h, val)
  PROVE  Inv'
<1> DEFINE s == req[h]
           q == s.q
           keep == Cacheable(q) /\ val # Error /\ Stored(q, val) # None
           r == [s EXCEPT !.val = val, !.pc = CASE Method(q) = "eth_getStorageAt" -> "find"
                                                [] Method(q) \in FileMethods -> "create"
                                                [] OTHER -> "insert"]
<1>1. /\ s \in Request /\ Placed(s, head) /\ Paced(s) /\ Holds(s, dbs) /\ req \in [Handler -> Request]
      /\ s.pc = "send" /\ s.url \in Urls
  BY RequestTypes DEF Respond, At
<1>2. q \in Queries /\ head[s.url] \in 0..MaxBlock
  BY <1>1 DEF Placed, Inv
<1>3. val \in Answers /\ (val # Error => val = Result(q, head[s.url]))
  BY <1>2, AnswerTypes DEF Respond, Answers
<1>4. CASE ~keep
  <2>1. Answer(h, "upstream", val) /\ UNCHANGED <<head, url, dbs, kvs, disk, files, kills>>
    BY <1>4 DEF Respond
  <2> QED BY <1>3, <2>1, AnswerStep, LocalStep
<1>5. CASE keep
  <2>1. req' = [req EXCEPT ![h] = r] /\ UNCHANGED <<head, url, dbs, kvs, disk, files, kills>>
    BY <1>1, <1>5 DEF Respond
  <2>2. Fetched(q, val, head)
    <3>1. val = Result(q, head[s.url]) /\ head[s.url] <= head[s.url]
      BY <1>2, <1>3, <1>5
    <3> QED BY <1>1, <1>2, <1>5, <3>1 DEF Fetched
  <2>3. val # None
    BY <2>2, FetchedFacts
  <2> HIDE DEF keep
  <2>4. /\ r \in Request /\ r.q = s.q /\ r.val = val /\ r.fd = s.fd /\ r.db = s.db /\ r.from = s.from
        /\ r.pc = CASE Method(q) = "eth_getStorageAt" -> "find"
                    [] Method(q) \in FileMethods -> "create"
                    [] OTHER -> "insert"
    BY <1>1, <1>3 DEF Request, Steps
  <2> HIDE DEF r, s
  <2>5. \/ r.pc = "find" /\ Method(q) = "eth_getStorageAt"
        \/ r.pc = "create" /\ Method(q) \in FileMethods
        \/ r.pc = "insert" /\ Method(q) \in KvMethods /\ Method(q) # "eth_getStorageAt"
    BY <1>5, <2>4 DEF keep, Cacheable
  <2>6. Placed(r, head)
    BY <1>1, <1>2, <2>2, <2>4, <2>5 DEF Placed, Fetched
  <2>7. Paced(r) /\ Holds(r, dbs)
    BY <1>1, <2>3, <2>4, <2>5 DEF Paced, Holds
  <2> QED BY <2>1, <2>4, <2>6, <2>7, LocalStep DEF s
<1> QED BY <1>4, <1>5

-----------------------------------------------------------------------------
(* The databases *)

LEMMA DbFacts ==
  ASSUME NEW q \in Queries, Method(q) \in KvMethods
  PROVE  /\ DbOf(q) \in Dbs
         /\ Method(q) # "eth_getStorageAt" =>
              DbOf(q) \in {<<"eth_getBalance">>, <<"eth_getTransactionCount">>}
BY DEF Dbs, DbOf, KvMethods

\* The handler of h has the database db, for a lookup or for an insert.
LEMMA UseDbFacts ==
  ASSUME Inv, NEW h \in Handler, NEW d, NEW db \in Nat \ {0}, req[h].pc \in {"find", "open"},
         d[DbOf(req[h].q)] = db, UseDb(h, db)
  PROVE  \E r \in Request : /\ req' = [req EXCEPT ![h] = r] /\ r.fd = 0
                            /\ Placed(r, head) /\ Paced(r) /\ Holds(r, d)
<1> DEFINE s == req[h]
           r == [s EXCEPT !.db = db, !.pc = IF s.val = None THEN "get" ELSE "insert"]
<1>1. /\ s \in Request /\ Placed(s, head) /\ Paced(s) /\ req \in [Handler -> Request]
      /\ s.pc \in {"find", "open"} /\ d[DbOf(s.q)] = db
  BY RequestTypes
<1>2. req' = [req EXCEPT ![h] = r]
  BY <1>1 DEF UseDb
<1> HIDE DEF s
<1>3. /\ r \in Request /\ r.q = s.q /\ r.val = s.val /\ r.fd = s.fd /\ r.db = db
      /\ r.attempt = s.attempt /\ r.pc = IF s.val = None THEN "get" ELSE "insert"
  BY <1>1 DEF Request, Steps
<1> HIDE DEF r
<1>4. /\ s.q \in Queries /\ Method(s.q) = "eth_getStorageAt" /\ Cacheable(s.q) /\ s.fd = 0
      /\ s.val = None \/ Fetched(s.q, s.val, head)
  BY <1>1 DEF Placed
<1>5. Placed(r, head)
  BY <1>3, <1>4 DEF Placed, KvMethods
<1>6. Paced(r) /\ Holds(r, d)
  BY <1>1, <1>3, <1>4 DEF Paced, Holds
<1> QED BY <1>2, <1>3, <1>4, <1>5, <1>6

LEMMA FindDbStep ==
  ASSUME Inv, NEW h \in Handler, FindDb(h)
  PROVE  Inv'
<1> DEFINE s == req[h]
           db == dbs[DbOf(s.q)]
           r == [s EXCEPT !.pc = "open"]
<1>1. /\ s \in Request /\ Placed(s, head) /\ Paced(s) /\ Holds(s, dbs) /\ req \in [Handler -> Request]
      /\ s.pc = "find" /\ UNCHANGED <<head, url, dbs, kvs, disk, files, kills>>
  BY RequestTypes DEF FindDb, At
<1>2. s.q \in Queries /\ Method(s.q) = "eth_getStorageAt" /\ s.fd = 0
  BY <1>1 DEF Placed
<1>3. db \in Nat
  BY <1>2, DbFacts DEF Inv, Stores, KvMethods
<1>4. CASE db # 0
  <2>1. UseDb(h, db)
    BY <1>4 DEF FindDb
  <2> HIDE DEF db
  <2>2. \E x \in Request : /\ req' = [req EXCEPT ![h] = x] /\ x.fd = 0
                           /\ Placed(x, head) /\ Paced(x) /\ Holds(x, dbs)
    BY <1>1, <1>3, <1>4, <2>1, UseDbFacts DEF db
  <2> QED BY <1>1, <2>2, LocalStep
<1>5. CASE db = 0
  <2>1. req' = [req EXCEPT ![h] = r]
    BY <1>1, <1>5 DEF FindDb, Goto
  <2> HIDE DEF s
  <2>2. /\ r \in Request /\ r.q = s.q /\ r.val = s.val /\ r.fd = s.fd /\ r.db = s.db
        /\ r.attempt = s.attempt /\ r.pc = "open"
    BY <1>1 DEF Request, Steps
  <2> HIDE DEF r
  <2>3. Placed(r, head) /\ Paced(r) /\ Holds(r, dbs)
    BY <1>1, <2>2 DEF Placed, Paced, Holds
  <2> QED BY <1>1, <2>1, <2>2, <2>3, LocalStep DEF s
<1> QED BY <1>4, <1>5

LEMMA OpenDbStep ==
  ASSUME Inv, NEW h \in Handler, OpenDb(h)
  PROVE  Inv'
<1> DEFINE s == req[h]
           name == DbOf(s.q)
<1>1. /\ s \in Request /\ Placed(s, head) /\ Paced(s) /\ Holds(s, dbs) /\ req \in [Handler -> Request]
      /\ s.pc = "open" /\ UNCHANGED <<head, url, disk, files, kills>>
  BY RequestTypes DEF OpenDb, At
<1>2. s.q \in Queries /\ Method(s.q) = "eth_getStorageAt" /\ name \in Dbs
  <2>1. s.q \in Queries /\ Method(s.q) = "eth_getStorageAt"
    BY <1>1 DEF Placed
  <2> QED BY <2>1, DbFacts DEF KvMethods
<1>3. dbs \in [Dbs -> 0..Len(kvs)] /\ Stores(dbs, kvs, disk, head) /\ Serving(req, head, dbs)
      /\ Files(file, tmp, blob, link, req, head) /\ head \in [Urls -> 0..MaxBlock] /\ url \in Urls
  BY DEF Inv, Stores
<1> HIDE DEF s, name
<1>4. CASE dbs[name] # 0
  <2>1. UseDb(h, dbs[name]) /\ UNCHANGED <<dbs, kvs>> /\ dbs[name] \in Nat \ {0}
    BY <1>2, <1>3, <1>4 DEF OpenDb, name, s
  <2>2. \E x \in Request : /\ req' = [req EXCEPT ![h] = x] /\ x.fd = 0
                           /\ Placed(x, head) /\ Paced(x) /\ Holds(x, dbs)
    BY <1>1, <2>1, UseDbFacts DEF name, s
  <2> QED BY <1>1, <2>1, <2>2, LocalStep
<1>5. CASE dbs[name] = 0
  <2> DEFINE ks == Append(kvs, disk[name])
             n == Len(ks)
             d == [dbs EXCEPT ![name] = n]
  <2>1. UseDb(h, n) /\ kvs' = ks /\ dbs' = d
    BY <1>5 DEF OpenDb, name, s
  <2>2. PICK S : kvs \in Seq(S)
    BY <1>3 DEF Stores
  <2>3. /\ n = Len(kvs) + 1 /\ n \in Nat \ {0} /\ ks \in Seq(S \cup {disk[name]})
        /\ ks[n] = disk[name] /\ \A i \in 1..Len(kvs) : ks[i] = kvs[i]
    <3> DEFINE U == S \cup {disk[name]}
    <3>1. kvs \in Seq(U) /\ disk[name] \in U
      BY <2>2
    <3> HIDE DEF U
    <3> QED BY <3>1 DEF U
  <2> HIDE DEF ks, n
  <2>4. /\ d \in [Dbs -> 0..Len(ks)] /\ d[name] = n
        /\ \A m \in Dbs : m # name => d[m] = dbs[m] /\ d[m] \in 0..Len(kvs)
    <3>1. Len(ks) = n /\ Len(kvs) \in Nat /\ 0..Len(kvs) \subseteq 0..n /\ n \in 0..n
      BY <2>2, <2>3 DEF n
    <3> QED BY <1>2, <1>3, <3>1
  <2> HIDE DEF d
  <2>5. Stores(d, ks, disk, head)
    <3>1. d[<<"eth_getBalance">>] # 0 /\ d[<<"eth_getTransactionCount">>] # 0
      <4>1. <<"eth_getBalance">> \in Dbs /\ <<"eth_getTransactionCount">> \in Dbs
        BY DEF Dbs
      <4> QED BY <1>3, <1>5, <2>4, <4>1 DEF Stores
    <3>2. ASSUME NEW m \in Dbs, NEW k \in Dbs, d[m] = d[k], d[m] # 0
          PROVE  m = k
      <4>1. \A x \in Dbs : x # name => d[x] # n
        BY <2>2, <2>3, <2>4
      <4> QED BY <1>3, <2>4, <3>2, <4>1 DEF Stores
    <3>3. ASSUME NEW m \in Dbs, d[m] # 0
          PROVE  Kept(m, ks[d[m]], head)
      <4>1. CASE m = name
        BY <1>3, <2>3, <2>4, <3>3, <4>1 DEF Stores
      <4>2. CASE m # name
        <5>1. d[m] = dbs[m] /\ d[m] \in 1..Len(kvs)
          BY <2>2, <2>4, <3>3, <4>2
        <5> QED BY <1>3, <2>3, <3>3, <5>1 DEF Stores
      <4> QED BY <4>1, <4>2
    <3> QED BY <1>3, <2>3, <2>4, <3>1, <3>2, <3>3 DEF Stores
  <2>6. PICK x \in Request : /\ req' = [req EXCEPT ![h] = x] /\ x.fd = 0
                             /\ Placed(x, head) /\ Paced(x) /\ Holds(x, d)
    BY <1>1, <2>1, <2>3, <2>4, UseDbFacts DEF name, s
  <2>7. Serving(req, head, d)
    <3>1. ASSUME NEW g \in Handler PROVE Holds(req[g], d)
      <4> SUFFICES ASSUME req[g].db # 0
                   PROVE  /\ Method(req[g].q) = "eth_getStorageAt" /\ req[g].q \in Queries
                          /\ req[g].db = d[DbOf(req[g].q)]
        BY DEF Holds
      <4>1. /\ Method(req[g].q) = "eth_getStorageAt" /\ req[g].q \in Queries
            /\ req[g].db = dbs[DbOf(req[g].q)]
        BY RequestTypes DEF Holds
      <4>2. DbOf(req[g].q) \in Dbs
        BY <4>1, DbFacts DEF KvMethods
      <4> QED BY <1>5, <2>4, <4>1, <4>2
    <3> QED BY <1>3, <3>1 DEF Serving
  <2>8. Serving(req', head, d) /\ Files(file, tmp, blob, link, req', head)
    BY <1>1, <1>3, <2>6, <2>7, OneRequest, QuietRequest
  <2> QED BY <1>1, <1>3, <2>1, <2>5, <2>8 DEF Inv, files
<1> QED BY <1>4, <1>5

\* Queries that are kept in one file are alike.
LEMMA SamePath ==
  ASSUME NEW p, NEW q, Method(p) \in FileMethods, Method(q) \in FileMethods, PathOf(p) = PathOf(q)
  PROVE  SameKey(p, q)
<1>1. CASE Method(p) \in BlockMethods /\ Method(q) \in BlockMethods
  BY <1>1 DEF PathOf, SameKey, Alike
<1>2. CASE Method(p) \notin BlockMethods /\ Method(q) \notin BlockMethods
  BY <1>2 DEF PathOf, SameKey, Alike
<1>3. \A m \in FileMethods : m # "block"
  BY DEF FileMethods, BlockMethods
<1> QED BY <1>1, <1>2, <1>3 DEF PathOf

\* A file that can be read has what some node answers to the queries of its path.
LEMMA ReadFacts ==
  ASSUME Inv, NEW q \in Queries, Method(q) \in FileMethods, ReadPath(PathOf(q)) # None
  PROVE  ReadPath(PathOf(q)) \in Answers /\ Found(q, ReadPath(PathOf(q)), head)
<1> DEFINE p == PathOf(q)
           i == file[p]
           v == blob[i][1]
<1>1. p \in Paths /\ i # 0 /\ ReadPath(p) = v /\ v # None
  BY DEF ReadPath, ReadGz
<1>2. i \in Inode /\ Files(file, tmp, blob, link, req, head)
  BY <1>1 DEF Inv, Files
<1>3. Serves(i, p, file, tmp, req)
  BY DEF Serves
<1> HIDE DEF p, i
<1>4. Filed(p, v, head)
  <2>1. \A j \in {1, 2} : blob[i][j] = None \/ Filed(p, blob[i][j], head)
    BY <1>1, <1>2, <1>3 DEF Files
  <2> QED BY <1>1, <2>1
<1> HIDE DEF v
<1>5. PICK o \in Queries : Method(o) \in FileMethods /\ PathOf(o) = p /\ Fetched(o, v, head)
  BY <1>4 DEF Filed
<1>6. v \in Answers /\ v # Null /\ SameKey(o, q)
  BY <1>5, FetchedFacts, SamePath DEF p
<1>7. Stored(o, v) = v
  BY <1>5, <1>6, MethodFacts DEF Stored
<1> QED BY <1>1, <1>5, <1>6, <1>7 DEF Found, p

\* A store has what some node answers to queries with the same key.
LEMMA EntryFacts ==
  ASSUME Inv, NEW q \in Queries, Method(q) \in KvMethods, NEW kv, Kept(DbOf(q), kv, head),
         ReadKv(kv, Key(q)) # None
  PROVE  ReadKv(kv, Key(q)) \in Answers /\ Found(q, ReadKv(kv, Key(q)), head)
<1>1. Key(q) \in DOMAIN kv /\ ReadKv(kv, Key(q)) = kv[Key(q)]
  BY DEF ReadKv
<1>2. PICK o \in Queries, w \in Answers :
        /\ Method(o) \in KvMethods /\ DbOf(o) = DbOf(q) /\ Key(o) = Key(q)
        /\ Fetched(o, w, head) /\ kv[Key(q)] = Stored(o, w)
  BY <1>1 DEF Kept
<1>3. Stored(o, w) \in Answers
  BY <1>2, FetchedFacts
<1> QED BY <1>1, <1>2, <1>3 DEF Found, SameKey

LEMMA LookupFacts ==
  ASSUME Inv, NEW h \in Handler, At(h, "get"), Lookup(h) # None
  PROVE  Lookup(h) \in Answers /\ Found(req[h].q, Lookup(h), head)
<1> DEFINE s == req[h]
           q == s.q
<1>1. /\ q \in Queries /\ Cacheable(q) /\ (Method(q) = "eth_getStorageAt" => s.db # 0)
      /\ Holds(s, dbs)
  BY RequestTypes DEF Placed, At
<1>2. Stores(dbs, kvs, disk, head) /\ Files(file, tmp, blob, link, req, head)
  BY DEF Inv
<1>3. CASE Method(q) = "eth_getStorageAt"
  <2>0. Lookup(h) = ReadKv(kvs[s.db], Key(q))
    BY <1>3 DEF Lookup, KvMethods
  <2>1. Lookup(h) = ReadKv(kvs[s.db], Key(q)) /\ Method(q) \in KvMethods
    BY <1>3, <2>0 DEF KvMethods
  <2>2. DbOf(q) \in Dbs /\ s.db = dbs[DbOf(q)] /\ s.db # 0
    BY <1>1, <1>3, <2>1, DbFacts DEF Holds
  <2> HIDE DEF s, q
  <2>3. Kept(DbOf(q), kvs[s.db], head)
    BY <1>2, <2>2 DEF Stores
  <2> QED BY <1>1, <2>1, <2>3, EntryFacts DEF s, q
<1>4. CASE Method(q) \in KvMethods \ {"eth_getStorageAt"}
  <2>1. Lookup(h) = ReadKv(kvs[dbs[DbOf(q)]], Key(q))
    BY <1>4 DEF Lookup, KvMethods
  <2>2. DbOf(q) \in Dbs /\ dbs[DbOf(q)] # 0
    BY <1>1, <1>2, <1>4, DbFacts DEF Stores
  <2> HIDE DEF q
  <2>3. Kept(DbOf(q), kvs[dbs[DbOf(q)]], head)
    BY <1>2, <2>2 DEF Stores
  <2> QED BY <1>1, <1>4, <2>1, <2>3, EntryFacts DEF q
<1>5. CASE Method(q) \in FileMethods
  <2>1. Lookup(h) = ReadPath(PathOf(q))
    <3>1. Method(q) \notin KvMethods /\ Method(q) # "eth_getStorageAt"
      BY <1>5, MethodFacts
    <3>2. CASE Method(q) = "eth_getBlockByNumber"
      <4>1. Lookup(h) = IF Item(q) \in Blocks /\ link[Item(q)] # 0
                        THEN ReadPath(<<"block", link[Item(q)]>>) ELSE None
        BY <3>1, <3>2 DEF Lookup
      <4>2. Item(q) \in Blocks /\ link[Item(q)] # 0
        BY <4>1
      <4>3. link[Item(q)] = Item(q)
        BY <1>2, <4>2 DEF Files
      <4> QED BY <3>2, <4>1, <4>2, <4>3 DEF PathOf, BlockMethods
    <3>3. CASE Method(q) = "eth_getBlockByHash"
      BY <3>1, <3>3 DEF Lookup, PathOf, BlockMethods
    <3>4. CASE Method(q) \notin BlockMethods
      BY <3>1, <3>4 DEF Lookup, PathOf, BlockMethods
    <3> QED BY <3>2, <3>3, <3>4 DEF BlockMethods
  <2> HIDE DEF q
  <2> QED BY <1>1, <1>5, <2>1, ReadFacts DEF q
<1> QED BY <1>1, <1>3, <1>4, <1>5 DEF Cacheable

LEMMA GetStep ==
  ASSUME Inv, NEW h \in Handler, Get(h)
  PROVE  Inv'
<1>1. UNCHANGED <<head, url, dbs, kvs, disk, files, kills>> /\ At(h, "get")
  BY DEF Get
<1>2. CASE Lookup(h) # None
  <2>1. Answer(h, "cache", Lookup(h))
    BY <1>2 DEF Get
  <2>2. Lookup(h) \in Answers /\ Found(req[h].q, Lookup(h), head)
    BY <1>1, <1>2, LookupFacts
  <2> QED BY <1>1, <2>1, <2>2, AnswerStep, LocalStep
<1>3. CASE Lookup(h) = None /\ Offline
  <2>1. Answer(h, "proxy", Error) /\ Error \in Answers
    BY <1>3, AnswerTypes DEF Get
  <2> QED BY <1>1, <2>1, AnswerStep, LocalStep
<1>4. CASE Lookup(h) = None /\ ~Offline
  <2> DEFINE s == req[h]
             r == [s EXCEPT !.pc = "url"]
  <2>1. /\ s \in Request /\ Placed(s, head) /\ Paced(s) /\ Holds(s, dbs) /\ req \in [Handler -> Request]
        /\ s.pc = "get"
    BY <1>1, RequestTypes DEF At
  <2>2. req' = [req EXCEPT ![h] = r]
    BY <1>4, <2>1 DEF Get, Goto
  <2> HIDE DEF s
  <2>3. /\ r \in Request /\ r.q = s.q /\ r.val = s.val /\ r.fd = s.fd /\ r.db = s.db
        /\ r.attempt = s.attempt /\ r.pc = "url"
    BY <2>1 DEF Request, Steps
  <2> HIDE DEF r
  <2>4. Placed(r, head) /\ Paced(r) /\ Holds(r, dbs)
    BY <2>1, <2>3 DEF Placed, Paced, Holds
  <2> QED BY <1>1, <2>2, <2>3, <2>4, LocalStep DEF s
<1> QED BY <1>2, <1>3, <1>4

LEMMA InsertStep ==
  ASSUME Inv, NEW h \in Handler, Insert(h)
  PROVE  Inv'
<1> DEFINE s == req[h]
           q == s.q
           db == IF s.db # 0 THEN s.db ELSE dbs[DbOf(q)]
           kv == kvs[db]
           e == [k \in DOMAIN kv \cup {Key(q)} |-> IF k = Key(q) THEN Stored(q, s.val) ELSE kv[k]]
           ks == [kvs EXCEPT ![db] = e]
<1>1. /\ s \in Request /\ Placed(s, head) /\ Holds(s, dbs) /\ s.pc = "insert"
      /\ kvs' = ks /\ Answer(h, "upstream", s.val) /\ UNCHANGED <<head, url, dbs, disk, files, kills>>
  BY RequestTypes DEF Insert, At
<1>2. /\ q \in Queries /\ Method(q) \in KvMethods /\ Fetched(q, s.val, head) /\ s.val \in Answers
      /\ (Method(q) = "eth_getStorageAt" => s.db # 0)
  BY <1>1, FetchedFacts DEF Placed
<1>3. /\ Stores(dbs, kvs, disk, head) /\ Serving(req, head, dbs)
      /\ Files(file, tmp, blob, link, req, head) /\ head \in [Urls -> 0..MaxBlock] /\ url \in Urls
      /\ dbs \in [Dbs -> 0..Len(kvs)]
  BY DEF Inv, Stores
<1>4. DbOf(q) \in Dbs /\ db = dbs[DbOf(q)] /\ db # 0
  BY <1>1, <1>2, <1>3, DbFacts DEF Holds, Stores
<1> DEFINE r == Reply(h, "upstream", s.val)
<1>5. /\ req' = [req EXCEPT ![h] = r] /\ r \in Request /\ r.fd = 0
      /\ Placed(r, head) /\ Paced(r) /\ Holds(r, dbs)
  BY <1>1, <1>2, AnswerStep
<1> HIDE DEF r
<1>6. Serving(req', head, dbs) /\ Files(file, tmp, blob, link, req', head)
  BY <1>3, <1>5, OneRequest, QuietRequest, RequestTypes
<1> HIDE DEF s, q
<1>7. PICK S : kvs \in Seq(S)
  BY <1>3 DEF Stores
<1>8. db \in 1..Len(kvs)
  BY <1>3, <1>4, <1>7
<1> HIDE DEF db
<1>9. Kept(DbOf(q), e, head)
  <2>1. Kept(DbOf(q), kv, head)
    BY <1>3, <1>4 DEF Stores
  <2> HIDE DEF kv
  <2> SUFFICES ASSUME NEW key \in DOMAIN e
               PROVE  \E o \in Queries, w \in Answers :
                        /\ Method(o) \in KvMethods /\ DbOf(o) = DbOf(q) /\ Key(o) = key
                        /\ Fetched(o, w, head) /\ e[key] = Stored(o, w)
    BY DEF Kept
  <2>2. CASE key = Key(q)
    BY <1>2, <2>2
  <2>3. CASE key # Key(q)
    <3>1. key \in DOMAIN kv /\ e[key] = kv[key]
      BY <2>3
    <3> HIDE DEF e
    <3> QED BY <2>1, <3>1 DEF Kept
  <2> QED BY <2>2, <2>3
<1> HIDE DEF e
<1>10. /\ ks \in Seq(S \cup {e}) /\ Len(ks) = Len(kvs)
       /\ ks[db] = e /\ \A i \in 1..Len(kvs) : i # db => ks[i] = kvs[i]
  <2> DEFINE U == S \cup {e}
  <2>1. kvs \in Seq(U) /\ e \in U
    BY <1>7
  <2> HIDE DEF U
  <2> QED BY <1>8, <2>1 DEF U
<1> HIDE DEF ks
<1>11. Stores(dbs, ks, disk, head)
  <2>1. ASSUME NEW m \in Dbs, dbs[m] # 0
        PROVE  Kept(m, ks[dbs[m]], head)
    <3>1. CASE m = DbOf(q)
      BY <1>4, <1>9, <1>10, <3>1
    <3>2. CASE m # DbOf(q)
      <4>1. dbs[m] # db /\ dbs[m] \in 1..Len(kvs)
        BY <1>3, <1>4, <1>7, <2>1, <3>2 DEF Stores
      <4>2. ks[dbs[m]] = kvs[dbs[m]]
        BY <1>10, <4>1
      <4> QED BY <1>3, <2>1, <4>2 DEF Stores
    <3> QED BY <3>1, <3>2
  <2> QED BY <1>3, <1>10, <2>1 DEF Stores
<1> QED BY <1>1, <1>3, <1>6, <1>11 DEF Inv, files

-----------------------------------------------------------------------------
(* The files *)

LEMMA PathsFinite == IsFiniteSet(Paths)
<1> DEFINE N == {<<"block", n>> : n \in Blocks}
           Q == {p \in Queries : Method(p) \in FileMethods \ BlockMethods}
           M == {<<Method(q), Item(q)>> : q \in Q}
<1>1. IsFiniteSet(Blocks)
  BY FS_Interval, ChainAssumption DEF Blocks
<1>2. IsFiniteSet(N)
  <2> DEFINE f == [n \in Blocks |-> <<"block", n>>]
  <2>1. f \in Surjection(Blocks, N)
    BY DEF Surjection
  <2> QED BY <1>1, <2>1, FS_Surjection
<1>3. IsFiniteSet(Q)
  BY FiniteAssumption, FS_Subset
<1>4. IsFiniteSet(M)
  <2> DEFINE f == [q \in Q |-> <<Method(q), Item(q)>>]
  <2>1. f \in Surjection(Q, M)
    BY DEF Surjection
  <2> HIDE DEF Q
  <2> QED BY <1>3, <2>1, FS_Surjection
<1>5. Paths = N \cup M
  BY DEF Paths
<1> HIDE DEF N, M
<1> QED BY <1>2, <1>4, <1>5, FS_Union

\* The values of a function on a finite set are no more than its arguments.
LEMMA ImageCard ==
  ASSUME NEW S, IsFiniteSet(S), NEW f, f = [x \in S |-> f[x]]
  PROVE  LET T == {f[x] : x \in S}
         IN  IsFiniteSet(T) /\ Cardinality(T) \in Nat /\ Cardinality(T) <= Cardinality(S)
<1> DEFINE T == {f[x] : x \in S}
<1>1. f \in Surjection(S, T)
  BY DEF Surjection
<1> HIDE DEF T
<1>2. IsFiniteSet(T) /\ Cardinality(T) <= Cardinality(S)
  BY <1>1, FS_Surjection
<1> QED BY <1>2, FS_CardinalityType DEF T

\* There are inodes enough: each path takes two, and each other handler one.
LEMMA FreshFacts ==
  ASSUME Inv, NEW h \in Handler, req[h].fd = 0
  PROVE  Fresh \in Inode /\ ~InUse(Fresh)
<1>1. SUFFICES ASSUME \A i \in Inode : InUse(i)
               PROVE  FALSE
  BY DEF Fresh
<1> DEFINE F == {file[p] : p \in Paths}
           T == {tmp[p] : p \in Paths}
           O == Handler \ {h}
           fds == [g \in O |-> req[g].fd]
           G == {fds[g] : g \in O}
           a == Cardinality(Paths)
           n == Cardinality(Handler)
<1>2. IsFiniteSet(Paths) /\ IsFiniteSet(Handler) /\ a \in Nat /\ n \in Nat
  BY PathsFinite, FiniteAssumption, FS_CardinalityType
<1>3. IsFiniteSet(O) /\ Cardinality(O) = n - 1
  BY <1>2, FS_RemoveElement
<1>4. /\ IsFiniteSet(F) /\ Cardinality(F) \in Nat /\ Cardinality(F) <= a
      /\ IsFiniteSet(T) /\ Cardinality(T) \in Nat /\ Cardinality(T) <= a
  <2>1. file = [p \in Paths |-> file[p]] /\ tmp = [p \in Paths |-> tmp[p]]
    BY DEF Inv, Files
  <2> QED BY <1>2, <2>1, ImageCard
<1>5. IsFiniteSet(G) /\ Cardinality(G) \in Nat /\ Cardinality(G) <= n - 1
  <2>1. fds = [g \in O |-> fds[g]]
    OBVIOUS
  <2> HIDE DEF fds, O
  <2> QED BY <1>3, <2>1, ImageCard
<1>6. Inode \subseteq (F \cup T) \cup G
  <2> SUFFICES ASSUME NEW i \in Inode
               PROVE  i \in F \/ i \in T \/ i \in G
    OBVIOUS
  <2>1. CASE \E p \in Paths : file[p] = i \/ tmp[p] = i
    BY <2>1
  <2>2. CASE \E g \in Handler : req[g].fd = i
    <3>1. PICK g \in Handler : req[g].fd = i
      BY <2>2
    <3>2. i # 0
      BY DEF Inode
    <3>3. g \in O /\ fds[g] = i
      BY <3>1, <3>2
    <3> QED BY <3>3
  <2> QED BY <1>1, <2>1, <2>2 DEF InUse
<1> HIDE DEF F, T, G, O, fds
<1>7. /\ IsFiniteSet(F \cup T) /\ Cardinality(F \cup T) \in Nat /\ Cardinality(F \cup T) <= a + a
  <2>1. Cardinality(F \cap T) \in Nat
    BY <1>4, FS_Subset, FS_CardinalityType
  <2>2. Cardinality(F \cup T) = Cardinality(F) + Cardinality(T) - Cardinality(F \cap T)
        /\ IsFiniteSet(F \cup T)
    BY <1>4, FS_Union
  <2>3. Cardinality(F \cup T) \in Nat
    BY <2>2, FS_CardinalityType
  <2> HIDE DEF a, n
  <2> QED BY <1>2, <1>4, <2>1, <2>2, <2>3
<1>8. IsFiniteSet((F \cup T) \cup G) /\ Cardinality((F \cup T) \cup G) <= a + a + (n - 1)
  <2> DEFINE U == F \cup T
  <2>0. IsFiniteSet(U) /\ Cardinality(U) \in Nat /\ Cardinality(U) <= a + a
    BY <1>7
  <2> HIDE DEF U
  <2>1. Cardinality(U \cap G) \in Nat
    BY <1>5, <2>0, FS_Subset, FS_CardinalityType
  <2>2. Cardinality(U \cup G) = Cardinality(U) + Cardinality(G) - Cardinality(U \cap G)
        /\ IsFiniteSet(U \cup G)
    BY <1>5, <2>0, FS_Union
  <2>3. Cardinality(U \cup G) <= a + a + (n - 1)
    <3> HIDE DEF a, n
    <3> QED BY <1>2, <1>5, <2>0, <2>1, <2>2
  <2> QED BY <2>2, <2>3 DEF U
<1>9. Cardinality(Inode) <= a + a + (n - 1)
  <2>1. Cardinality(Inode) <= Cardinality((F \cup T) \cup G) /\ IsFiniteSet(Inode)
    BY <1>6, <1>8, FS_Subset
  <2>2. Cardinality(Inode) \in Nat /\ Cardinality((F \cup T) \cup G) \in Nat
    BY <1>8, <2>1, FS_CardinalityType
  <2> HIDE DEF a, n
  <2> QED BY <1>2, <1>8, <2>1, <2>2
<1>10. Cardinality(Inode) = 2 * a + n
  <2>1. 1 \in Int /\ 2 * a + n \in Int /\ (1 > 2 * a + n => 2 * a + n = 0)
    BY <1>2
  <2> HIDE DEF a, n
  <2>2. Cardinality(1..(2 * a + n)) = IF 1 > 2 * a + n THEN 0 ELSE (2 * a + n) - 1 + 1
    BY <2>1, FS_Interval
  <2> QED BY <1>2, <2>1, <2>2 DEF Inode, a, n
<1> HIDE DEF a, n
<1> QED BY <1>2, <1>9, <1>10

\* What a handler that writes a file knows.
LEMMA WriterFacts ==
  ASSUME Inv, NEW h \in Handler, req[h].pc \in {"create", "write", "finish", "rename"}
  PROVE  /\ req[h].q \in Queries /\ Method(req[h].q) \in FileMethods
         /\ Fetched(req[h].q, req[h].val, head)
         /\ Path(h) = PathOf(req[h].q) /\ Path(h) \in Paths
         /\ Filed(Path(h), req[h].val, head) /\ req[h].val \in Answers /\ req[h].db \in {0, req[h].db}
         /\ req[h].pc = "create" => req[h].fd = 0
         /\ req[h].pc # "create" => req[h].fd \in Inode /\ Serves(req[h].fd, Path(h), file, tmp, req)
<1>1. Placed(req[h], head) /\ req[h] \in Request
  BY RequestTypes
<1>2. /\ req[h].q \in Queries /\ Method(req[h].q) \in FileMethods
      /\ Fetched(req[h].q, req[h].val, head)
  BY <1>1 DEF Placed
<1>3. Path(h) = PathOf(req[h].q) /\ Path(h) \in Paths
  BY <1>2, FetchedFacts DEF Path
<1>4. Filed(Path(h), req[h].val, head) /\ req[h].val \in Answers
  BY <1>1, <1>2, <1>3 DEF Filed, Request
<1>5. req[h].fd \in Inode \cup {0} /\ (req[h].fd # 0 <=> req[h].pc \in {"write", "finish", "rename"})
  BY <1>1 DEF Request, Placed
<1>6. Serves(req[h].fd, Path(h), file, tmp, req)
  BY <1>3 DEF Serves
<1> QED BY <1>2, <1>3, <1>4, <1>5, <1>6

\* A handler goes from one step of write_gz_string to the next.
Onward(h, pc, i) == [req[h] EXCEPT !.pc = pc, !.fd = i]

LEMMA WriterGoesOn ==
  ASSUME Inv, NEW h \in Handler, req[h].pc \in {"create", "write", "finish"},
         NEW pc \in {"write", "finish", "rename"}, NEW i \in Inode
  PROVE  LET r == Onward(h, pc, i)
         IN  /\ r \in Request /\ r.fd = i /\ r.q = req[h].q
             /\ Serving([req EXCEPT ![h] = r], head, dbs)
<1> DEFINE s == req[h]
           r == Onward(h, pc, i)
<1>1. s \in Request /\ Placed(s, head) /\ Paced(s) /\ Holds(s, dbs) /\ Serving(req, head, dbs)
  BY RequestTypes DEF Inv
<1>2. /\ s.q \in Queries /\ Method(s.q) \in FileMethods /\ Fetched(s.q, s.val, head) /\ s.val # None
  BY WriterFacts, FetchedFacts
<1>b. s.pc \in {"create", "write", "finish"}
  OBVIOUS
<1> HIDE DEF s
<1>0. i # 0
  BY DEF Inode
<1>a. i \in Inode \cup {0} /\ pc \in Steps
  BY DEF Steps
<1>c. r = [s EXCEPT !.pc = pc, !.fd = i]
  BY DEF Onward, s
<1> HIDE DEF r
<1>3. /\ r \in Request /\ r.pc = pc /\ r.q = s.q /\ r.val = s.val /\ r.fd = i /\ r.db = s.db
      /\ r.from = s.from /\ r.attempt = s.attempt /\ r.delay = s.delay
  BY <1>1, <1>a, <1>c DEF Request
<1>4. Placed(r, head) /\ Paced(r) /\ Holds(r, dbs)
  BY <1>0, <1>1, <1>2, <1>3, <1>b DEF Placed, Paced, Holds
<1>5. Serving([req EXCEPT ![h] = r], head, dbs)
  BY <1>1, <1>3, <1>4, OneRequest
<1> QED BY <1>3, <1>5 DEF s, r

LEMMA CreateTmpStep ==
  ASSUME Inv, NEW h \in Handler, CreateTmp(h)
  PROVE  Inv'
<1> DEFINE s == req[h]
           p == Path(h)
           i == IF tmp[p] # 0 THEN tmp[p] ELSE Fresh
           r == Onward(h, "write", i)
<1>1. s.pc = "create" /\ req \in [Handler -> Request] /\ s \in Request
  BY RequestTypes DEF CreateTmp, At
<1>2. /\ tmp' = [tmp EXCEPT ![p] = i] /\ blob' = [blob EXCEPT ![i] = <<None, None>>]
      /\ req' = [req EXCEPT ![h] = r] /\ UNCHANGED <<head, url, dbs, kvs, disk, file, link, kills>>
  BY <1>1 DEF CreateTmp, Onward
<1>3. p \in Paths /\ p = PathOf(s.q) /\ s.fd = 0
  BY <1>1, WriterFacts
<1>4. Files(file, tmp, blob, link, req, head)
  BY DEF Inv
<1>5. i \in Inode /\ i # 0 /\ (tmp[p] # i => ~InUse(i))
  BY <1>3, <1>4, FreshFacts DEF Files, Inode
<1> HIDE DEF i, p
<1>6. r \in Request /\ r.fd = i /\ r.q = s.q /\ Serving([req EXCEPT ![h] = r], head, dbs)
  BY <1>1, <1>5, WriterGoesOn
<1> HIDE DEF r, s
<1>7. ASSUME NEW j \in Inode, NEW x \in Paths, Serves(j, x, file, tmp', req')
      PROVE  Serves(j, x, file, tmp, req) \/ (j = i /\ x = p)
  <2>1. CASE file[x] = j
    BY <2>1 DEF Serves
  <2>2. CASE tmp'[x] = j
    BY <1>2, <1>4, <2>2 DEF Serves, Files
  <2>3. ASSUME NEW g \in Handler, req'[g].fd = j, PathOf(req'[g].q) = x
        PROVE  Serves(j, x, file, tmp, req) \/ (j = i /\ x = p)
    <3>1. CASE g = h
      BY <1>1, <1>2, <1>3, <1>6, <2>3, <3>1
    <3>2. CASE g # h
      BY <1>1, <1>2, <2>3, <3>2 DEF Serves
    <3> QED BY <3>1, <3>2
  <2> QED BY <1>7, <2>1, <2>2, <2>3 DEF Serves
<1>8. ASSUME NEW x \in Paths, Serves(i, x, file, tmp, req)
      PROVE  x = p
  <2>1. CASE tmp[p] = i
    <3>1. Serves(i, p, file, tmp, req)
      BY <2>1 DEF Serves
    <3> QED BY <1>3, <1>4, <1>5, <1>8, <3>1 DEF Files
  <2>2. CASE tmp[p] # i
    BY <1>5, <1>8, <2>2 DEF Serves, InUse
  <2> QED BY <2>1, <2>2
<1>9. Files(file, tmp', blob', link, req', head)
  <2>1. /\ file \in [Paths -> Inode \cup {0}] /\ tmp' \in [Paths -> Inode \cup {0}]
        /\ blob' \in [Inode -> Answers \X Answers]
        /\ link \in [Blocks -> Blocks \cup {0}] /\ \A n \in Blocks : link[n] \in {0, n}
    BY <1>2, <1>4, <1>5, AnswerTypes DEF Files
  <2>2. ASSUME NEW j \in Inode, NEW x \in Paths, NEW y \in Paths,
               Serves(j, x, file, tmp', req'), Serves(j, y, file, tmp', req')
        PROVE  x = y
    <3>1. /\ Serves(j, x, file, tmp, req) \/ (j = i /\ x = p)
          /\ Serves(j, y, file, tmp, req) \/ (j = i /\ y = p)
      BY <1>7, <2>2
    <3> QED BY <1>4, <1>8, <3>1 DEF Files
  <2>3. ASSUME NEW j \in Inode, NEW x \in Paths, Serves(j, x, file, tmp', req'), NEW k \in {1, 2}
        PROVE  blob'[j][k] = None \/ Filed(x, blob'[j][k], head)
    <3>1. CASE j = i
      <4>1. blob'[j] = <<None, None>>
        BY <1>2, <1>4, <3>1 DEF Files
      <4> QED BY <4>1
    <3>2. CASE j # i
      <4>1. blob'[j] = blob[j]
        BY <1>2, <1>4, <3>2 DEF Files
      <4>2. Serves(j, x, file, tmp, req)
        BY <1>7, <2>3, <3>2
      <4> QED BY <1>4, <4>1, <4>2 DEF Files
    <3> QED BY <3>1, <3>2
  <2> QED BY <2>1, <2>2, <2>3 DEF Files
<1> QED BY <1>2, <1>6, <1>9 DEF Inv

\* The handler of h writes its value into part k of its file.
LEMMA WritesPart ==
  ASSUME Inv, NEW h \in Handler, req[h].pc \in {"write", "finish"}, NEW k \in {1, 2},
         NEW pc \in {"finish", "rename"},
         blob' = [blob EXCEPT ![req[h].fd][k] = req[h].val], Goto(h, pc),
         UNCHANGED <<head, url, dbs, kvs, disk, file, tmp, link, kills>>
  PROVE  Inv'
<1> DEFINE s == req[h]
           i == s.fd
           p == Path(h)
           r == Onward(h, pc, i)
<1>1. req \in [Handler -> Request] /\ s \in Request
  BY RequestTypes
<1>2. /\ i \in Inode /\ p \in Paths /\ Serves(i, p, file, tmp, req)
      /\ Filed(p, s.val, head) /\ s.val \in Answers
  BY WriterFacts
<1>3. req' = [req EXCEPT ![h] = r]
  BY <1>1 DEF Goto, Request, Onward
<1>a. i = s.fd
  OBVIOUS
<1> HIDE DEF i, p
<1>c. pc \in {"write", "finish", "rename"} /\ req[h].pc \in {"create", "write", "finish"}
  OBVIOUS
<1>4. r \in Request /\ r.fd = i /\ r.q = s.q /\ Serving([req EXCEPT ![h] = r], head, dbs)
  BY <1>2, <1>c, WriterGoesOn
<1> HIDE DEF r
<1>5. Files(file, tmp, blob, link, req', head)
  BY <1>a, <1>1, <1>3, <1>4, QuietRequest DEF Inv
<1>6. ASSUME NEW j \in Inode, NEW x \in Paths, Serves(j, x, file, tmp, req')
      PROVE  j = i => x = p
  <2>1. Serves(i, p, file, tmp, req')
    BY <1>a, <1>1, <1>2, <1>3, <1>4 DEF Serves
  <2> QED BY <1>2, <1>5, <1>6, <2>1 DEF Files
<1> DEFINE v == s.val
<1> HIDE DEF v
<1>7. blob' = [blob EXCEPT ![i] = [@ EXCEPT ![k] = v]]
  BY <1>a DEF v
<1>8. blob \in [Inode -> Answers \X Answers]
  BY DEF Inv, Files
<1>9. /\ blob' \in [Inode -> Answers \X Answers]
      /\ \A j \in Inode : j # i => blob'[j] = blob[j]
      /\ \A m \in {1, 2} : blob'[i][m] = IF m = k THEN v ELSE blob[i][m]
  <2>1. blob[i] \in Answers \X Answers /\ v \in Answers
    BY <1>2, <1>8 DEF v
  <2>2. [blob[i] EXCEPT ![k] = v] \in Answers \X Answers
    BY <2>1
  <2>3. \A m \in {1, 2} : [blob[i] EXCEPT ![k] = v][m] = IF m = k THEN v ELSE blob[i][m]
    BY <2>1
  <2> QED BY <1>2, <1>7, <1>8, <2>2, <2>3
<1>10. Files(file, tmp, blob', link, req', head)
  <2>1. ASSUME NEW j \in Inode, NEW x \in Paths, Serves(j, x, file, tmp, req'), NEW m \in {1, 2}
        PROVE  blob'[j][m] = None \/ Filed(x, blob'[j][m], head)
    <3>1. blob[j][m] = None \/ Filed(x, blob[j][m], head)
      BY <1>5, <2>1 DEF Files
    <3>2. j = i => x = p
      BY <1>6, <2>1
    <3> QED BY <1>2, <1>9, <3>1, <3>2 DEF v
  <2> QED BY <1>5, <1>9, <2>1 DEF Files
<1> QED BY <1>3, <1>4, <1>10 DEF Inv

LEMMA WriteTmpStep ==
  ASSUME Inv, NEW h \in Handler, WriteTmp(h)
  PROVE  Inv'
BY WritesPart DEF WriteTmp, At

LEMMA FinishTmpStep ==
  ASSUME Inv, NEW h \in Handler, FinishTmp(h)
  PROVE  Inv'
BY WritesPart DEF FinishTmp, At

\* Inodes that serve fewer paths, or are emptied, do no harm.
LEMMA FewerServed ==
  ASSUME NEW f, NEW t, NEW b, NEW l, NEW rq, NEW hd, Files(f, t, b, l, rq, hd),
         NEW f2 \in [Paths -> Inode \cup {0}], NEW t2 \in [Paths -> Inode \cup {0}], NEW rq2,
         \A i \in Inode, p \in Paths : Serves(i, p, f2, t2, rq2) => Serves(i, p, f, t, rq)
  PROVE  Files(f2, t2, b, l, rq2, hd)
BY DEF Files

LEMMA ReclaimFacts ==
  ASSUME NEW f, NEW t, NEW l, NEW rq, NEW hd, Files(f, t, blob, l, rq, hd), Reclaim
  PROVE  Files(f, t, blob', l, rq, hd)
<1>1. \A i \in Inode : blob'[i] = blob[i] \/ blob'[i] = <<None, None>>
  BY DEF Reclaim
<1>2. blob' \in [Inode -> Answers \X Answers]
  <2>1. blob' = [i \in Inode |-> blob'[i]]
    BY DEF Reclaim
  <2>2. \A i \in Inode : blob'[i] \in Answers \X Answers
    BY <1>1, AnswerTypes DEF Files
  <2> QED BY <2>1, <2>2
<1>3. ASSUME NEW i \in Inode, NEW p \in Paths, Serves(i, p, f, t, rq), NEW j \in {1, 2}
      PROVE  blob'[i][j] = None \/ Filed(p, blob'[i][j], hd)
  <2>1. blob[i][j] = None \/ Filed(p, blob[i][j], hd)
    BY <1>3 DEF Files
  <2>2. <<None, None>>[j] = None
    OBVIOUS
  <2> QED BY <1>1, <2>1, <2>2
<1> QED BY <1>2, <1>3 DEF Files

\* The handler of h closes its file and goes on to link a block.
LEMMA ToUnlink ==
  ASSUME Inv, NEW h \in Handler, At(h, "rename"), Method(req[h].q) \in BlockMethods,
         req' = [req EXCEPT ![h].pc = "unlink", ![h].fd = 0]
  PROVE  \E r \in Request : /\ req' = [req EXCEPT ![h] = r] /\ r.fd = 0
                            /\ Placed(r, head) /\ Paced(r) /\ Holds(r, dbs)
<1> DEFINE s == req[h]
           r == [s EXCEPT !.pc = "unlink", !.fd = 0]
<1>1. /\ s \in Request /\ Placed(s, head) /\ Paced(s) /\ Holds(s, dbs) /\ req \in [Handler -> Request]
      /\ s.pc = "rename" /\ Method(s.q) \in BlockMethods
  BY RequestTypes DEF At
<1>2. req' = [req EXCEPT ![h] = r]
  BY <1>1
<1> HIDE DEF s
<1>3. /\ r \in Request /\ r.q = s.q /\ r.val = s.val /\ r.fd = 0 /\ r.db = s.db
      /\ r.attempt = s.attempt /\ r.pc = "unlink"
  BY <1>1 DEF Request, Steps
<1> HIDE DEF r
<1>4. Fetched(s.q, s.val, head) /\ s.val # None
  BY <1>1, FetchedFacts DEF Placed
<1>5. Placed(r, head) /\ Paced(r) /\ Holds(r, dbs)
  BY <1>1, <1>3, <1>4 DEF Placed, Paced, Holds, Fetched
<1> QED BY <1>2, <1>3, <1>5

LEMMA RenameTmpStep ==
  ASSUME Inv, NEW h \in Handler, RenameTmp(h)
  PROVE  Inv'
<1> DEFINE p == Path(h)
<1>1. /\ At(h, "rename") /\ Reclaim /\ UNCHANGED <<head, url, dbs, kvs, disk, link, kills>>
      /\ req[h].val \in Answers /\ req \in [Handler -> Request]
  BY RequestTypes DEF RenameTmp
<1>2. p \in Paths /\ Files(file, tmp, blob, link, req, head) /\ Serving(req, head, dbs)
  BY <1>1, WriterFacts DEF At, Inv
<1>3. PICK r \in Request : /\ req' = [req EXCEPT ![h] = r] /\ r.fd = 0
                           /\ Placed(r, head) /\ Paced(r) /\ Holds(r, dbs)
  <2>1. CASE Answer(h, "upstream", req[h].val)
    BY <1>1, <2>1, AnswerStep
  <2>2. CASE ~Answer(h, "upstream", req[h].val)
    <3>1. /\ Method(req[h].q) \in BlockMethods
          /\ req' = [req EXCEPT ![h].pc = "unlink", ![h].fd = 0]
      BY <2>2 DEF RenameTmp
    <3> QED BY <1>1, <3>1, ToUnlink
  <2> QED BY <2>1, <2>2
<1>4. Serving(req', head, dbs) /\ Files(file, tmp, blob, link, req', head)
  BY <1>1, <1>2, <1>3, OneRequest, QuietRequest
<1>5. Files(file', tmp', blob, link, req', head)
  <2>1. CASE UNCHANGED <<file, tmp>>
    BY <1>4, <2>1
  <2>2. CASE /\ tmp[p] # 0 /\ file' = [file EXCEPT ![p] = tmp[p]] /\ tmp' = [tmp EXCEPT ![p] = 0]
    <3> HIDE DEF p
    <3>1. file' \in [Paths -> Inode \cup {0}] /\ tmp' \in [Paths -> Inode \cup {0}]
      BY <1>2, <2>2 DEF Files
    <3>2. ASSUME NEW i \in Inode, NEW x \in Paths, Serves(i, x, file', tmp', req')
          PROVE  Serves(i, x, file, tmp, req')
      <4>0. i # 0
        BY DEF Inode
      <4>1. file'[x] = i => file[x] = i \/ tmp[x] = i
        BY <1>2, <2>2 DEF Files
      <4>2. tmp'[x] = i => tmp[x] = i
        BY <1>2, <2>2, <4>0 DEF Files
      <4> QED BY <3>2, <4>1, <4>2 DEF Serves
    <3> QED BY <1>4, <3>1, <3>2, FewerServed
  <2> QED BY <2>1, <2>2 DEF RenameTmp
<1>6. Files(file', tmp', blob', link, req', head)
  BY <1>1, <1>5, ReclaimFacts
<1> QED BY <1>1, <1>4, <1>6 DEF Inv

LEMMA UnlinkStep ==
  ASSUME Inv, NEW h \in Handler, Unlink(h)
  PROVE  Inv'
<1> DEFINE s == req[h]
           r == [s EXCEPT !.pc = "symlink"]
<1>1. /\ s \in Request /\ Placed(s, head) /\ Paced(s) /\ Holds(s, dbs) /\ req \in [Handler -> Request]
      /\ s.pc = "unlink" /\ UNCHANGED <<head, url, dbs, kvs, disk, file, tmp, blob, kills>>
  BY RequestTypes DEF Unlink, At
<1>2. req' = [req EXCEPT ![h] = r] /\ link' = [link EXCEPT ![s.val[2]] = 0]
  BY <1>1 DEF Unlink, Goto
<1> HIDE DEF s
<1>3. /\ r \in Request /\ r.q = s.q /\ r.val = s.val /\ r.fd = s.fd /\ r.db = s.db
      /\ r.attempt = s.attempt /\ r.pc = "symlink"
  BY <1>1 DEF Request, Steps
<1> HIDE DEF r
<1>4. Placed(r, head) /\ Paced(r) /\ Holds(r, dbs)
  BY <1>1, <1>3 DEF Placed, Paced, Holds
<1>5. Serving(req', head, dbs) /\ Files(file, tmp, blob, link, req', head)
  BY <1>1, <1>2, <1>3, <1>4, OneRequest, QuietRequest DEF Inv, s
<1>6. link' \in [Blocks -> Blocks \cup {0}] /\ \A n \in Blocks : link'[n] \in {0, n}
  BY <1>2 DEF Inv, Files
<1>7. Files(file, tmp, blob, link', req', head)
  BY <1>5, <1>6 DEF Files
<1> QED BY <1>1, <1>5, <1>7 DEF Inv

LEMMA SymlinkStep ==
  ASSUME Inv, NEW h \in Handler, Symlink(h)
  PROVE  Inv'
<1> DEFINE n == req[h].val[2]
<1>1. /\ Placed(req[h], head) /\ req[h].val \in Answers /\ req \in [Handler -> Request]
      /\ req[h].pc = "symlink" /\ UNCHANGED <<head, url, dbs, kvs, disk, file, tmp, blob, kills>>
      /\ link' = [link EXCEPT ![n] = IF link[n] = 0 THEN n ELSE link[n]]
      /\ Answer(h, "upstream", req[h].val)
  BY RequestTypes DEF Symlink, At
<1>2. n \in Blocks
  BY <1>1, FetchedFacts DEF Placed
<1>3. Serving(req', head, dbs) /\ Files(file, tmp, blob, link, req', head)
  BY <1>1, AnswerStep, OneRequest, QuietRequest DEF Inv
<1> HIDE DEF n
<1>4. link' \in [Blocks -> Blocks \cup {0}] /\ \A m \in Blocks : link'[m] \in {0, m}
  BY <1>1, <1>2 DEF Inv, Files
<1>5. Files(file, tmp, blob, link', req', head)
  BY <1>3, <1>4 DEF Files
<1> QED BY <1>1, <1>3, <1>5 DEF Inv

-----------------------------------------------------------------------------
(* The process and the chain *)

LEMMA DbNames ==
  /\ <<"eth_getBalance">> \in Dbs /\ <<"eth_getTransactionCount">> \in Dbs
  /\ <<"eth_getBalance">> # <<"eth_getTransactionCount">>
BY DEF Dbs

\* Two stores are open, of the balances and the nonces, with the contents d.
LEMMA TwoStores ==
  ASSUME NEW d, NEW dk, NEW ks, NEW o, NEW hd,
         ks = << d[<<"eth_getBalance">>], d[<<"eth_getTransactionCount">>] >>,
         o = [name \in Dbs |-> CASE name = <<"eth_getBalance">> -> 1
                                 [] name = <<"eth_getTransactionCount">> -> 2
                                 [] OTHER -> 0],
         \A n \in Dbs : Kept(n, d[n], hd) /\ Kept(n, dk[n], hd)
  PROVE  Stores(o, ks, dk, hd)
<1> DEFINE B == <<"eth_getBalance">>
           C == <<"eth_getTransactionCount">>
<1>1. B \in Dbs /\ C \in Dbs /\ B # C
  BY DbNames
<1>2. ks = <<d[B], d[C]>>
  OBVIOUS
<1> HIDE DEF B, C
<1>3. \E S : ks \in Seq(S)
  <2>1. ks \in Seq({d[B], d[C]})
    BY <1>2
  <2> QED BY <2>1
<1>4. Len(ks) = 2 /\ ks[1] = d[B] /\ ks[2] = d[C]
  BY <1>2
<1>5. \A n \in Dbs : o[n] = IF n = B THEN 1 ELSE IF n = C THEN 2 ELSE 0
  BY <1>1 DEF B, C
<1>6. o \in [Dbs -> 0..2]
  <2>1. o = [n \in Dbs |-> o[n]]
    OBVIOUS
  <2> QED BY <1>5, <2>1
<1> QED BY <1>1, <1>3, <1>4, <1>5, <1>6 DEF Stores, B, C

\* What a lookup finds in a database has been fetched.
LEMMA ViewKept ==
  ASSUME Inv, NEW n \in Dbs
  PROVE  Kept(n, View(n), head)
BY DEF Inv, Stores, View

\* A part of what is kept is kept.
LEMMA KeptPart ==
  ASSUME NEW n, NEW kv, NEW hd, Kept(n, kv, hd), NEW K \in SUBSET DOMAIN kv
  PROVE  Kept(n, [k \in K |-> kv[k]], hd)
BY DEF Kept

LEMMA RestartStep ==
  ASSUME Inv, Restart
  PROVE  Inv'
<1> DEFINE flushed == [name \in Dbs |-> View(name)]
<1>1. /\ Started(flushed) /\ disk' = flushed /\ UNCHANGED <<head, files, kills>>
      /\ \A h \in Handler : req[h].pc \in {"idle", "done"}
  BY DEF Restart
<1>2. req' = [h \in Handler |-> Idle] /\ url' = DefaultUrl /\ DefaultUrl \in Urls
  BY <1>1, ChainAssumption DEF Started
<1>3. Serving(req', head, dbs')
  BY <1>2, AllIdle
<1>4. \A n \in Dbs : Kept(n, flushed[n], head)
  BY ViewKept
<1> HIDE DEF flushed
<1>5. Stores(dbs', kvs', flushed, head)
  BY <1>1, <1>4, TwoStores DEF Started
<1>6. Files(file, tmp, blob, link, req', head)
  <2>1. \A i \in Inode, p \in Paths : Serves(i, p, file, tmp, req') => Serves(i, p, file, tmp, req)
    <3>1. \A h \in Handler, i \in Inode : req'[h].fd # i
      BY <1>2, IdleFacts DEF Inode
    <3> QED BY <3>1 DEF Serves
  <2> QED BY <2>1, FewerServed DEF Inv, Files
<1> QED BY <1>1, <1>2, <1>3, <1>5, <1>6 DEF Inv, files

LEMMA KillStep ==
  ASSUME Inv, NEW lost, Kill(lost)
  PROVE  Inv'
<1> DEFINE d == [name \in Dbs |->
                   [k \in {x \in DOMAIN View(name) : <<name, x>> \notin lost} |-> View(name)[k]]]
<1>1. /\ Started(d) /\ disk' = d /\ UNCHANGED <<head, file, tmp, link>>
      /\ Reclaim /\ kills' = kills + 1
  BY DEF Kill
<1>2. req' = [h \in Handler |-> Idle] /\ url' = DefaultUrl /\ DefaultUrl \in Urls
  BY <1>1, ChainAssumption DEF Started
<1>3. Serving(req', head, dbs')
  BY <1>2, AllIdle
<1>4. ASSUME NEW n \in Dbs PROVE Kept(n, d[n], head)
  <2> DEFINE K == {x \in DOMAIN View(n) : <<n, x>> \notin lost}
  <2>1. d[n] = [k \in K |-> View(n)[k]]
    OBVIOUS
  <2>2. K \in SUBSET DOMAIN View(n)
    OBVIOUS
  <2> HIDE DEF K, d
  <2> QED BY <2>1, <2>2, ViewKept, KeptPart
<1> HIDE DEF d
<1>5. Stores(dbs', kvs', d, head)
  BY <1>1, <1>4, TwoStores DEF Started
<1>6. Files(file, tmp, blob, link, req', head)
  <2>1. \A i \in Inode, p \in Paths : Serves(i, p, file, tmp, req') => Serves(i, p, file, tmp, req)
    <3>1. \A h \in Handler, i \in Inode : req'[h].fd # i
      BY <1>2, IdleFacts DEF Inode
    <3> QED BY <3>1 DEF Serves
  <2> QED BY <2>1, FewerServed DEF Inv, Files
<1>7. Files(file, tmp, blob', link, req', head)
  BY <1>1, <1>6, ReclaimFacts
<1> QED BY <1>1, <1>2, <1>3, <1>5, <1>7 DEF Inv

LEMMA NewBlockStep ==
  ASSUME Inv, NEW u \in Urls, NewBlock(u)
  PROVE  Inv'
<1>1. /\ head \in [Urls -> 0..MaxBlock] /\ head[u] < MaxBlock /\ head' = [head EXCEPT ![u] = @ + 1]
      /\ UNCHANGED <<url, req, dbs, kvs, disk, files, kills>> /\ MaxBlock \in Nat
  BY ChainAssumption DEF NewBlock, Inv
<1> DEFINE hd == head'
<1>2. head \in Heads /\ hd \in Heads /\ Grown(head, hd)
  BY <1>1 DEF Heads, Grown
<1> HIDE DEF hd
<1>3. Serving(req, hd, dbs)
  BY <1>2, PlacedGrown DEF Inv, Serving
<1>4. Stores(dbs, kvs, disk, hd)
  BY <1>2, StoresGrown DEF Inv
<1>5. Files(file, tmp, blob, link, req, hd)
  BY <1>2, FilesGrown DEF Inv
<1> QED BY <1>1, <1>2, <1>3, <1>4, <1>5 DEF Inv, files, Heads, hd

LEMMA InvInit ==
  ASSUME Init
  PROVE  Inv
<1>1. head \in [Urls -> 0..MaxBlock] /\ url \in Urls /\ kills \in Nat
  BY ChainAssumption DEF Init
<1>2. Serving(req, head, dbs)
  BY AllIdle DEF Init
<1>3. Stores(dbs, kvs, disk, head)
  <2>1. \A n \in Dbs : Kept(n, disk[n], head)
    BY DEF Init, Kept
  <2>2. kvs = << disk[<<"eth_getBalance">>], disk[<<"eth_getTransactionCount">>] >>
    BY DbNames DEF Init
  <2> QED BY <2>1, <2>2, TwoStores DEF Init
<1>4. Files(file, tmp, blob, link, req, head)
  <2>1. \A i \in Inode, p \in Paths : ~Serves(i, p, file, tmp, req)
    BY IdleFacts DEF Init, Serves, Inode
  <2>2. blob \in [Inode -> Answers \X Answers]
    BY AnswerTypes DEF Init
  <2> QED BY <2>1, <2>2 DEF Init, Files
<1> QED BY <1>1, <1>2, <1>3, <1>4 DEF Inv

LEMMA InvNext ==
  ASSUME Inv, [Next]_vars
  PROVE  Inv'
<1>1. CASE UNCHANGED vars
  BY <1>1 DEF Inv, vars, files
<1>2. ASSUME NEW h \in Handler, Handle(h)
      PROVE  Inv'
  BY <1>2, FindDbStep, OpenDbStep, GetStep, ReadUrlStep, RespondStep, RefuseStep, WakeStep,
     InsertStep, CreateTmpStep, WriteTmpStep, FinishTmpStep, RenameTmpStep, UnlinkStep, SymlinkStep
     DEF Handle
<1>3. ASSUME NEW u \in Urls, UpdateUrl(u)
      PROVE  Inv'
  BY <1>3 DEF UpdateUrl, Inv, files
<1> QED BY <1>1, <1>2, <1>3, LeaveStep, ArriveStep, NewBlockStep, RestartStep, KillStep DEF Next

-----------------------------------------------------------------------------
(* Theorems *)

\* Whatever the handlers' interleaving, the kills and the restarts: every entry of
\* a store and every part of a file was answered by a node to a query that is
\* looked up there, and no two paths share an inode.
THEOREM ProxyInvariance == Spec => []Inv
<1>1. Init => Inv
  BY InvInit
<1>2. Inv /\ [Next]_vars => Inv'
  BY InvNext
<1> QED BY <1>1, <1>2, PTL DEF Spec

\* A handler never uses a store that Cache::storage_db did not open, nor an inode
\* beyond those there are, and retry makes no more than max_attempts attempts.
THEOREM ProxyTypeCorrect == Spec => []TypeOK
<1>1. Inv => TypeOK
  <2> SUFFICES ASSUME Inv PROVE TypeOK
    OBVIOUS
  <2>1. PICK S : kvs \in Seq(S)
    BY DEF Inv, Stores
  <2>2. Len(kvs) \in Nat
    BY <2>1
  <2>3. dbs \in [Dbs -> 0..Len(kvs)]
    BY DEF Inv, Stores
  <2>4. ASSUME NEW h \in Handler
        PROVE  /\ req[h].url \in Urls /\ req[h].attempt \in 0..(MaxAttempts - 1)
               /\ req[h].db \in 0..Len(kvs) /\ req[h].fd \in Inode \cup {0}
    <3>1. /\ req[h].url \in Urls /\ req[h].attempt \in 0..(MaxAttempts - 1)
          /\ req[h].fd \in Inode \cup {0} /\ Holds(req[h], dbs)
      BY RequestTypes DEF Request
    <3>2. CASE req[h].db = 0
      BY <2>2, <3>1, <3>2
    <3>3. CASE req[h].db # 0
      <4>1. /\ Method(req[h].q) = "eth_getStorageAt" /\ req[h].q \in Queries
            /\ req[h].db = dbs[DbOf(req[h].q)]
        BY <3>1, <3>3 DEF Holds
      <4>2. DbOf(req[h].q) \in Dbs
        BY <4>1, DbFacts DEF KvMethods
      <4> QED BY <2>3, <3>1, <4>1, <4>2
    <3> QED BY <3>2, <3>3
  <2> QED BY <2>3, <2>4 DEF Inv, Files, TypeOK
<1> QED BY <1>1, ProxyInvariance, PTL

\* The delay that retry sleeps stays below twice max_delay_ms: it doubles as long
\* as it is below the limit, and is the limit from then on.
THEOREM DelayAlwaysBounded == Spec => []DelayBounded
<1>1. Inv => DelayBounded
  <2> SUFFICES ASSUME Inv, NEW h \in Handler, At(h, "sleep")
               PROVE  req[h].delay < 2 * MaxDelay
    BY DEF DelayBounded
  <2>1. Paced(req[h]) /\ req[h].pc = "sleep"
    BY RequestTypes DEF At
  <2> QED BY <2>1 DEF Paced
<1> QED BY <1>1, ProxyInvariance, PTL

\* A database that two handlers open at the same time is opened once, as storage_db
\* looks again under the write lock: no insert goes to a store that lookups do not
\* see, and a restart flushes what they see.
THEOREM EntriesAlwaysKept == Spec => EntriesKept
<1>1. Inv /\ [Next]_vars => [EntriesStay]_vars
  <2> SUFFICES ASSUME Inv, [Next]_vars
               PROVE  EntriesStay
    OBVIOUS
  <2> SUFFICES ASSUME kills' = kills, NEW n \in Dbs
               PROVE  DOMAIN View(n) \subseteq DOMAIN View(n)'
    BY DEF EntriesStay
  <2>1. CASE UNCHANGED <<dbs, kvs, disk>>
    BY <2>1 DEF View
  <2>2. PICK S : kvs \in Seq(S)
    BY DEF Inv, Stores
  <2>3. /\ dbs \in [Dbs -> 0..Len(kvs)] /\ \A m, k \in Dbs : dbs[m] = dbs[k] /\ dbs[m] # 0 => m = k
    BY DEF Inv, Stores
  <2>4. ASSUME NEW h \in Handler, OpenDb(h)
        PROVE  DOMAIN View(n) \subseteq DOMAIN View(n)'
    <3> DEFINE name == DbOf(req[h].q)
    <3>1. name \in Dbs /\ UNCHANGED disk
      BY <2>4, RequestTypes, DbFacts DEF OpenDb, At, Placed, KvMethods
    <3>2. CASE dbs[name] # 0
      BY <2>1, <2>4, <3>1, <3>2 DEF OpenDb
    <3>3. CASE dbs[name] = 0
      <4> DEFINE k == Len(kvs')
      <4>1. kvs' = Append(kvs, disk[name]) /\ dbs' = [dbs EXCEPT ![name] = k]
        BY <2>4, <3>3 DEF OpenDb
      <4>2. /\ k = Len(kvs) + 1 /\ k # 0 /\ kvs'[k] = disk[name]
            /\ \A i \in 1..Len(kvs) : kvs'[i] = kvs[i]
        <5> DEFINE U == S \cup {disk[name]}
        <5>1. kvs \in Seq(U) /\ disk[name] \in U
          BY <2>2
        <5> HIDE DEF U, name
        <5> QED BY <4>1, <5>1
      <4> HIDE DEF k, name
      <4>3. CASE n = name
        BY <2>3, <3>1, <3>3, <4>1, <4>2, <4>3 DEF View
      <4>4. CASE n # name
        <5>1. dbs'[n] = dbs[n] /\ (dbs[n] # 0 => dbs[n] \in 1..Len(kvs))
          BY <2>2, <2>3, <4>1, <4>4
        <5> QED BY <3>1, <4>2, <5>1 DEF View
      <4> QED BY <4>3, <4>4
    <3> QED BY <3>2, <3>3
  <2>5. ASSUME NEW h \in Handler, Insert(h)
        PROVE  DOMAIN View(n) \subseteq DOMAIN View(n)'
    <3> DEFINE q == req[h].q
               db == IF req[h].db # 0 THEN req[h].db ELSE dbs[DbOf(q)]
               e == [k \in DOMAIN kvs[db] \cup {Key(q)} |->
                       IF k = Key(q) THEN Stored(q, req[h].val) ELSE kvs[db][k]]
    <3>1. kvs' = [kvs EXCEPT ![db] = e] /\ UNCHANGED <<dbs, disk>>
      BY <2>5 DEF Insert
    <3>2. DOMAIN kvs[db] \subseteq DOMAIN e
      OBVIOUS
    <3> HIDE DEF db, e
    <3>3. ASSUME NEW i \in 1..Len(kvs)
          PROVE  DOMAIN kvs[i] \subseteq DOMAIN kvs'[i]
      <4>1. kvs'[i] = IF i = db THEN e ELSE kvs[i]
        BY <2>2, <3>1
      <4> QED BY <3>2, <4>1
    <3>4. dbs[n] # 0 => dbs[n] \in 1..Len(kvs)
      BY <2>2, <2>3
    <3> QED BY <3>1, <3>3, <3>4 DEF View
  <2>6. CASE Restart
    <3>1. /\ disk' = [name \in Dbs |-> View(name)]
          /\ kvs' = << disk'[<<"eth_getBalance">>], disk'[<<"eth_getTransactionCount">>] >>
          /\ dbs' = [name \in Dbs |-> CASE name = <<"eth_getBalance">> -> 1
                                        [] name = <<"eth_getTransactionCount">> -> 2
                                        [] OTHER -> 0]
      BY <2>6 DEF Restart, Started
    <3>2. \/ dbs'[n] = 1 /\ n = <<"eth_getBalance">>
          \/ dbs'[n] = 2 /\ n = <<"eth_getTransactionCount">>
          \/ dbs'[n] = 0
      BY <3>1
    <3>3. dbs'[n] # 0 => kvs'[dbs'[n]] = disk'[n]
      BY <3>1, <3>2
    <3>4. View(n)' = disk'[n] /\ disk'[n] = View(n)
      BY <3>1, <3>3 DEF View
    <3> QED BY <3>4
  <2>7. ASSUME NEW lost, Kill(lost)
        PROVE  FALSE
    BY <2>7 DEF Kill, Inv
  <2>8. ASSUME NEW h \in Handler, Handle(h)
        PROVE  UNCHANGED <<dbs, kvs, disk>> \/ OpenDb(h) \/ Insert(h)
    BY <2>8 DEF Handle, FindDb, Get, ReadUrl, Respond, Refuse, Wake, CreateTmp, WriteTmp,
                FinishTmp, RenameTmp, Unlink, Symlink
  <2>9. CASE Next
    <3>1. \/ UNCHANGED <<dbs, kvs, disk>>
          \/ \E h \in Handler : Handle(h)
          \/ Restart
          \/ \E lost \in SUBSET Unflushed : Kill(lost)
      BY <2>9 DEF Next, Leave, Arrive, UpdateUrl, NewBlock
    <3> QED BY <2>1, <2>4, <2>5, <2>6, <2>7, <2>8, <3>1
  <2> QED BY <2>1, <2>9 DEF vars
<1> QED BY <1>1, ProxyInvariance, PTL DEF Spec, EntriesKept

\* No two queries of state share a key: the block tag "latest" is stored under the
\* number zero, so that nobody asks for block 0 as well.
DistinctKeys ==
  \A p, q \in Queries :
    Method(p) \in KvMethods /\ Method(q) = Method(p) /\ Key(p) = Key(q) => p = q

\* A hit is what some node answered, to this query or to one that the names of the
\* files do not tell from it: no handler reads a file half written or written by
\* two, nor the store of another account.  Where nodes answer null for state they
\* lack, the proxy keeps a zero in its place, and the hit is none of theirs.
THEOREM HitsAlwaysTrue ==
  ASSUME ~NullState, DistinctKeys
  PROVE  Spec => []HitsTrue
<1>1. Inv => HitsTrue
  <2> SUFFICES ASSUME Inv, NEW h \in Handler, At(h, "done"), req[h].from = "cache"
               PROVE  \E p \in Queries, k \in 0..MaxBlock :
                        /\ \E u \in Urls : k <= head[u]
                        /\ Alike(p, req[h].q)
                        /\ req[h].val = Result(p, k)
                        /\ req[h].val \notin {Null, Error}
    BY DEF HitsTrue
  <2> DEFINE q == req[h].q
             v == req[h].val
  <2>1. Found(q, v, head) /\ req[h] \in Request
    BY RequestTypes DEF Placed, At
  <2>2. PICK p \in Queries, w \in Answers : Fetched(p, w, head) /\ v = Stored(p, w) /\ SameKey(p, q)
    BY <2>1 DEF Found
  <2>3. v = w /\ v \notin {Null, Error}
    BY <2>2, FetchedFacts
  <2>4. PICK k \in 0..MaxBlock, u \in Urls : w = Result(p, k) /\ k <= head[u]
    BY <2>2 DEF Fetched
  <2>5. Alike(p, q)
    <3>1. CASE Method(p) \in FileMethods /\ Alike(p, q)
      BY <3>1
    <3>2. CASE {Method(p), Method(q)} \subseteq KvMethods /\ DbOf(p) = DbOf(q) /\ Key(p) = Key(q)
      <4>1. Idle.q = <<"none", 0, 0, 0>>
        BY DEF Idle
      <4>2. q # Idle.q
        BY <3>2, <4>1 DEF KvMethods, Method
      <4>3. q \in Queries
        BY <2>1, <4>2 DEF Request
      <4>4. Method(p) = Method(q)
        <5>1. \A m \in KvMethods : \A x : <<m>> # <<"storage", x>>
          BY DEF KvMethods
        <5> QED BY <3>2, <5>1 DEF DbOf
      <4> QED BY <3>2, <4>3, <4>4 DEF DistinctKeys, Alike
    <3> QED BY <2>2, <3>1, <3>2 DEF SameKey
  <2> QED BY <2>3, <2>4, <2>5
<1> QED BY <1>1, ProxyInvariance, PTL

-----------------------------------------------------------------------------
(* Every step of a handler brings it closer to its answer *)

LEMMA StepsLeftType ==
  ASSUME NEW r \in Request
  PROVE  /\ StepsLeft(r) \in Nat
         /\ r.pc \notin {"idle", "done"} => StepsLeft(r) > 0
<1>1. r.attempt \in 0..(MaxAttempts - 1) /\ r.pc \in Steps
  BY DEF Request
<1>2. 2 * (MaxAttempts - 1 - r.attempt) \in Nat
  BY <1>1, RetryAssumption
<1> QED BY <1>1, <1>2 DEF StepsLeft, Steps

\* The handler of h goes on with r, or is done.
Nearer(h, r) ==
  /\ req' = [req EXCEPT ![h] = r]
  /\ StepsLeft(r) \in 0..(StepsLeft(req[h]) - 1)

LEMMA AnswerNearer ==
  ASSUME Inv, NEW h \in Handler, req[h].pc \notin {"idle", "done"}, NEW from, NEW val,
         Answer(h, from, val)
  PROVE  \E r : Nearer(h, r)
<1> DEFINE r == Reply(h, from, val)
<1>1. req' = [req EXCEPT ![h] = r]
  BY DEF Answer, Reply
<1>2. r.pc = "done"
  BY DEF Reply, Idle
<1> HIDE DEF r
<1>3. StepsLeft(r) = 0
  BY <1>2 DEF StepsLeft
<1>4. StepsLeft(req[h]) \in Nat /\ StepsLeft(req[h]) > 0
  BY RequestTypes, StepsLeftType
<1>5. StepsLeft(r) \in 0..(StepsLeft(req[h]) - 1)
  BY <1>3, <1>4
<1>6. Nearer(h, r)
  BY <1>1, <1>5 DEF Nearer
<1> QED BY <1>6

\* It goes on from pc to qc with the same attempt.
LEMMA GoesNearer ==
  ASSUME Inv, NEW h \in Handler, NEW r, req' = [req EXCEPT ![h] = r],
         r.attempt = req[h].attempt,
         \/ req[h].pc = "find" /\ r.pc = "open" /\ r.val = req[h].val
         \/ req[h].pc \in {"find", "open"}
            /\ r.pc = (IF req[h].val = None THEN "get" ELSE "insert")
         \/ req[h].pc = "get" /\ r.pc = "url"
         \/ req[h].pc = "url" /\ r.pc = "send"
         \/ req[h].pc = "send" /\ r.pc = "sleep"
         \/ req[h].pc = "send" /\ r.pc = "find" /\ r.val # None
         \/ req[h].pc = "send" /\ r.pc \in {"create", "insert"}
         \/ req[h].pc = "create" /\ r.pc = "write"
         \/ req[h].pc = "write" /\ r.pc = "finish"
         \/ req[h].pc = "finish" /\ r.pc = "rename"
         \/ req[h].pc = "rename" /\ r.pc = "unlink"
         \/ req[h].pc = "unlink" /\ r.pc = "symlink"
  PROVE  Nearer(h, r)
<1> DEFINE s == req[h]
           retries == 2 * (MaxAttempts - 1 - s.attempt)
<1>1. s.attempt \in 0..(MaxAttempts - 1)
  BY RequestTypes
<1>2. retries \in Nat /\ 2 * (MaxAttempts - 1 - r.attempt) = retries
  BY <1>1, RetryAssumption
<1> HIDE DEF retries
<1> DEFINE L == StepsLeft(s)
           M == StepsLeft(r)
<1>3. ASSUME NEW t, t.attempt = s.attempt
      PROVE  /\ t.pc = "symlink" => StepsLeft(t) = 1
             /\ t.pc = "insert"  => StepsLeft(t) = 1
             /\ t.pc = "unlink"  => StepsLeft(t) = 2
             /\ t.pc = "rename"  => StepsLeft(t) = 3
             /\ t.pc = "finish"  => StepsLeft(t) = 4
             /\ t.pc = "write"   => StepsLeft(t) = 5
             /\ t.pc = "create"  => StepsLeft(t) = 6
             /\ t.pc = "sleep"   => StepsLeft(t) = 6 + retries
             /\ t.pc = "send"    => StepsLeft(t) = 7 + retries
             /\ t.pc = "url"     => StepsLeft(t) = 8 + retries
             /\ t.pc = "get"     => StepsLeft(t) = 9 + retries
             /\ t.pc = "open"    => StepsLeft(t) = IF t.val = None THEN 10 + retries ELSE 2
             /\ t.pc = "find"    => StepsLeft(t) = IF t.val = None THEN 11 + retries ELSE 3
  <2>1. 2 * (MaxAttempts - 1 - t.attempt) = retries
    BY <1>3 DEF retries
  <2> HIDE DEF s
  <2> QED BY <2>1 DEF StepsLeft
<1>4. s.attempt = s.attempt /\ r.attempt = s.attempt
  OBVIOUS
<1>5. M \in 0..(L - 1)
  <2>1. CASE s.pc \in {"find", "open"}
    BY <1>2, <1>3, <1>4, <2>1
  <2>2. CASE s.pc \in {"get", "url"}
    BY <1>2, <1>3, <1>4, <2>2
  <2>3. CASE s.pc = "send"
    BY <1>2, <1>3, <1>4, <2>3
  <2>4. CASE s.pc \in {"create", "write", "finish", "rename", "unlink"}
    BY <1>2, <1>3, <1>4, <2>4
  <2> QED BY <2>1, <2>2, <2>3, <2>4
<1> QED BY <1>5 DEF Nearer

LEMMA HandleNearer ==
  ASSUME Inv, NEW h \in Handler, Handle(h)
  PROVE  \E r : Nearer(h, r)
<1> DEFINE s == req[h]
           Same(pc) == [s EXCEPT !.pc = pc]
<1>1. /\ req \in [Handler -> Request] /\ s \in Request /\ Placed(s, head) /\ Paced(s)
      /\ s.attempt \in 0..(MaxAttempts - 1)
  BY RequestTypes
<1>2. ASSUME NEW from, NEW val, s.pc \notin {"idle", "done"}, Answer(h, from, val)
      PROVE  \E r : Nearer(h, r)
  BY <1>2, AnswerNearer
<1>3. ASSUME NEW pc, Goto(h, pc)
      PROVE  /\ req' = [req EXCEPT ![h] = Same(pc)]
             /\ Same(pc).pc = pc /\ Same(pc).attempt = s.attempt /\ Same(pc).val = s.val
  BY <1>1, <1>3 DEF Goto, Request
<1>4. ASSUME NEW db, s.pc \in {"find", "open"}, UseDb(h, db)
      PROVE  \E r : Nearer(h, r)
  <2> DEFINE pc == IF s.val = None THEN "get" ELSE "insert"
             r == [s EXCEPT !.db = db, !.pc = pc]
  <2>1. req' = [req EXCEPT ![h] = r]
    BY <1>1, <1>4 DEF UseDb
  <2>2. r.pc = pc /\ r.attempt = s.attempt
    BY <1>1 DEF Request
  <2> HIDE DEF r
  <2> QED BY <1>4, <2>1, <2>2, GoesNearer
<1>5. CASE FindDb(h)
  <2>1. s.pc = "find" /\ (Goto(h, "open") \/ \E db : UseDb(h, db))
    BY <1>5 DEF FindDb, At
  <2> HIDE DEF s
  <2>2. CASE Goto(h, "open")
    <3> DEFINE r == Same("open")
    <3>1. req' = [req EXCEPT ![h] = r] /\ r.pc = "open" /\ r.attempt = s.attempt /\ r.val = s.val
      BY <1>3, <2>2
    <3> HIDE DEF r
    <3> QED BY <2>1, <3>1, GoesNearer DEF s
  <2> QED BY <1>4, <2>1, <2>2
<1>6. CASE OpenDb(h)
  BY <1>4, <1>6 DEF OpenDb, At
<1>7. CASE Get(h)
  <2>1. s.pc = "get" /\ (Goto(h, "url") \/ \E from, val : Answer(h, from, val))
    BY <1>7 DEF Get, At
  <2> HIDE DEF s
  <2>2. CASE Goto(h, "url")
    <3> DEFINE r == Same("url")
    <3>1. req' = [req EXCEPT ![h] = r] /\ r.pc = "url" /\ r.attempt = s.attempt
      BY <1>3, <2>2
    <3> HIDE DEF r
    <3> QED BY <2>1, <3>1, GoesNearer DEF s
  <2> QED BY <1>2, <2>1, <2>2
<1>8. CASE ReadUrl(h)
  <2> DEFINE r == [s EXCEPT !.pc = "send", !.url = url, !.delay = InitialDelay]
  <2>1. s.pc = "url" /\ req' = [req EXCEPT ![h] = r]
    BY <1>1, <1>8 DEF ReadUrl, At
  <2>2. r.pc = "send" /\ r.attempt = s.attempt
    BY <1>1 DEF Request
  <2> HIDE DEF r
  <2> QED BY <2>1, <2>2, GoesNearer
<1>9. ASSUME NEW val, Respond(h, val)
      PROVE  \E r : Nearer(h, r)
  <2> DEFINE q == s.q
             pc == CASE Method(q) = "eth_getStorageAt" -> "find"
                     [] Method(q) \in FileMethods -> "create"
                     [] OTHER -> "insert"
             r == [s EXCEPT !.val = val, !.pc = pc]
  <2>1. s.pc = "send"
    BY <1>9 DEF Respond, At
  <2>2. CASE Answer(h, "upstream", val)
    BY <1>2, <2>1, <2>2
  <2>3. CASE ~Answer(h, "upstream", val)
    <3>1. Stored(q, val) # None /\ req' = [req EXCEPT ![h] = r]
      BY <1>1, <1>9, <2>3 DEF Respond
    <3>2. r.pc = pc /\ r.val = val /\ r.attempt = s.attempt
      BY <1>1 DEF Request
    <3>3. val # None
      BY <3>1 DEF Stored, None, Null
    <3>4. pc \in {"find", "create", "insert"}
      BY DEF FileMethods
    <3> HIDE DEF r, pc
    <3> QED BY <2>1, <3>1, <3>2, <3>3, <3>4, GoesNearer
  <2> QED BY <2>2, <2>3
<1>10. ASSUME NEW retryable, Refuse(h, retryable)
       PROVE  \E r : Nearer(h, r)
  <2> DEFINE r == [s EXCEPT !.pc = "sleep", !.delay = NextDelay(s.delay, s.attempt)]
  <2>1. s.pc = "send"
    BY <1>10 DEF Refuse, At
  <2>2. CASE Answer(h, "proxy", Error)
    BY <1>2, <2>1, <2>2
  <2>3. CASE ~Answer(h, "proxy", Error)
    <3>1. req' = [req EXCEPT ![h] = r]
      BY <1>1, <1>10, <2>3 DEF Refuse
    <3>2. r.pc = "sleep" /\ r.attempt = s.attempt
      BY <1>1 DEF Request
    <3> HIDE DEF r
    <3> QED BY <2>1, <3>1, <3>2, GoesNearer
  <2> QED BY <2>2, <2>3
<1>11. CASE Wake(h)
  <2> DEFINE r == [s EXCEPT !.pc = "send", !.attempt = @ + 1]
  <2>1. s.pc = "sleep" /\ req' = [req EXCEPT ![h] = r]
    BY <1>1, <1>11 DEF Wake, At
  <2>2. r.pc = "send" /\ r.attempt = s.attempt + 1
    BY <1>1 DEF Request
  <2>3. s.attempt + 1 < MaxAttempts
    BY <1>1, <2>1 DEF Paced
  <2> HIDE DEF r
  <2>4. StepsLeft(s) = 6 + 2 * (MaxAttempts - 1 - s.attempt)
    BY <2>1 DEF StepsLeft
  <2>5. StepsLeft(r) = 7 + 2 * (MaxAttempts - 1 - (s.attempt + 1))
    BY <2>2 DEF StepsLeft
  <2>6. StepsLeft(r) \in 0..(StepsLeft(s) - 1)
    BY <1>1, <2>3, <2>4, <2>5, RetryAssumption
  <2> QED BY <2>1, <2>6 DEF Nearer
<1>12. CASE Insert(h) \/ Symlink(h)
  BY <1>2, <1>12 DEF Insert, Symlink, At
<1>13. CASE CreateTmp(h)
  <2>1. PICK i : req' = [req EXCEPT ![h] = [s EXCEPT !.pc = "write", !.fd = i]]
    BY <1>1, <1>13 DEF CreateTmp
  <2> DEFINE r == [s EXCEPT !.pc = "write", !.fd = i]
  <2>2. s.pc = "create" /\ r.pc = "write" /\ r.attempt = s.attempt
    BY <1>1, <1>13 DEF CreateTmp, At, Request
  <2>3. req' = [req EXCEPT ![h] = r]
    BY <2>1
  <2> HIDE DEF r
  <2> QED BY <2>2, <2>3, GoesNearer
<1>14. ASSUME NEW pc, Goto(h, pc), \/ s.pc = "write" /\ pc = "finish"
                                   \/ s.pc = "finish" /\ pc = "rename"
                                   \/ s.pc = "unlink" /\ pc = "symlink"
       PROVE  \E r : Nearer(h, r)
  <2> DEFINE r == Same(pc)
  <2>1. req' = [req EXCEPT ![h] = r] /\ r.pc = pc /\ r.attempt = s.attempt
    BY <1>3, <1>14
  <2> HIDE DEF r
  <2> QED BY <1>14, <2>1, GoesNearer
<1>15. CASE WriteTmp(h) \/ FinishTmp(h) \/ Unlink(h)
  BY <1>14, <1>15 DEF WriteTmp, FinishTmp, Unlink, At
<1>16. CASE RenameTmp(h)
  <2> DEFINE r == [s EXCEPT !.pc = "unlink", !.fd = 0]
  <2>1. s.pc = "rename"
    BY <1>16 DEF RenameTmp, At
  <2>2. CASE Answer(h, "upstream", s.val)
    BY <1>2, <2>1, <2>2
  <2>3. CASE ~Answer(h, "upstream", s.val)
    <3>1. req' = [req EXCEPT ![h] = r]
      BY <1>1, <1>16, <2>3 DEF RenameTmp
    <3>2. r.pc = "unlink" /\ r.attempt = s.attempt
      BY <1>1 DEF Request
    <3> HIDE DEF r
    <3> QED BY <2>1, <3>1, <3>2, GoesNearer
  <2> QED BY <2>2, <2>3
<1> QED BY <1>5, <1>6, <1>7, <1>8, <1>9, <1>10, <1>11, <1>12, <1>13, <1>15, <1>16 DEF Handle

LEMMA CloserStepHolds == Inv /\ [Next]_vars => [CloserStep]_vars
<1> SUFFICES ASSUME Inv, Next, NEW g \in Handler, req[g].pc \notin {"idle", "done"},
                    req'[g] # req[g]
             PROVE  StepsLeft(req'[g]) \in 0..(StepsLeft(req[g]) - 1)
  BY DEF CloserStep
<1>1. StepsLeft(req[g]) \in Nat /\ StepsLeft(req[g]) > 0 /\ req \in [Handler -> Request]
  BY RequestTypes, StepsLeftType
<1>2. ASSUME NEW h \in Handler, Handle(h)
      PROVE  StepsLeft(req'[g]) \in 0..(StepsLeft(req[g]) - 1)
  <2>1. PICK r : Nearer(h, r)
    BY <1>2, HandleNearer
  <2>2. h = g /\ req'[g] = r
    BY <1>1, <2>1 DEF Nearer
  <2> QED BY <2>1, <2>2 DEF Nearer
\* Other handlers, and what does not touch the handlers.
<1>3. ASSUME NEW h \in Handler, Leave(h) \/ \E q \in Queries : Arrive(h, q)
      PROVE  FALSE
  <2>1. h # g
    BY <1>3 DEF Leave, Arrive, At
  <2>2. \E r : req' = [req EXCEPT ![h] = r]
    BY <1>3 DEF Leave, Arrive
  <2> QED BY <1>1, <2>1, <2>2
<1>4. ~(\E u \in Urls : UpdateUrl(u) \/ NewBlock(u))
  BY DEF UpdateUrl, NewBlock
\* Whoever restarts is done with all requests.
<1>5. ASSUME NEW d, Started(d)
      PROVE  StepsLeft(req'[g]) \in 0..(StepsLeft(req[g]) - 1)
  <2>1. req'[g] = Idle
    BY <1>5 DEF Started
  <2>2. StepsLeft(Idle) = 0
    BY IdleFacts DEF StepsLeft
  <2> QED BY <1>1, <2>1, <2>2
<1>6. Restart \/ (\E lost : Kill(lost)) => \E d : Started(d)
  BY DEF Restart, Kill
<1> QED BY <1>2, <1>3, <1>4, <1>5, <1>6 DEF Next

\* Why every request is answered: retry and the writes of the cache take a handler
\* closer to its answer with every step, and nothing takes it back.
THEOREM AlwaysCloserToAnswer == Spec => CloserToAnswer
<1>1. Inv /\ [Next]_vars => [CloserStep]_vars
  BY CloserStepHolds
<1> QED BY <1>1, ProxyInvariance, PTL DEF Spec, CloserToAnswer
=============================================================================
