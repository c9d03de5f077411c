------------------------------- MODULE RpcProxy -------------------------------
(***************************************************************************)
(* The caching JSON-RPC proxy (src/rpc-proxy): the request handlers of     *)
(* main.rs, which run in parallel on the threads of the runtime, the retry *)
(* loop of retry.rs, and the cache of cache.rs: key-value stores for state *)
(* and compressed files, written under a temporary name, for code, blocks, *)
(* transactions and receipts.                                              *)
(*                                                                         *)
(* The upstream nodes are external: each has the blocks 1..head[u] of one  *)
(* chain without reorganisations, and the hash of a block is its number.   *)
(* A value names what it is the value of, so that an answer from the wrong *)
(* place shows.                                                            *)
(***************************************************************************)
EXTENDS Integers, Sequences, FiniteSets

CONSTANTS
  Handler,       \* connections, each with one request at a time
  Queries,       \* <<method, first parameter, second parameter, block tag>>
  Urls,          \* upstream nodes
  DefaultUrl,    \* environment variable URL
  MaxBlock,      \* (bound) the newest block there will be
  DeployedAt,    \* the block in which the accounts get their code
  NullState,     \* whether a node answers null for the state of a block it lacks
  MaxAttempts,   \* RetryConfig::max_attempts
  InitialDelay,  \* RetryConfig::initial_delay_ms
  MaxDelay,      \* RetryConfig::max_delay_ms
  Offline,       \* --offline
  Empty,         \* --empty
  MaxKills       \* (bound) how often the process is killed

ASSUME RetryAssumption ==
  /\ MaxAttempts \in Nat \ {0}
  /\ InitialDelay \in Nat \ {0}
  /\ MaxDelay \in Nat \ {0}

ASSUME FiniteAssumption == IsFiniteSet(Handler) /\ IsFiniteSet(Queries)

ASSUME ModeAssumption == Offline \in BOOLEAN /\ Empty \in BOOLEAN /\ ~(Offline /\ Empty)

ASSUME ChainAssumption == DefaultUrl \in Urls /\ MaxBlock \in Nat /\ NullState \in BOOLEAN

VARIABLES
  head,   \* the newest block of each node
  url,    \* AppState::upstream_url
  req,    \* the handlers
  dbs,    \* the open store of each database, 0 if it is not open
  kvs,    \* contents of the stores that were opened
  disk,   \* contents of the databases as last flushed
  file,   \* inode of each cached file, 0 if there is none
  tmp,    \* inode of its temporary file
  blob,   \* contents of the inodes, in two parts
  link,   \* the symbolic link <number> to the file of a block
  kills   \* how often the process was killed

files == <<file, tmp, blob, link>>
vars  == <<head, url, req, dbs, kvs, disk, files, kills>>

-----------------------------------------------------------------------------
(* Requests and results *)

Method(q) == q[1]
Item(q)   == q[2]   \* address, hash or block number
Sub(q)    == q[3]   \* storage slot, or whether a block has full transactions
Tag(q)    == q[4]   \* block number of a state query

\* The tag "latest".
Latest == -1

KvMethods    == {"eth_getStorageAt", "eth_getBalance", "eth_getTransactionCount"}
BlockMethods == {"eth_getBlockByHash", "eth_getBlockByNumber"}
FileMethods  == BlockMethods \cup
                  {"eth_getCode", "eth_getTransactionByHash", "eth_getTransactionReceipt"}

\* The block tag is looked for in the first parameter.
IsLatest(q) == Method(q) = "eth_getBlockByNumber" /\ Item(q) = Latest

\* Blocks and transactions are named by their number, the first block is 1.
ASSUME QueryAssumption ==
  \A q \in Queries :
    /\ Method(q) \in KvMethods \cup {"eth_getCode"} => Tag(q) \in Nat \cup {Latest}
    /\ Method(q) \in BlockMethods => Item(q) \in Nat \ {0} \/ IsLatest(q)

None  == <<"none">>
Null  == <<"null">>
Error == <<"error">>
Zero  == <<"zero">>

\* What a node with k blocks answers, by method: the state of a block it does not
\* have is null or an error, a transaction is seen before its block and its receipt
\* is not.
StateAt(q, k) ==
  LET n == IF Tag(q) = Latest THEN k ELSE Tag(q)
  IN  CASE n > k -> IF NullState THEN Null ELSE Error
        [] n <= k /\ Method(q) = "eth_getCode" -> <<"code", Item(q), n >= DeployedAt>>
        [] n <= k /\ Method(q) # "eth_getCode" -> <<Method(q), Item(q), Sub(q), n>>

BlockAt(q, k) ==
  LET n == IF Item(q) = Latest THEN k ELSE Item(q)
  IN  IF n <= k THEN <<"block", n, Sub(q)>> ELSE Null

TransactionAt(q, k) == IF Item(q) <= k + 1 THEN <<"tx", Item(q), Item(q) <= k>> ELSE Null
ReceiptAt(q, k)     == IF Item(q) <= k THEN <<"receipt", Item(q)>> ELSE Null

Result(q, k) ==
  CASE Method(q) \in KvMethods \cup {"eth_getCode"} -> StateAt(q, k)
    [] Method(q) \in BlockMethods -> BlockAt(q, k)
    [] Method(q) = "eth_getTransactionByHash" -> TransactionAt(q, k)
    [] Method(q) = "eth_getTransactionReceipt" -> ReceiptAt(q, k)
    [] OTHER -> <<"other", k>>

\* Everything else (batches, other methods, missing parameters, GET /ready) is
\* forwarded.
Cacheable(q) == ~Empty /\ ~IsLatest(q) /\ Method(q) \in KvMethods \cup FileMethods

-----------------------------------------------------------------------------
(* Keys and paths of the cache *)

\* A tag that is not a number becomes zero.
Pad8(t) == IF t = Latest THEN 0 ELSE t

\* (mutant) The block is left out of the key.
KeyWithoutBlock(q) == <<Item(q), Sub(q), 0>>

\* storage_key, address_block_key.
Key(q) == <<Item(q), Sub(q), Pad8(Tag(q))>>

DbOf(q) ==
  IF Method(q) = "eth_getStorageAt" THEN <<"storage", Item(q)>> ELSE <<Method(q)>>

Dbs == {<<"eth_getBalance">>, <<"eth_getTransactionCount">>}
         \cup {DbOf(q) : q \in {p \in Queries : Method(p) \in KvMethods}}

Blocks == 1..MaxBlock

\* The file that the result val of q is kept in.
PathFor(q, val) ==
  IF Method(q) \in BlockMethods THEN <<"block", val[2]>>
  ELSE <<Method(q), Item(q)>>

Paths == {<<"block", n>> : n \in Blocks}
           \cup {<<Method(q), Item(q)>> : q \in {p \in Queries : Method(p) \in FileMethods \ BlockMethods}}

Inode == 1..(2 * Cardinality(Paths) + Cardinality(Handler))

-----------------------------------------------------------------------------
(* Handlers *)

\* A connection without a request.
Idle == [ pc |-> "idle", q |-> <<"none", 0, 0, 0>>, url |-> DefaultUrl, attempt |-> 0,
          delay |-> 0, db |-> 0, fd |-> 0, val |-> None, from |-> "none" ]

At(h, pc) == req[h].pc = pc

Goto(h, pc) == req' = [req EXCEPT ![h].pc = pc]

\* The answer val, out of the cache, from upstream, or an error of the proxy.
Answer(h, from, val) ==
  req' = [req EXCEPT ![h] = [Idle EXCEPT !.pc = "done", !.q = req[h].q,
                                         !.from = from, !.val = val]]

\* handle_jsonrpc, up to the first access to shared state.
Arrive(h, q) ==
  /\ At(h, "idle")
  /\ req' = [req EXCEPT ![h] =
       IF Method(q) = "invalid"
       THEN [Idle EXCEPT !.q = q, !.pc = "done", !.from = "proxy", !.val = Error]
       ELSE [Idle EXCEPT !.q = q,
                         !.pc = IF ~Cacheable(q) THEN "url"
                                ELSE IF Method(q) = "eth_getStorageAt" THEN "find" ELSE "get"]]
  /\ UNCHANGED <<head, url, dbs, kvs, disk, files, kills>>

\* The client takes the answer.
Leave(h) ==
  /\ At(h, "done")
  /\ req' = [req EXCEPT ![h] = Idle]
  /\ UNCHANGED <<head, url, dbs, kvs, disk, files, kills>>

\* handle_update_url.
UpdateUrl(u) ==
  /\ url' = u
  /\ UNCHANGED <<head, req, dbs, kvs, disk, files, kills>>

-----------------------------------------------------------------------------
(* Cache::storage_db, called before a lookup and again before an insert *)

UseDb(h, db) ==
  req' = [req EXCEPT ![h].db = db,
                     ![h].pc = IF req[h].val = None THEN "get" ELSE "insert"]

\* Under the read lock.
FindDb(h) ==
  /\ At(h, "find")
  /\ LET db == dbs[DbOf(req[h].q)]
     IN  IF db # 0 THEN UseDb(h, db) ELSE Goto(h, "open")
  /\ UNCHANGED <<head, url, dbs, kvs, disk, files, kills>>

\* (mutant) Without looking again under the write lock.
OpenDbUnchecked(h) ==
  LET name == DbOf(req[h].q)
  IN  /\ At(h, "open")
      /\ kvs' = Append(kvs, disk[name])
      /\ dbs' = [dbs EXCEPT ![name] = Len(kvs')]
      /\ UseDb(h, Len(kvs'))
      /\ UNCHANGED <<head, url, disk, files, kills>>

\* Under the write lock.
OpenDb(h) ==
  LET name == DbOf(req[h].q)
  IN  /\ At(h, "open")
      /\ \/ /\ dbs[name] # 0
            /\ UseDb(h, dbs[name])
            /\ UNCHANGED <<dbs, kvs>>
         \/ /\ dbs[name] = 0
            /\ kvs' = Append(kvs, disk[name])
            /\ dbs' = [dbs EXCEPT ![name] = Len(kvs')]
            /\ UseDb(h, Len(kvs'))
      /\ UNCHANGED <<head, url, disk, files, kills>>

-----------------------------------------------------------------------------
(* Lookups *)

\* (mutant) A file that cannot be decoded is answered as an error.
ReadGzError(i) == IF i = 0 THEN None ELSE IF blob[i][1] = blob[i][2] THEN blob[i][1] ELSE Error

\* read_gz_string: a file that is missing, incomplete or mixed from two writers
\* (the checksum fails) is no hit.
ReadGz(i) == IF i # 0 /\ blob[i][1] = blob[i][2] THEN blob[i][1] ELSE None

ReadPath(p) == IF p \in Paths THEN ReadGz(file[p]) ELSE None

ReadKv(kv, key) == IF key \in DOMAIN kv THEN kv[key] ELSE None

Lookup(h) ==
  LET q == req[h].q
  IN  CASE Method(q) = "eth_getStorageAt" -> ReadKv(kvs[req[h].db], Key(q))
        [] Method(q) \in KvMethods \ {"eth_getStorageAt"} -> ReadKv(kvs[dbs[DbOf(q)]], Key(q))
        [] Method(q) = "eth_getBlockByNumber" ->
             IF Item(q) \in Blocks /\ link[Item(q)] # 0
             THEN ReadPath(<<"block", link[Item(q)]>>) ELSE None
        [] Method(q) = "eth_getBlockByHash" -> ReadPath(<<"block", Item(q)>>)
        [] OTHER -> ReadPath(<<Method(q), Item(q)>>)

\* A miss is forwarded, unless the proxy is offline (cache_miss_and_forward).
Get(h) ==
  /\ At(h, "get")
  /\ IF Lookup(h) # None THEN Answer(h, "cache", Lookup(h))
     ELSE IF Offline THEN Answer(h, "proxy", Error) ELSE Goto(h, "url")
  /\ UNCHANGED <<head, url, dbs, kvs, disk, files, kills>>

-----------------------------------------------------------------------------
(* forward and retry *)

\* The URL is read once, before the first attempt.
ReadUrl(h) ==
  /\ At(h, "url")
  /\ req' = [req EXCEPT ![h].pc = "send", ![h].url = url, ![h].delay = InitialDelay]
  /\ UNCHANGED <<head, url, dbs, kvs, disk, files, kills>>

\* What on_result keeps of a result: a missing storage value is a zero, a null
\* is not kept otherwise.
Stored(q, val) ==
  IF Method(q) = "eth_getStorageAt" THEN (IF val = Null THEN Zero ELSE val)
  ELSE IF val = Null THEN None ELSE val

\* The upstream node responds, with a result or an error of its own.
Respond(h, val) ==
  LET q == req[h].q
  IN  /\ At(h, "send")
      /\ val \in {Result(q, head[req[h].url]), Error}
      /\ IF Cacheable(q) /\ val # Error /\ Stored(q, val) # None
         THEN req' = [req EXCEPT ![h].val = val,
                                 ![h].pc = CASE Method(q) = "eth_getStorageAt" -> "find"
                                             [] Method(q) \in FileMethods -> "create"
                                             [] OTHER -> "insert"]
         ELSE Answer(h, "upstream", val)
      /\ UNCHANGED <<head, url, dbs, kvs, disk, files, kills>>

Pow2[n \in Nat] == IF n = 0 THEN 1 ELSE 2 * Pow2[n - 1]

\* (mutant) The initial delay is the base of the powers.
NextDelayPower(delay, attempt) ==
  IF delay >= MaxDelay THEN MaxDelay ELSE InitialDelay^(attempt + 1)

\* The delay grows until it reaches the limit.
NextDelay(delay, attempt) ==
  IF delay >= MaxDelay THEN MaxDelay ELSE InitialDelay * Pow2[attempt]

\* (mutant) Attempts are not counted.
RefuseForever(h, retryable) ==
  /\ At(h, "send")
  /\ IF ~retryable THEN Answer(h, "proxy", Error)
     ELSE req' = [req EXCEPT ![h].pc = "sleep", ![h].attempt = -1]
  /\ UNCHANGED <<head, url, dbs, kvs, disk, files, kills>>

\* (mutant) One attempt too many.
RefuseOneMore(h, retryable) ==
  LET r == req[h]
  IN  /\ At(h, "send")
      /\ IF ~retryable \/ r.attempt >= MaxAttempts
         THEN Answer(h, "proxy", Error)
         ELSE req' = [req EXCEPT ![h].pc = "sleep",
                                 ![h].delay = NextDelay(r.delay, r.attempt)]
      /\ UNCHANGED <<head, url, dbs, kvs, disk, files, kills>>

\* The attempt fails: no connection, a timeout, a status that is no success.
Refuse(h, retryable) ==
  LET r == req[h]
  IN  /\ At(h, "send")
      /\ IF ~retryable \/ r.attempt + 1 >= MaxAttempts
         THEN Answer(h, "proxy", Error)
         ELSE req' = [req EXCEPT ![h].pc = "sleep",
                                 ![h].delay = NextDelay(r.delay, r.attempt)]
      /\ UNCHANGED <<head, url, dbs, kvs, disk, files, kills>>

Wake(h) ==
  /\ At(h, "sleep")
  /\ req' = [req EXCEPT ![h].pc = "send", ![h].attempt = @ + 1]
  /\ UNCHANGED <<head, url, dbs, kvs, disk, files, kills>>

-----------------------------------------------------------------------------
(* Inserts: put_storage_at, put_balance, put_tx_count *)

Insert(h) ==
  LET q  == req[h].q
      db == IF req[h].db # 0 THEN req[h].db ELSE dbs[DbOf(q)]
      kv == kvs[db]
  IN  /\ At(h, "insert")
      /\ kvs' = [kvs EXCEPT ![db] = [k \in DOMAIN kv \cup {Key(q)} |->
                   IF k = Key(q) THEN Stored(q, req[h].val) ELSE kv[k]]]
      /\ Answer(h, "upstream", req[h].val)
      /\ UNCHANGED <<head, url, dbs, disk, files, kills>>

-----------------------------------------------------------------------------
(* write_gz_string and put_block *)

Path(h) == PathFor(req[h].q, req[h].val)

InUse(i) ==
  \/ \E p \in Paths : file[p] = i \/ tmp[p] = i
  \/ \E h \in Handler : req[h].fd = i

\* An unused inode.
Fresh == CHOOSE i \in Inode : ~InUse(i)

\* An inode without a name is gone once it is closed.
Reclaim == blob' = [i \in Inode |-> IF InUse(i)' THEN blob[i] ELSE <<None, None>>]

\* File::create truncates the temporary file of a writer that is not done.
CreateTmp(h) ==
  LET p == Path(h)
      i == IF tmp[p] # 0 THEN tmp[p] ELSE Fresh
  IN  /\ At(h, "create")
      /\ tmp'  = [tmp EXCEPT ![p] = i]
      /\ blob' = [blob EXCEPT ![i] = <<None, None>>]
      /\ req'  = [req EXCEPT ![h].pc = "write", ![h].fd = i]
      /\ UNCHANGED <<head, url, dbs, kvs, disk, file, link, kills>>

\* write_all, and the rest with the checksum by finish.
WriteTmp(h) ==
  /\ At(h, "write")
  /\ blob' = [blob EXCEPT ![req[h].fd][1] = req[h].val]
  /\ Goto(h, "finish")
  /\ UNCHANGED <<head, url, dbs, kvs, disk, file, tmp, link, kills>>

FinishTmp(h) ==
  /\ At(h, "finish")
  /\ blob' = [blob EXCEPT ![req[h].fd][2] = req[h].val]
  /\ Goto(h, "rename")
  /\ UNCHANGED <<head, url, dbs, kvs, disk, file, tmp, link, kills>>

\* The file is closed.  The rename fails if another writer has renamed the file,
\* and nothing more is done then.
RenameTmp(h) ==
  LET p == Path(h)
  IN  /\ At(h, "rename")
      /\ \/ /\ tmp[p] = 0
            /\ Answer(h, "upstream", req[h].val)
            /\ UNCHANGED <<file, tmp>>
         \/ /\ tmp[p] # 0
            /\ file' = [file EXCEPT ![p] = tmp[p]]
            /\ tmp'  = [tmp EXCEPT ![p] = 0]
            /\ IF Method(req[h].q) \in BlockMethods
               THEN req' = [req EXCEPT ![h].pc = "unlink", ![h].fd = 0]
               ELSE Answer(h, "upstream", req[h].val)
      /\ Reclaim
      /\ UNCHANGED <<head, url, dbs, kvs, disk, link, kills>>

Unlink(h) ==
  /\ At(h, "unlink")
  /\ link' = [link EXCEPT ![req[h].val[2]] = 0]
  /\ Goto(h, "symlink")
  /\ UNCHANGED <<head, url, dbs, kvs, disk, file, tmp, blob, kills>>

\* A link that is there stays.
Symlink(h) ==
  LET n == req[h].val[2]
  IN  /\ At(h, "symlink")
      /\ link' = [link EXCEPT ![n] = IF @ = 0 THEN n ELSE @]
      /\ Answer(h, "upstream", req[h].val)
      /\ UNCHANGED <<head, url, dbs, kvs, disk, file, tmp, blob, kills>>

-----------------------------------------------------------------------------
(* The process and the chain *)

\* Cache::open on the databases d: the balances and nonces are opened, the
\* storage of an account when it is first asked for.
Started(d) ==
  /\ kvs' = << d[<<"eth_getBalance">>], d[<<"eth_getTransactionCount">>] >>
  /\ dbs' = [name \in Dbs |-> CASE name = <<"eth_getBalance">> -> 1
                                [] name = <<"eth_getTransactionCount">> -> 2
                                [] OTHER -> 0]
  /\ req' = [h \in Handler |-> Idle]
  /\ url' = DefaultUrl

\* What a lookup in a database finds.
View(name) == IF dbs[name] # 0 THEN kvs[dbs[name]] ELSE disk[name]

\* A signal: the server waits for its requests, the cache is dropped and the
\* databases flushed, and the proxy started again.
Restart ==
  LET flushed == [name \in Dbs |-> View(name)]
  IN  /\ \A h \in Handler : req[h].pc \in {"idle", "done"}
      /\ Started(flushed)
      /\ disk' = flushed
      /\ UNCHANGED <<head, files, kills>>

\* Entries inserted since the last flush.
Unflushed ==
  UNION { {<<name, k>> : k \in DOMAIN View(name) \ DOMAIN disk[name]} : name \in Dbs }

\* The process is killed and started again, the unflushed entries in lost are
\* gone; the files stay as they are.
Kill(lost) ==
  LET d == [name \in Dbs |->
              [k \in {x \in DOMAIN View(name) : <<name, x>> \notin lost} |-> View(name)[k]]]
  IN  /\ kills < MaxKills
      /\ kills' = kills + 1
      /\ Started(d)
      /\ disk' = d
      /\ UNCHANGED <<head, file, tmp, link>>
      /\ Reclaim

NewBlock(u) ==
  /\ head[u] < MaxBlock
  /\ head' = [head EXCEPT ![u] = @ + 1]
  /\ UNCHANGED <<url, req, dbs, kvs, disk, files, kills>>

-----------------------------------------------------------------------------

Init ==
  /\ head = [u \in Urls |-> 0]
  /\ url = DefaultUrl
  /\ req = [h \in Handler |-> Idle]
  /\ disk = [name \in Dbs |-> <<>>]
  /\ kvs = << <<>>, <<>> >>
  /\ dbs = [name \in Dbs |-> CASE name = <<"eth_getBalance">> -> 1
                               [] name = <<"eth_getTransactionCount">> -> 2
                               [] OTHER -> 0]
  /\ file = [p \in Paths |-> 0]
  /\ tmp = [p \in Paths |-> 0]
  /\ blob = [i \in Inode |-> <<None, None>>]
  /\ link = [n \in Blocks |-> 0]
  /\ kills = 0

\* What the handler of h does, and the nodes it waits for.
Handle(h) ==
  \/ FindDb(h)
  \/ OpenDb(h)
  \/ Get(h)
  \/ ReadUrl(h)
  \/ Respond(h, Result(req[h].q, head[req[h].url]))
  \/ Respond(h, Error)
  \/ \E retryable \in BOOLEAN : Refuse(h, retryable)
  \/ Wake(h)
  \/ Insert(h)
  \/ CreateTmp(h)
  \/ WriteTmp(h)
  \/ FinishTmp(h)
  \/ RenameTmp(h)
  \/ Unlink(h)
  \/ Symlink(h)

Next ==
  \/ \E h \in Handler : Handle(h) \/ Leave(h) \/ \E q \in Queries : Arrive(h, q)
  \/ \E u \in Urls : UpdateUrl(u) \/ NewBlock(u)
  \/ Restart
  \/ \E lost \in SUBSET Unflushed : Kill(lost)

Spec == Init /\ [][Next]_vars

FairSpec == Spec /\ \A h \in Handler : WF_vars(Handle(h))

-----------------------------------------------------------------------------
(* Properties *)

\* Indices stay in range: a handler never holds a store that was not opened, never
\* runs out of inodes and never makes more than max_attempts attempts.
TypeOK ==
  /\ head \in [Urls -> 0..MaxBlock]
  /\ url \in Urls
  /\ \A h \in Handler :
       /\ req[h].url \in Urls
       /\ req[h].attempt \in 0..(MaxAttempts - 1)
       /\ req[h].db \in 0..Len(kvs)
       /\ req[h].fd \in Inode \cup {0}
  /\ dbs \in [Dbs -> 0..Len(kvs)]
  /\ file \in [Paths -> Inode \cup {0}]
  /\ tmp \in [Paths -> Inode \cup {0}]
  /\ link \in [Blocks -> Blocks \cup {0}]

\* Queries that the cache does not tell apart: the block of eth_getCode and
\* whether a block is asked for with full transactions are not in its keys, and a
\* block is cached for both ways to ask for it.
Alike(p, q) ==
  \/ Method(p) = Method(q) /\ Item(p) = Item(q) /\ Method(p) \in FileMethods
  \/ {Method(p), Method(q)} \subseteq BlockMethods /\ Item(p) = Item(q)
  \/ p = q

\* A hit answers what an upstream node answers to such a query, as of now or of an
\* earlier block, and never a null, an error or a file half written: whatever the
\* order of the handlers' reads and writes, the switches of nodes and the kills.
HitsTrue ==
  \A h \in Handler : At(h, "done") /\ req[h].from = "cache" =>
    \E p \in Queries, k \in 0..MaxBlock :
      /\ \E u \in Urls : k <= head[u]
      /\ Alike(p, req[h].q)
      /\ req[h].val = Result(p, k)
      /\ req[h].val \notin {Null, Error}

\* No entry of a database is lost, be it by handlers that open the database at
\* the same time or by a restart, unless the process is killed.
EntriesStay ==
  kills' = kills => \A name \in Dbs : DOMAIN View(name) \subseteq DOMAIN View(name)'

EntriesKept == [][EntriesStay]_vars

\* Every request is answered, unless the process is killed: the retries end.
Answered == \A h \in Handler : ~At(h, "idle") ~> req[h].pc \in {"idle", "done"}

\* The steps that a handler has left at most: the writes of a result it has
\* fetched, before them the attempts, before them the lookup.
StepsLeft(r) ==
  LET retries == 2 * (MaxAttempts - 1 - r.attempt)
  IN  CASE r.pc \in {"idle", "done"}      -> 0
        [] r.pc \in {"insert", "symlink"} -> 1
        [] r.pc = "unlink"                -> 2
        [] r.pc = "rename"                -> 3
        [] r.pc = "finish"                -> 4
        [] r.pc = "write"                 -> 5
        [] r.pc = "create"                -> 6
        [] r.pc = "sleep"                 -> 6 + retries
        [] r.pc = "send"                  -> 7 + retries
        [] r.pc = "url"                   -> 8 + retries
        [] r.pc = "get"                   -> 9 + retries
        [] r.pc = "open"                  -> IF r.val = None THEN 10 + retries ELSE 2
        [] r.pc = "find"                  -> IF r.val = None THEN 11 + retries ELSE 3

\* Why requests are answered: whatever a handler does, and the other handlers,
\* restarts and kills do to it, brings it closer to its answer, so that it takes at
\* most two steps for each attempt and nine more.
CloserStep ==
  \A h \in Handler :
    req[h].pc \notin {"idle", "done"} /\ req'[h] # req[h] =>
      StepsLeft(req'[h]) \in 0..(StepsLeft(req[h]) - 1)

CloserToAnswer == [][CloserStep]_vars

\* A query is answered out of the cache as it is by upstream.
CachedMatches ==
  \A g, h \in Handler :
    /\ At(g, "done") /\ req[g].from = "upstream" /\ req[g].val # Error
    /\ At(h, "done") /\ req[h].from = "cache"
    /\ req[g].q = req[h].q
    => req[g].val = req[h].val

\* The delay is compared with its limit before it grows: the sleeps of a handler
\* exceed max_delay_ms, but stay below twice that, however many attempts fail.
DelayBounded == \A h \in Handler : At(h, "sleep") => req[h].delay < 2 * MaxDelay

\* The proxy never sleeps for longer than max_delay_ms.
DelayCapped == \A h \in Handler : At(h, "sleep") => req[h].delay <= MaxDelay

\* In offline mode no request is sent upstream.
OfflineStaysLocal == Offline => \A h \in Handler : ~At(h, "send")
=============================================================================
