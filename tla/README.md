# Solenoid: models, checks and proofs

This directory is a TLA+ development of Solenoid, an Ethereum virtual machine in
Rust that executes transactions on top of state fetched from a remote node, and
of the caching JSON-RPC proxy it is used with. It contains modules that model
the code, TLC configurations that check them on small instances, and theorems
that TLAPS checks for every value of the constants. File names are relative to
the repository (`src/` below is the repository root; the main crate is
`src/src/`).

`PROJECT.json` lists the components, the runs, the mutants, the hazards and,
under `map`, the lines of code behind every definition.

## 1. Inventory

### Call frames and journal: `src/src/executor.rs`

State: one `Evm` per call frame (stack, memory, pc, gas, `touches`), nested by
recursion (`execute_with_context` → `execute_instruction` → `call` / `create` →
`execute_with_context`), all over one shared `Ext`. There are no snapshots. A
frame records what it changes in `touches` (`AccountTouch`), and `Evm::revert`
undoes them, last one first. A callee that succeeds has its touches appended to
its caller's; one that reverts is undone, and the touches for which
`survives_revert` holds are handed up all the same.

Hard: that a journal cut into pieces, appended, partly kept and replayed
backwards leads to the world the frame started from; that warm slots and
addresses, which determine prices, survive reverts exactly as far as the code
means them to; that static frames stay static through further calls.

Correct if: a reverted frame leaves no trace in storage, transient storage and
warm addresses; balances, nonces and codes are restorable; nothing below a
STATICCALL writes; every transaction uses up a nonce.

### World state: `src/src/ext.rs`

State: accounts and storage seen so far, the values slots had when first read
(`original`), transient storage, warm sets, created and destroyed accounts.
Operations: `get`, `put`, `pull` (fetch from the remote at the parent block),
`warm_address`, `warm_storage`, `reset` between transactions. Every lookup may
fail, since it may be a request. `Ext::local()` has no remote.

Correct if: `original` is the value before the transaction, which SSTORE prices
against, also in the second transaction over one `Ext`.

### Gas: `executor.rs` (`struct Gas`, the loop), `src/src/solenoid.rs`

State: `limit`, `used`, `refund` of every frame. CALL forwards at most all but
one 64th, adds a stipend, and settles what the callee used; CREATE forwards and
settles likewise and pays a deposit; refund counters are signed and dropped on
revert; `execute` and `apply` compute what is charged and what is reported.

Correct if: no frame uses more than it was given, a caller can always pay for
its callee, refunds never exceed what was earned, nobody is charged more than
offered, and every transaction ends.

### Fees: `executor.rs` (`execute`), `solenoid.rs` (`apply`), `src/evm-common/src/block.rs`

A call prepays its gas, runs, is undone if it reverted, gets the rest back and
pays the miner. A creation runs, pays the miner, is undone, and pays.

Hard: in between, calls, creations and endowments move balances, and are undone
from journals that are not always in the order of what happened: the touches of an
endowment and of the creation come before those of the init code, which ran earlier
(`executor.rs:2902`), and undoing a creation sets a balance to zero (`executor.rs:253`).

Correct if: a reverted call pays its fees and nothing else, also when sender,
recipient and miner are the same account; only the base fee is burnt.

### RPC proxy: `src/rpc-proxy/src/{main,cache,retry}.rs`

State: the upstream url behind a lock, a map of open key-value stores behind a
lock, their files, gzip files of blocks, code, transactions and receipts, and
symbolic links from block numbers to block hashes. Handlers run in parallel on
a multi-threaded runtime; `POST /url` switches the node; a request is retried
with exponential back-off; the process is restarted or killed.

Hard: two handlers opening the same store or writing the same temporary file;
a kill between creating, writing, finishing and renaming a file; the moment
between unlink and symlink; nodes that are at different blocks.

Correct if: a hit is what a node answered, never a half-written file, a null or
an error; no entry is lost by concurrent opening or restart; every request is
answered.

### Decoder, stack and memory: `src/src/decoder.rs`, `opcodes.rs`, `executor.rs`

`Decoder::decode` turns byte code into instructions and a jump table once per
call; the loop then runs over instruction numbers while JUMP and JUMPI take byte
offsets, which `resolve_jump` looks up with a binary search. An opcode takes its
operands from a stack with a limit, grows the memory first and pays for it
afterwards through `memory_expansion_cost`, which remembers what was paid.

Hard: data of a PUSH that looks like code, or that the end of the code cuts off;
a dozen opcodes that grow memory, each in its own way; operands of size zero.

Correct if: control reaches only a JUMPDEST that is code; the stack stays within
its limit; no opcode gets memory for less than it costs.

### Precompiles: `src/src/precompiles.rs`, `executor.rs` (`call`)

No state: eleven functions of their input, called in place of a frame, and one
function for their costs. The curves, hashes and big numbers are libraries; what
the repository adds is the reading of the input (lengths, padding, recovery ids,
the point at infinity), the refusal of what is malformed, the cost, and the width
of the result. `call` runs the precompile first and charges for it afterwards.

Hard: lengths that do not fit a `usize`; the cost of modexp, which reads the same
input once more; the s and n - s of a signature; costs as `u64` and gas as `i64`.

Correct if: ecrecover finds the signer and nobody else; modexp computes the power
and counts the bits of its exponent, on both sides of every length; what is refused is
also priced as refused; a returned point is a point; the caller stays in its limit.

### Tracer: `src/src/tracer.rs`, `executor.rs`, `src/evm-event`

State: a buffer of events per executor. `fork` makes an empty one for a callee,
`join` appends it and overwrites the `reverted` flag of its events, `take` empties
it. The executor pushes an event after every instruction, except for calls and
creations, whose event comes before those of the callee, and on early returns,
which push their own. `examples/runner.rs` compares the trace with that of another
machine, event by event.

Correct if: every instruction that runs is traced once, in the order of execution,
at its depth, whatever way it and its callees end, and the flags of a complete trace
say what became of the transaction.

### Not modelled

| Part | Why |
| --- | --- |
| the words opcodes compute, the bytes in memory, logs | 256-bit arithmetic is an external crate; bytes of memory decide no property here; no code reads `Evm::logs` |
| hashes, the curves' arithmetic, the mixing of blake2f | external crates, or straight-line arithmetic without state; `Precompiles` has what surrounds them |
| `eth.rs` | one stateless request per method; a failing one is a failing opcode in `Frames` |
| `evm-common` except for blocks' fees | conversions and 256-bit words; the proxy's keys are modelled on canonical numbers, of which they are faithful |
| what an event contains | only its kind, depth, instruction and flag order and compare traces |
| `evm-tracer` | runs another EVM for comparison |
| `examples`, `wasm-demo`, `allocator.rs` | callers, bindings, counters |
| access lists | a cost in `Gas`; the addresses they warm are not in `Frames` |
| `Ext` shared between tasks | the mutex of `examples/runner.rs` makes transactions sequential, as in `Frames` |

## 2. Modules

| Module | Models | Extends |
| --- | --- | --- |
| `Journal` | `AccountTouch`, `survives_revert`, `Evm::revert`, the record `Ext` | |
| `Snapshots` | what `Frames` promises: nested transactions by copy and restore | |
| `Frames` | `Ext`'s operations, the opcodes that touch world state, `call`, `create`, `execute`, `apply` | `Journal` |
| `Gas` | metering, forwarding, settlement, refunds, final charge | |
| `Fees` | prepayment, refund, miner's share, for calls and creations, and the balances that nested calls and creations move and revert in between | |
| `Machine` | the decoder, the opcode table, jumps, stack and memory, one frame at a time | |
| `Precompiles` | the precompiles, their costs, and the call of one | |
| `Tracer` | event buffers, and who pushes what when | |
| `RpcProxy` | the proxy | |
| `MC*` | instances for TLC | |
| `FramesProofs`, `GasProofs`, `FeesProofs`, `MachineProofs`, `PrecompilesProofs`, `RpcProxyProofs`, `TracerProofs` | theorems | the module they are about |
| `WorldProofs` | the rest of the theorems about `Frames` | `FramesProofs` |

How they fit together: `Gas` and `Fees` are projections of the machine of
`Frames` on amounts that `Frames` leaves open. `Gas` takes from `Frames` that a
reverted frame leaves the storage it was entered with (theorem
`RevertAlwaysAtomic`). `Fees` keeps of each frame's journal the balance in the first
touch of each account, which is what `Evm::revert` restores (`RevertIsReverseReplay`),
and takes any gas used up to the limit (`AlwaysChargedWithinLimit`). `Tracer` is the projection on events: which status a
frame ends with is what `Frames` and `Gas` decide. `Gas` takes the costs of
precompiles from a set, which in the run `paying` includes the -1 that
`Precompiles` shows to be possible.

**Journal.** A world is a record with one field per map or set of `Ext`. A touch
is a record with its kind, account, slot and old value. `UndoTouch` is the match
of `Evm::revert`; `Revert` is the whole loop in closed form (per location, the
oldest value recorded), so that it can be reasoned about without recursion.
That both agree (`RevertIsReverseReplay`) is checked by TLC, and proved from two
laws: for one touch (`RevertOne`) and for a concatenation (`RevertConcat`).

**Frames.** `ext` is the world, `frames` the stack of activations. A frame has
the fields of `Context`, `Call` and `Evm` that matter, a status, and three
history fields that no action's guard reads: the world at entry, the balances
before the caller moved the value, and the accounts written without a touch.
Programs are arbitrary: a running frame executes any opcode of `Ops` with any
operands. Gas is abstract: whatever the code checks may fail at that place. A
call is three actions, as in the code: the opcode (access, value, new frame),
the callee's own steps, and the return (`CallSucceeds`, `CallReverts`). A
transaction is a call (`BeginTx`, `EndTx`) or a creation (`BeginCreateTx`,
`EndCreateTx`), which differ in the code: a creation warms other
addresses and increments the nonce only when it is over.

**Snapshots.** The specification of nested calls that `Frames` implements, with no
journal in it: a call saves the world, works on it, and either keeps its work or
restores the copy. The mapping (`Snap` in `Frames`) takes as `world` storage,
transient storage and warm addresses of `ext`, as `saved` the worlds at the frames'
entries, as `status` theirs, and the destroyed accounts, whose storage is all that
may change between two transactions. `saved` is mapped to history fields, which
no guard reads, so what is shown is that the journals recompute what a copy would
have held. Balance, nonce and code are not part of this world, since the code does
not restore them exactly (section 5).

**Gas.** The amounts are those of the code. An amount that depends on data
outside the model (memory expansion, warm or cold) is any member of a constant
set. Storage is kept because SSTORE's price and refund depend on original,
current and new value. `prior` is history: the refunds of the enclosing frames.

**Fees.** Balances, and the calls and creations under way, each with a journal of
balances: for every account what its first touch would restore (`SetValues`, or zero
for a touch of kind Create, `Creates`). `Then` appends one journal to another, so
`Deploy` can put the endowment and Create before what the init code recorded, as the
code does, and `Undo` can keep the Create touches of what it undoes. A frame also has
its balances at entry and the accounts its journal does not account for, as history
(`Unaccounted`): those SELFDESTRUCT wrote, created ones with funds, and the parties to
an endowment whose balances the init code had moved. An account that is created without
having been asked for has a balance of zero in `Ext`, whatever it owns (`Hides`). A
behaviour is one transaction from any balances; it has at most `MaxFrames` frames,
`MaxDepth` on top of each other.

**Machine.** `bytecode`, `pos`, `instructions` and `jumptable` are the locals of
`decode`, one iteration of whose loop is one action; `evm` is the `Evm`, with the
length of its memory in place of its bytes and a status for how the frame ended;
`ret` is `Executor::ret`. Opcodes have their numbers, costs and operands of the
source. Those that only compute share the action `Compute`, and the word they
leave is any of `Words` unless the frame determines it. A callee is any gas it may
use, a flag and the size of what it returns; an opcode that depends on what is
outside of the frame may be `Refused`. Where an index is out of range or a divisor
zero, the process panics. A frame has the call type it was entered with, since CREATE
takes the operands of CREATE2, and pays for its hash, in init code that CREATE2 runs. Words are numbers that fit a `usize`.

**Precompiles.** An input is a record with the numbers that the code reads out of
it, or the bytes themselves for modexp, where widths matter. The curves are
replaced by the integers modulo a prime with 1 as the generator; a point is its
logarithm, with a form for those the code treats apart (infinity, off the curve).
Signing and verifying, against which ecrecover is checked, are defined from the
equations of ECDSA. Bytes have `ByteBits` bits, so that every length and number is
reached; numbers are read from bytes with the powers of two (`Pow2`), their bit
length is the exponent of the next power (`BitLength`). A subtraction or a
conversion that panics in Rust is the result `Panic`. `Calls` is the set of inputs as
the functions read them, whatever their bytes; `MaxInput` bounds their length by what
memory costs.

**Tracer.** `frames` are the calls under way with their buffers, `trace` the buffer
of the transaction; `ran` is history: the kinds of the instructions in the order in
which they started; `phase` ends as "called" or "reverted", the outcome that
`Evm::reverted` has. Programs are arbitrary, as in `Frames`; each action is one way
for an instruction to end, with the events it pushes in that case.

**RpcProxy.** Each handler has a program counter; everything between two awaits
or two system calls is one action. A file is an inode with a content in two
parts (what is written, and the end of the gzip stream), a name points to an
inode, so that a rename takes an inode that another handler is still writing.
Values name what they are values of, so an answer from the wrong place shows.
The nodes are external: one chain, each node a prefix of it that grows.

Names are those of the source where possible. Operators marked `(mutant)` are
plausible bugs; `PROJECT.json` says which property each must violate.

## 3. Runs

| Run | Instance | Checks | States |
| --- | --- | --- | --- |
| `storage` | two contracts, one slot, depth 3, 5 opcodes of 7 kinds | `JournalExact`, `WarmSlotsKept`, `StaticStorageFrozen`, `RevertIsAtomic`, `ImplementsSnapshots` | 1.09 M |
| `accounts` | six addresses with a delegation and a precompile, depth 3, two transactions (calls or creations) of 2 opcodes | `TypeOK`, `AccountsRestorable`, `RevertIsReverseReplay`, `OriginalIsTxStart`, `NonceConsumed` | 946 k |
| `refunds` | one slot, three words, depth 3, 25 000 gas to spare | `RefundsBacked`, `Terminates` | 483 k |
| `paying` | calls and creations with every way to pay, a precompile that costs -1, 44 000 gas to spare | `GasBounded`, `ChargedWithinLimit`, `CallerKeepsShare`, `WorkShrinks` | 403 k |
| `fees` | a sender without code; a sender with delegated code that is the miner too; an account for creations, known or not, with funds or not; 3 frames, calls and creations | `TypeOK`, `RevertPaysFees`, `Conserved` | 361 k |
| `machine` | all codes of up to 5 bytes over STOP, DIV, JUMP, JUMPI, JUMPDEST, PUSH1, PUSH2 and longer ones that begin with operands; 8 operands and 2 of 32 opcodes; stack limit 8, memory limit 96 | `TypeOK`, `JumpTableExact`, `MemoryCounted`, `JumpsLand`, `MemoryPaid` | 502 k |
| `proxy_state` | two handlers, two nodes, a slot at a block and at the latest one, 3 attempts, restarts, a kill | `TypeOK`, `HitsTrue`, `DelayBounded`, `EntriesKept`, `Answered`, `CloserToAnswer` | 261 k |
| `proxy_files` | two handlers, one node, blocks and code, a kill, forwarded and invalid requests | `HitsTrue` | 3.58 M |
| `tracer` | 3 instructions besides those that end a call, depth limit 2, calls and creations | `ProgramOrder`, `CallTree`, `FlagsAgree` | 301 k |
| `precompiles` | a group of order 7, bytes of 2 bits, lengths up to 3 and beyond the integers | `TypeOK`, `RecoversSigner`, `ModexpPriced`, `ModexpResult`, `RejectedTogether`, `BnClosed` | 18 k |
| `value`, `modexp` | expected violations, see section 5 | one property each | |

What they show:

- `storage`: for any nesting of calls, delegated and static calls, undoing a
  frame's journal at any moment gives exactly the storage, transient storage and
  warm addresses at its entry; undoing never cools a slot that was warm before,
  even though read touches outlive the revert of their own call; nothing below a
  STATICCALL changes storage. `ImplementsSnapshots`: the whole behaviour is one of
  nested transactions.
- `accounts`: the same for balance, nonce and code, except for accounts the code
  writes without a touch (SELFDESTRUCT, the created account and its endower);
  the closed form `Revert` equals the loop; `original` is the value at the start
  of the current transaction, also in the second one; a nonce is consumed
  whether the transaction, a call or a creation, reverts or not.
- `refunds`: what SSTORE takes back was given before, in this frame or one around
  it, although a reverted frame's counter is dropped; and every transaction ends.
- `paying`: with so little gas that every check can fail, no frame overdraws, even
  if a precompile gives gas back, a caller goes on after its callee with its 64th, a
  call is charged between the floor and what it offered. `WorkShrinks` says why
  transactions end: three times the gas of the first frame, less what the frames have
  used and their callers will be charged for, plus what is left of the frames
  themselves, falls with every step and stays positive.
- `fees`: a call that is reverted leaves every balance as it was but for its fees, and
  only the base fee is lost, after any nesting of calls, creations and endowments that
  succeeded or were undone within it, whoever coincides with whom. Excepted are the
  accounts that a journal does not account for (`Unaccounted`, section 2): what a
  revert leaves them with is a balance from between, or zero.
- `machine`: the jump table is sorted and complete (`JumpTable`), and its offsets are
  exactly the bytes 0x5b that no PUSH covers, compared with a definition of "code"
  that is not the decoder's loop (`TargetsAreCode`), both in `JumpTableExact`; a jump lands at the offset on
  the stack, with JUMPI's exception for 0 (`JumpsLand`); through copies, calls,
  creations and returns, with memory that is already there or not, a step costs at
  least what its memory adds to the cost of the whole (`MemoryPaid`), because
  `mem_cost` is never out of date (`MemoryCounted`).
- `proxy_*`: as in section 1, also when handlers read the url before another one
  switches it to a node that is behind. `Alike` in `HitsTrue` names the queries that
  the cache does not distinguish. `DelayBounded` is the bound on the back-off that
  does hold, twice the maximum. Balances and nonces take the path of storage, with
  databases that are opened at the start. `CloserToAnswer` counts the steps a handler
  has left, attempts included: none of its own, of another handler or of a restart
  adds to them.
- `tracer`: the instructions of the joined buffers are those that ran, in order,
  none missing or doubled, but for a call instruction without valid operands
  (`ProgramOrder`); depths form a tree of calls (`CallTree`); in the complete
  trace of a call no event is flagged if the transaction succeeded, and every event of
  the execution is if it was reverted (`FlagsAgree`). Of an inner call that reverted the
  flags say nothing, since each `join` overwrites them (section 5).
- `precompiles`: as in section 1. `RecoversSigner` compares with all keys and nonces,
  `ModexpPriced` the scan of bytes with the bits of the number, `BnClosed` feeds
  every result back. What modexp costs for each bit is the code's own formula, that of
  EIP-2565, in `ModexpPriced` as well; it is not the price of EIP-7883 (section 5).

**Bounds.** Two contracts and one slot are enough for every aliasing of caller,
callee and storage context that the journal distinguishes (same account, other
account, delegated code on one's own storage); depth 3 gives a frame with both a
caller and a callee, and a call at the limit; five opcodes allow write, call,
write in the callee, return, and a second write before a revert. Two
transactions are enough for what `reset` must forget. In `Gas` the spare gas is
chosen so that each check in CALL, CREATE, SSTORE and the deposit both succeeds
and fails. In `Fees` three frames are a transaction, a creation and what its init code
calls, or two in a row, which is what the order of an endowment's touches needs; the
funds 0 and 3 pay for all or for nothing. In `Machine` five bytes hold a PUSH, a jump and its target before,
behind or inside of data; two opcodes after the operands give every pair of one
that grows memory and one that finds it grown; the operands are zero, below and
above a word, and beyond the limit. In `Tracer` a depth of two below the limit and
three instructions give a callee between two instructions of its caller, and a call
that is refused for its depth; four instructions pass as well (3.2 M states). In
`Precompiles` a prime of 7 has both halves of s with an odd border, two bytes for the
head of an exponent have lengths below, at and above it, and a byte has a highest bit
that is set and that is not. Two handlers are what any race here needs; one kill is what a
recovery needs; `MaxAttempts` is small, since an attempt depends only on the one
before it. The theorems do not depend on any of these bounds.

**Symmetry** (handlers) is used in `proxy_files` only, which has no liveness property.
`MCRpcProxyLive.cfg` checks `Answered` for all kinds of requests (463 k states).

**Deadlock** is checked except in `MCFees*.cfg`, where a behaviour is one transaction
and stops after it, or before it if the sender owns nothing.

**Fairness.** `Gas!FairSpec` has weak fairness of `Step`: the loop is sequential
code, and a request it waits for ends with an answer or an error.
`RpcProxy!FairSpec` has weak fairness of each handler's own steps: the runtime
schedules every ready task, and the nodes answer, refuse or break the
connection. The HTTP client has no timeout of its own, so a node that keeps a
connection open and silent is outside this assumption. Nothing is assumed about
arrivals, url switches, new blocks, restarts or kills.

**Assumptions on inputs.** Transactions are such as a block contains: the sender
has the funds, and the gas offered covers the intrinsic cost and the floor. The
proxy is queried with canonical numbers; there are no reorganisations; block 0
is not queried.

## 4. Proofs

All theorems hold for any sets of addresses, slots, values, costs, prices,
queries, byte codes, any limits and any number of steps, handlers and
transactions. They assume the named `ASSUME`s of the modules, which are typing
assumptions and, in `Fees`, that a transaction's price covers the base fee and
that the created address is not a sender; in `RpcProxy`, that blocks are numbers
from 1; in `Gas`, that access to an address costs at least 2 (it costs 100 or more), so
that a precompile with the cost -1 does not make its call free; in `Precompiles`, that
the order of the group is an odd prime, that inputs are such as the functions read
(`InputAssumption`), and that what is not refused costs less than half of a `u64`
(`CostAssumption`), which holds by far for the lengths accepted and for any input that
memory can be paid for. Four theorems have a hypothesis besides, named where they are
listed below.

What a recursive function computes is proved without an operator parameter:
`SetInduction` (a set that holds 0 and with n also n + 1 holds all of `Nat`) is
proved from the well-foundedness of `<`, applied to the set of numbers at which
the claim holds, and used to show that the function that satisfies the recursive
equation exists and what it is.

**FramesProofs.** Two laws of the journal come first. `RevertConcat`: undoing `s \o t`
is undoing `t`, then `s`, which makes appending a callee's journal to its caller's
sound. `RevertOne`: on one touch the closed form is the match arm of the loop.

The properties are not inductive: that the innermost journal
leads back to its frame's entry says nothing about the frames below, which are
needed once it returns. The invariant speaks of every frame i, from its own
entry to the entry of frame i + 1 (for the innermost, to the present world):

    Inv == TypeOK /\ Journals /\ StaticInherited /\ StaticStorageFrozen

`Journals` says of each frame that its journal is `Sound`: it is `Recorded` (it
undoes exactly what happened to storage, transient storage and warm addresses)
and `KeepsWarm`. `StaticInherited` says that static frames have static callees,
without which `StaticStorageFrozen` is not preserved by CALL. Soundness composes
(`SoundCompose`, from `RevertConcat`), each kind of touch is sound for the step
that records it, and what survives a revert is sound for the step from the
callee's entry to the undone world (`SoundRevert`). Results: `TypeCorrect`,
`JournalExactAlways`, `RevertAlwaysAtomic`, `WarmSlotsAlwaysKept`,
`StaticStorageAlwaysFrozen`. They cover creation transactions as well as calls.

**WorldProofs** goes on from there. All the actions of `Next` are reduced to
four shapes (`ShapeOfStep`): the innermost frame works (`Works`), it calls
(`Calls`), it leaves (`Leaves`), or a transaction begins (`Begins`). What follows
is shown once for each shape.

- `FramesImplementSnapshots`: `Works` maps to a step that changes the world, `Calls`
  to one that saves it, `Leaves` to one that keeps or restores it, since
  `RevertAlwaysAtomic`'s invariant says that the journal leads to the entry, which
  is what `saved` is mapped to.
- `AccountsAlwaysRestorable`: for balance, nonce and code the journals are not exact,
  as the code writes some accounts without a touch. `Kept(e, ts, f, T)` says that
  the touches `ts` account for the way from world e to world f outside of the
  accounts T; it composes like `Sound`, with the union of the sets.
- `NonceAlwaysConsumed` needs that undoing never brings a nonce below that of the
  entry (`Climbs`, a part of `Kept`), and that the signer's nonce went up before the
  call's own journal began (`Counted`). Its hypothesis is that no signer has an
  address that `Address::create` or `create2` computes: a creation there would set
  the nonce to 1. Such a collision of hashes is what the code relies on not to happen.
- `AlwaysReverseReplay`: the closed form `Revert` is the loop of `Evm::revert`, since
  its values on the suffixes of a journal satisfy the loop's equation (`RevertConcat`,
  `RevertOne`) and only one function does (`RevertIsTheLoop`).
- `OriginalAlwaysTxStart` has the hypothesis `Remote`: without a remote it is
  false (`MCFramesLocal.cfg`, section 5).

**GasProofs.** `GasBounded` (`TypeOK` and the limits) is not inductive: a caller is settled with what
its callee used, so the invariant relates each frame's limit to what its caller
has left (`Stack`). `RefundsBacked` needs the refund owed at each frame's entry,
since a revert goes back to it; that is what the history field `prior` is for.
The core is `StoreRefundCovers`: SSTORE's refund, over all cases of original,
current and new value, changes the counter by at least the change of what is
owed. `WorkAlwaysShrinks` is the rank of `Terminates`. Along the stack a frame takes
no more from the work than its caller cannot use any more (`WeightSettled`, from
`Settles`), so the work exceeds three times the gas the innermost frame has left
(`WorkBound`) and is positive; then each action makes a frame lighter
(`UpdateShrinks`), adds one that costs more than the stipend it brings (`EnterShrinks`),
or drops one its caller pays for (`LeaveShrinks`). Results: `GasTypeCorrect`,
`GasAlwaysBounded`, `RefundsAlwaysBacked`, `AlwaysChargedWithinLimit`,
`CallerAlwaysKeepsShare`, `WorkAlwaysShrinks`.

**FeesProofs.** What a journal restores is not inductive by itself, since an inner
journal is appended to an outer one or undone before it. `Restores` says of a frame and
of the balances its execution led to that undoing its journal gives back what it was
entered with, for all accounts but the `Unaccounted`. The invariant says so of the
innermost frame and the present balances, and of each caller and the balances at its
callee's entry (`Sound`, `Journaled`), and that frames fit on each other (`Stacked`).
It is kept by `Return` (one way after the other), `Undo` (the way there and back, with
the Create touches handed up) and `Deploy`, whose journal has the endowment first: the
accounts for which this order matters are those the action makes unaccounted for. With
the prepayment known, `RevertAlwaysPaysFees` follows at the end of a call. For
`AlwaysConserved`, `TotalMoves` says what a change of one balance does to the sum of
all, by induction over sets of accounts; the sum is kept by every step but the
prepayment (`Balanced`), unless `lost` says that a revert met an unaccounted balance or
that funds were hidden, and the sender of a creation still owns what its gas may cost
(`Pays`). The latter is not so if the sender has code, by delegation: called by the
creation, it may spend its balance, and the subtraction at the end, which saturates
(`solenoid.rs:406`), takes less than the fee. `MaySpendFee` names this exception in
`Conserved`. Results: `FeesTypeCorrect`, `RevertAlwaysPaysFees`, `AlwaysConserved`.

**MachineProofs.** One invariant for decoder and frame: the stack is within its
limit and the program counter in the code (`FrameOK`), memory is whole words and
`mem_cost` what it costs (`Counted`), the table is sorted and holds the JUMPDESTs
among the instructions decoded, all below `pos` (`JumpTable`, `DecoderType`), the
first instruction is at offset 0 (`FirstAtZero`, for JUMPI to 0). Every opcode is
reduced to one shape, `FrameStep`: it proceeds with memory that is counted and
paid, fails, or panics. More memory costs no less
(`MemCostMonotone`), so growing it twice is paid for as well. `TargetsAreCode` compares the table
with the recursive `IsCode`; `CodeRead`, on top of the invariant, says that the bytes
decoded so far are at the offsets that are code. Results: `MachineTypeCorrect`,
`JumpTableAlwaysExact` (with `JumpTableAlwaysSorted` and `TargetsAreAlwaysCode`),
`MemoryAlwaysCounted`, `MemoryAlwaysPaid`, `JumpsAlwaysLand`.

**RpcProxyProofs.** The invariant has three parts. `Serving`: what each handler holds
was answered to its query (`Fetched`), and it has what its place in the code needs, a
store that is open, a number of attempts, a delay (`Paced`). `Stores`: every entry in
memory and on disk was answered to a query with its key, and the store that lookups
find is the one that inserts go to. `Files`: an inode serves one path, whether by its
name, its temporary name or an open descriptor (`Serves`), and whatever is written in
it was answered to a query of that path; so two handlers that write the same temporary
file, and a kill between any two system calls, leave only parts of right answers. That
there is an inode left for a new file is the pigeonhole principle (`Fresh`). Results:
`ProxyTypeCorrect`, `DelayAlwaysBounded` (the delays are the initial one times powers of
two), `EntriesAlwaysKept`, `AlwaysCloserToAnswer` (the rank of `Answered`; it needs that
attempts are below their maximum and that a result is fetched only after `send`), and
`HitsAlwaysTrue`. The last has two hypotheses: `~NullState`,
nodes answer an error for state they lack, since a null is cached as a zero
(`MCRpcProxyNull.cfg`, section 5); and `DistinctKeys`, no two queries of state share a
key, since the block tag "latest" is stored under the key of block 0.

**TracerProofs.** `Whole`, the trace as it will be, joins the buffers of all frames by
a recursive function. The invariant says that some function with its equations
(`Parts`) ends (`Ends`) in a trace that is a tree of calls (`Tree`), in the order of the
program (`Order`), and whose last event fits the innermost frame (`Last`). Each step
shows the function of the next state: most append a block of events of one depth
(`Traces`), a call opens a buffer, and a return joins one, which leaves the whole as it
was up to the flags (`Same`). Only at the end an induction shows that there is one such
function. `Flow` says that what is in the transaction's own buffer before the call runs
is no part of the execution and not flagged; the last `Join` then flags the rest with
the outcome (`FinishStep`). Results:
`AlwaysProgramOrder`, `AlwaysCallTree`, `AlwaysFlagsAgree`.

**PrecompilesProofs.** The state is one call and what it did, so the invariant is short
(`Ran`: the result is that of the function), and the work is in the functions.

- `SignerAlwaysRecovered`: modulo an odd prime every number but 0 has an inverse
  (`InverseExists`: the least positive product of a number and another is 1). From
  `SignEquation` follow both directions, that a signature of a signer is recovered to
  it (`SignerFound`) and that whoever is recovered has signed (`FoundIsSigner`), for
  either half of s.
- `ModexpAlwaysRight`: the bytes returned are the digits of the power (`ToBytesFacts`,
  `FromBytesUnique`), padded to the length asked for, whatever the lengths are.
- `ModexpAlwaysPriced`: of the number of iterations, not of what each costs: the scan of
  the head of the exponent for its highest bit, byte by byte, finds the bit length of the number (`BitLengthIsScan`), for a head of zeros
  too; and the cost is not cut off by its conversion to an `i64` unless the input was
  refused (`ModexpCostBound`).
- `AlwaysRejectedTogether`: modexp and its cost refuse the same lengths. Hypothesis:
  `Usize = U64`. Otherwise it is false (`MCPrecompilesWasm.cfg`, section 5).
- `BnAlwaysClosed`: what the bn128 functions return they accept.
- `PrecompilesTypeCorrect`: `used` stays within the frame's limit, whatever a
  precompile costs.

`Iteration` gives what a recursive function on numbers computes, from its first value
and its step.

**Only model-checked.** `Terminates` and `Answered`: liveness under fairness is out of
TLAPS's reach here. What they rest on is proved, `WorkAlwaysShrinks` and
`AlwaysCloserToAnswer`; that some step is always possible (no deadlock) and is
taken (fairness) is what TLC adds.

## 5. Disagreements between code and documentation

Each of these was met while modelling. The runs `value` and `modexp` expect a
violation; the others are properties that TLC refutes under the configuration
named here.

| Property | Configuration | What the code does |
| --- | --- | --- |
| `ValueReturned` | `MCFramesValue.cfg` | A CALL's transfer is in the caller's journal (`executor.rs:2572`), so a reverted callee keeps the value. |
| `OversizedConsumesAll` | `MCPrecompilesOversized.cfg` | The cost of a modexp input that is too large is `u64::MAX` (`precompiles.rs:299`), cast to the `i64` -1 and charged (`executor.rs:2539`); "reject oversized inputs (consume all gas — caller handles that)" (`precompiles.rs:294`). |
| `StaticFrozen` | `MCFramesStatic.cfg` | CREATE, CREATE2, CALL with value and SELFDESTRUCT test `call_type` only (`executor.rs:2166`), so they are allowed in a CALL below a STATICCALL. |
| `GasWithinLimit` | `MCGasDeposit.cfg` | A creation that reverts with data is charged the deposit for it, unchecked (`solenoid.rs:323`). |
| `CachedMatches` | `MCRpcProxyNull.cfg` | A null answer to eth_getStorageAt is cached as zero (`rpc-proxy/src/main.rs:230`). |
| `OriginalIsTxStart` | `MCFramesLocal.cfg` | Without a remote, the first read of an absent slot records no original value (`ext.rs:160`); a later one records what was written since. |
| `ReportedIsCharged` | `MCGasFloor.cfg` | `apply` reports a call's gas without the calldata floor it was charged (`solenoid.rs:299`). |
| `AllocationLimited` | `MCMachineLimits.cfg` | MCOPY compares its destination with the "allocation sanity check limit" (`executor.rs:58`) and grows the memory to its source as well (`executor.rs:2045`). |
| `StopReturnsNothing` | `MCMachineReturns.cfg` | A frame that runs off the end of its code is traced as STOP but returns the data of its last callee (`executor.rs:840`), which STOP clears. |
| `CreateHasGas` | `MCGasPanic.cfg` | A CREATE with too little gas panics (`executor.rs:2786`). |
| `MinerKeepsFee` | `MCFeesMiner.cfg` | A reverted creation is undone after the miner was paid (`solenoid.rs:369`); "fee additions are final and should never be reverted" (`executor.rs:599`). |
| `DelayCapped` | `MCRpcProxyDelay.cfg` | The delay is capped before it is doubled (`retry.rs:44`): with a maximum of 20 s it sleeps 32 s once. |
| `OfflineStaysLocal` | `MCRpcProxyOffline.cfg` | Requests that are not cacheable go upstream in offline mode (`rpc-proxy/src/main.rs:394`). |
| `FailureReturnsNothing` | `MCPrecompilesFailure.cfg` | A precompile that fails leaves the return data of an earlier call (`executor.rs:2493`). |
| `NoPanic` | `MCPrecompilesPanic.cfg` | ecrecover subtracts an s above n (`precompiles.rs:107`) and the bn128 functions unwrap points that are not on the curve: both stop the process. |
| `BlakeSchedule` | `MCPrecompilesBlake.cfg` | Round i of blake2f takes the permutation i % 12 of a table that repeats its first two (`precompiles.rs:628`), instead of i % 10: results differ beyond 12 rounds. |
| `PricedAsEip7883` | `MCPrecompilesEip7883.cfg` | modexp has the minimum and the multiplier of EIP-7883 (`precompiles.rs:277`, `341`), and its comments name that EIP, but the complexity of EIP-2565 (`precompiles.rs:302`): EIP-7883 takes 16 up to 32 bytes and twice the square of the words above. |
| `RejectedTogether` | `MCPrecompilesWasm.cfg` | Where a `usize` is smaller than a `u64`, modexp and its cost disagree about which lengths are too large. |
| `HaltsFlagged` | `MCTracerFlags.cfg` | `join` overwrites flags (`tracer.rs:20`): the Halt event of an inner call is not flagged once its caller succeeds. |
| `ReturnsTrue` | `MCTracerReturns.cfg` | RETURN pushes a Return event that reports a success before it is paid for (`executor.rs:2242`); the call may then halt. |

Modelled as they are, without a property: MULMOD by zero and SIGNEXTEND of a byte
beyond the 31st panic (`executor.rs:1012`, `1040`); CREATE, and the trace of a
call to a precompile, slice the memory at an offset beyond it for a size of zero
(`executor.rs:2740`, `2524`); JUMPI to 0 needs no JUMPDEST (`executor.rs:1958`);
SHA3 and LOG read beyond the memory without growing it. CREATE in init code that
CREATE2 runs takes a salt and makes the account that CREATE2 would, since it hands on
the call type of its frame (`executor.rs:2169`, `2724`, `2768`); in a frame of
DELEGATECALL it moves no value (`2898`). The touches of an endowment precede those of
the init code (`2902`), and undoing a creation, also one that was undone before, sets the
balance to zero (`253`): reverts may leave the parties with other balances than before.
A creation that cannot pay its deposit is undone after its events were joined
(`2855`, `2864`), so that they are not flagged. The events of a creation
transaction are never joined, so none of its own is flagged (`solenoid.rs:319`). Not
modelled: LOG beyond the end of memory records the whole memory instead of the slice
(`executor.rs:2151`); the SetValue event of a transaction's recipient is given the
sender's balance (`executor.rs:450`); ORIGIN is zero in a creation transaction, whose
context is a default (`solenoid.rs:313`).

## 6. Plan

Next: access lists in `Frames`; the conversions the proxy's keys rest on
(`decode_hex_padded`, `encode_quantity`).
