------------------------------- MODULE Journal -------------------------------
(***************************************************************************)
(* The world state an execution changes (struct Ext, src/src/ext.rs), the  *)
(* journal of touches a call frame keeps (enum AccountTouch and            *)
(* Evm::touches, src/src/executor.rs) and the undoing of a journal         *)
(* (Evm::revert).                                                          *)
(*                                                                         *)
(* Words are members of Values, code is only told apart as empty, a        *)
(* contract, or an EIP-7702 delegation designator (represented by the      *)
(* address it designates).  Touches that neither Evm::revert nor a later   *)
(* step looks at (FeePay, GetNonce, GetValue, GetCode) are left out.       *)
(***************************************************************************)
EXTENDS Naturals, Sequences

CONSTANTS
  Addr,      \* account addresses, the zero address not among them
  Keys,      \* storage keys
  Values,    \* storage words
  Empty,     \* the code of an account without code
  Contract,  \* any ordinary code
  None       \* no value recorded

ASSUME ValuesAssumption == Values \subseteq Nat /\ 0 \in Values

ASSUME NoneAssumption == None \notin Values

Slots == Addr \X Keys

Code == {Empty, Contract} \cup Addr

\* struct Ext.  cached and present are the keys of the maps Ext::state and
\* Account::state; storage, balance, nonce and code are the values a read
\* would return now, fetched from the remote node where nothing is cached.
Ext == [ cached:    SUBSET Addr,
         present:   SUBSET Slots,
         storage:   [Slots -> Values],
         transient: [Slots -> Values],
         original:  [Slots -> Values \cup {None}],
         balance:   [Addr -> Nat],
         nonce:     [Addr -> Nat],
         code:      [Addr -> Code],
         warmAddr:  SUBSET Addr,
         warmSlot:  SUBSET Slots,
         destroyed: SUBSET Addr ]

-----------------------------------------------------------------------------
(* Touches *)

Touch ==
       [op: {"Noop"}]
  \cup [op: {"WarmUp", "Create"}, addr: Addr]
  \cup [op: {"GetState"}, slot: Slots, warm: BOOLEAN]
  \cup [op: {"SetState"}, slot: Slots, old: Values, warm: BOOLEAN]
  \cup [op: {"SetTransientState"}, slot: Slots, old: Values]
  \cup [op: {"SetNonce", "SetValue"}, addr: Addr, old: Nat]

Noop                       == [op |-> "Noop"]
WarmUp(a)                  == [op |-> "WarmUp", addr |-> a]
CreateTouch(a)             == [op |-> "Create", addr |-> a]
GetState(s, warm)          == [op |-> "GetState", slot |-> s, warm |-> warm]
SetState(s, old, warm)     == [op |-> "SetState", slot |-> s, old |-> old,
                               warm |-> warm]
SetTransientState(s, old)  == [op |-> "SetTransientState", slot |-> s,
                               old |-> old]
SetNonce(a, old)           == [op |-> "SetNonce", addr |-> a, old |-> old]
SetValue(a, old)           == [op |-> "SetValue", addr |-> a, old |-> old]

\* AccountTouch::survives_revert, of the touches modelled here.
SurvivesRevert(t) == t.op \in {"GetState", "Create"}

\* What the parent keeps of the journal of a reverted call.  The filter of
\* the code is written as a map to Noop, which Evm::revert ignores.
Survivors(ts) == [i \in DOMAIN ts |-> IF SurvivesRevert(ts[i]) THEN ts[i]
                                                               ELSE Noop]

-----------------------------------------------------------------------------
(* Evm::revert *)

\* One arm of the match in Evm::revert: what undoing the touch t does.
UndoTouch(t, e) ==
  CASE t.op = "SetState" ->
         [e EXCEPT !.storage[t.slot] = t.old,
                   !.present = @ \cup {t.slot},
                   !.warmSlot = IF t.warm THEN @ ELSE @ \ {t.slot}]
    [] t.op = "SetTransientState" -> [e EXCEPT !.transient[t.slot] = t.old]
    [] t.op = "GetState" ->
         [e EXCEPT !.warmSlot = IF t.warm THEN @ ELSE @ \ {t.slot}]
    [] t.op = "SetNonce" -> [e EXCEPT !.nonce[t.addr] = t.old]
    [] t.op = "SetValue" -> [e EXCEPT !.balance[t.addr] = t.old]
    [] t.op = "Create" -> [e EXCEPT !.code[t.addr] = Empty,
                                    !.nonce[t.addr] = 0,
                                    !.balance[t.addr] = 0]
    [] t.op = "WarmUp" -> [e EXCEPT !.warmAddr = @ \ {t.addr}]
    [] OTHER -> e

\* The loop of Evm::revert: undone[i] is the world once all touches but the first i
\* are undone.
ReverseReplay(ts, e) ==
  LET undone[i \in 0..Len(ts)] == IF i = Len(ts) THEN e ELSE UndoTouch(ts[i + 1], undone[i + 1])
  IN  undone[0]

(***************************************************************************)
(* Evm::revert replays the journal from its last touch to its first, so    *)
(* the earliest touch of a location has the last word.  Revert says this   *)
(* location by location; FramesProofs shows that it is UndoTouch on one    *)
(* touch and composes over concatenation, and WorldProofs that it equals    *)
(* the loop, ReverseReplay.                                                *)
(***************************************************************************)
\* (mutant) The journal is replayed from its first touch to its last.
LatestInstead(I) == CHOOSE i \in I : \A j \in I : i >= j

Earliest(I) == CHOOSE i \in I : \A j \in I : i <= j

Old(t) == IF t.op = "Create" THEN 0 ELSE t.old

\* The value of a location touched by ts at the indices I, now holding v.
Rewind(ts, I, v) == IF I = {} THEN v ELSE Old(ts[Earliest(I)])

SlotTouches(ts, op, s)  == {i \in DOMAIN ts : ts[i].op = op /\ ts[i].slot = s}
AddrTouches(ts, ops, a) == {i \in DOMAIN ts : ts[i].op \in ops /\ ts[i].addr = a}

UndoStorage(ts, f)   == [s \in Slots |-> Rewind(ts, SlotTouches(ts, "SetState", s), f[s])]
UndoTransient(ts, f) ==
  [s \in Slots |-> Rewind(ts, SlotTouches(ts, "SetTransientState", s), f[s])]
UndoNonce(ts, f)   == [a \in Addr |-> Rewind(ts, AddrTouches(ts, {"SetNonce", "Create"}, a), f[a])]
UndoBalance(ts, f) == [a \in Addr |-> Rewind(ts, AddrTouches(ts, {"SetValue", "Create"}, a), f[a])]
UndoCode(ts, f)    == [a \in Addr |-> IF AddrTouches(ts, {"Create"}, a) = {} THEN f[a] ELSE Empty]
UndoWarmAddr(ts, W) == {a \in W : AddrTouches(ts, {"WarmUp"}, a) = {}}

\* The touches that found the slot s cold: undoing one makes s cold again.
Coolers(ts, s) ==
  {i \in DOMAIN ts : ts[i].op \in {"GetState", "SetState"} /\ ts[i].slot = s /\ ~ts[i].warm}

UndoWarmSlot(ts, W) == {s \in W : Coolers(ts, s) = {}}

UndoPresent(ts, P) == P \cup {s \in Slots : SlotTouches(ts, "SetState", s) # {}}

Revert(ts, e) ==
  [ cached    |-> e.cached,
    present   |-> UndoPresent(ts, e.present),
    storage   |-> UndoStorage(ts, e.storage),
    transient |-> UndoTransient(ts, e.transient),
    original  |-> e.original,
    balance   |-> UndoBalance(ts, e.balance),
    nonce     |-> UndoNonce(ts, e.nonce),
    code      |-> UndoCode(ts, e.code),
    warmAddr  |-> UndoWarmAddr(ts, e.warmAddr),
    warmSlot  |-> UndoWarmSlot(ts, e.warmSlot),
    destroyed |-> e.destroyed ]

-----------------------------------------------------------------------------
(* What a journal is for *)

\* The touches ts lead back from the world f to the world e: exactly, in
\* storage, transient storage and warm addresses.
Recorded(e, ts, f) ==
  /\ UndoStorage(ts, f.storage) = e.storage
  /\ UndoTransient(ts, f.transient) = e.transient
  /\ UndoWarmAddr(ts, f.warmAddr) = e.warmAddr

\* Undoing ts in f makes no slot cold that was warm in e.
KeepsWarm(e, ts, f) == e.warmSlot \subseteq UndoWarmSlot(ts, f.warmSlot)
=============================================================================
