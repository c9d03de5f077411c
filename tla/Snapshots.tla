------------------------------ MODULE Snapshots ------------------------------
(***************************************************************************)
(* What nested calls promise about the state they share, said without a    *)
(* journal: a call saves a copy of the world when it starts, works on the  *)
(* world itself, and when it ends the copy is either thrown away or put    *)
(* back.  Module Frames, where nothing is ever copied and the journals of  *)
(* Evm::revert do the work, is shown to implement this specification.      *)
(*                                                                         *)
(* The world is what a revert must restore exactly: storage, transient     *)
(* storage and the warm addresses.                                         *)
(***************************************************************************)
EXTENDS Naturals, Sequences

CONSTANTS
  Addr,    \* account addresses
  Slots,   \* storage slots, each a pair of its account and its key
  Values   \* storage words

VARIABLES
  world,     \* the state the calls work on
  saved,     \* for each call that is under way, the world it started from
  status,    \* for each call that is under way, whether and how it has ended
  destroyed  \* accounts that will be gone when the transaction is over

sVars == <<world, saved, status, destroyed>>

World == [ storage: [Slots -> Values], transient: [Slots -> Values],
           warm: SUBSET Addr ]

Depth == Len(saved)

\* v is w but for addresses that were warmed on the way.
Warmed(w, v) ==
  /\ v.storage = w.storage
  /\ v.transient = w.transient
  /\ w.warm \subseteq v.warm

\* At most one slot differs.
OneSlot(f, g) == \A s, t \in Slots : f[s] # g[s] /\ f[t] # g[t] => s = t

Init ==
  /\ world \in World
  /\ saved = <<>>
  /\ status = <<>>
  /\ destroyed = {}

\* A transaction starts with nothing warm and no transient storage.  Accounts
\* destroyed by the last one are gone; whatever their slots are now, no other
\* slot has changed.
Begin ==
  /\ saved = <<>>
  /\ Len(saved') = 1
  /\ Len(status') = 1
  /\ saved'[1].transient = [s \in Slots |-> 0]
  /\ saved'[1].warm = {}
  /\ \A s \in Slots : s[1] \notin destroyed =>
       saved'[1].storage[s] = world.storage[s]
  /\ Warmed(saved'[1], world')
  /\ destroyed' = {}

\* The innermost call does something, and may end by it.  Only a running call
\* ever writes.
Work ==
  /\ Depth > 0
  /\ status[Depth] = "running"
  /\ OneSlot(world.storage, world'.storage)
  /\ OneSlot(world.transient, world'.transient)
  /\ world.warm \subseteq world'.warm
  /\ saved' = saved
  /\ \E st \in {"running", "stopped", "reverted"} :
       status' = [status EXCEPT ![Depth] = st]
  /\ destroyed \subseteq destroyed'

\* The innermost call makes another one.
Save ==
  /\ Depth > 0
  /\ status[Depth] = "running"
  /\ Len(saved') = Depth + 1
  /\ \A i \in 1..Depth : saved'[i] = saved[i]
  /\ Warmed(world, saved'[Depth + 1])
  /\ Warmed(saved'[Depth + 1], world')
  /\ \E st \in {"running", "stopped", "reverted"} : status' = Append(status, st)
  /\ UNCHANGED destroyed

Drop(s) == [i \in 1..(Len(s) - 1) |-> s[i]]

\* The innermost call is over and its work stays.
Keep ==
  /\ Depth > 0
  /\ status[Depth] = "stopped"
  /\ world' = world
  /\ saved' = Drop(saved)
  /\ status' = Drop(status)
  /\ UNCHANGED destroyed

\* The innermost call is over and the world is again what it started from.
\* A call that did not revert may still fail: a creation without the gas for
\* the code it returns.
Restore ==
  /\ Depth > 0
  /\ status[Depth] \in {"stopped", "reverted"}
  /\ world' = saved[Depth]
  /\ saved' = Drop(saved)
  /\ status' = Drop(status)
  /\ UNCHANGED destroyed

Next == Begin \/ Work \/ Save \/ Keep \/ Restore

Spec == Init /\ [][Next]_sVars
=============================================================================
