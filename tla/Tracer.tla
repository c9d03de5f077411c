-------------------------------- MODULE Tracer --------------------------------
(***************************************************************************)
(* The trace of a transaction (src/src/tracer.rs): the events that the     *)
(* executor pushes (executor.rs), each call into a buffer of its own that  *)
(* is forked from its caller's and joined to it when the call is over.     *)
(*                                                                         *)
(* What an instruction does is left out but for how it ends and what it    *)
(* pushes.  An event names the instruction it comes from by its place in   *)
(* the order in which instructions started, kept in the history variable   *)
(* ran.                                                                    *)
(***************************************************************************)
EXTENDS Naturals, Sequences

CONSTANTS
  DepthLimit,   \* CALL_DEPTH_LIMIT
  MaxRun        \* (bound) instructions of a transaction

ASSUME LimitAssumption == DepthLimit \in Nat \ {0} /\ MaxRun \in Nat

VARIABLES
  trace,    \* buffer of the executor of the transaction
  frames,   \* the calls under way, outermost first
  ran,      \* (history) the instructions in the order they started
  phase     \* "idle"; "calling" or "creating"; and when the trace is complete "called",
            \* "reverted" (a call that was, as Evm::reverted says) or "created"

vars == <<trace, frames, ran, phase>>

-----------------------------------------------------------------------------
(* Events and buffers *)

\* kind is "call", "op", "return", "halt", "account" (also for state and hashes)
\* or "fee"; op is the instruction, 0 if there is none.
Event(kind, depth, op, reverted) ==
  [kind |-> kind, depth |-> depth, op |-> op, reverted |-> reverted]

\* (mutant) The events keep the flags they were pushed with.
JoinUnflagged(tracer, other, reverted) == tracer \o other

\* EventTracer::join.
Join(tracer, other, reverted) ==
  tracer \o [i \in DOMAIN other |-> [other[i] EXCEPT !.reverted = reverted]]

Depth == Len(frames)
Top   == frames[Depth]

\* The instruction that runs now.
Now == Len(ran) + 1

Op(reverted)     == Event("op", Depth, Now, reverted)
Account          == Event("account", Depth, Now, FALSE)
Halted           == Event("halt", Depth, Now, TRUE)
Return(reverted) == Event("return", Depth, Now, reverted)

\* The loop of the innermost call goes on.
Running == Depth > 0 /\ Top.status = "running"

\* Only the instructions that end their frame are not bounded.
Room == Len(ran) < MaxRun

\* The running instruction pushes events, and leaves its frame in a status.
Push(kind, events, status) ==
  /\ Running
  /\ status = "running" => Room
  /\ ran' = Append(ran, kind)
  /\ frames' = [frames EXCEPT ![Depth].events = @ \o events, ![Depth].steps = @ + 1,
                              ![Depth].status = status]
  /\ UNCHANGED <<trace, phase>>

-----------------------------------------------------------------------------
(* Instructions that are no calls: the event comes after what they did *)

Accounts == {<<>>, <<Account>>}

\* SLOAD, SSTORE and KECCAK256 push an event, the others none.
Plain == \E es \in Accounts : Push("plain", es \o <<Op(FALSE)>>, "running")

\* SELFDESTRUCT pushes nothing of its own.
SelfDestruct == Push("plain", <<Op(FALSE)>>, "stopped")

\* STOP, RETURN, REVERT.
End ==
  \E reverted \in BOOLEAN :
    Push("plain", <<Return(reverted), Op(FALSE)>>, IF reverted THEN "reverted" ELSE "stopped")

\* INVALID; a step that halts before it does anything or is not paid for after
\* it did.
Halt ==
  \E es \in Accounts \cup {<<Return(FALSE)>>, <<Return(TRUE)>>} :
    Push("plain", es \o <<Op(FALSE), Halted>>, "reverted")

\* (mutant) An SSTORE that halts is not told apart from other steps.
HaltSstoreTwice == Push("plain", <<Op(TRUE), Op(FALSE), Halted>>, "reverted")

\* An SSTORE without the gas for it pushes its own event.
HaltSstore == Push("plain", <<Op(TRUE), Halted>>, "reverted")

\* The step is an error: stack, static call, allocation, unknown opcode.
Fail == Push("plain", <<Op(TRUE)>>, "reverted")

\* The end of the code is traced as a STOP.
FallOff ==
  /\ Depth > 0
  /\ Top.steps > 0
  /\ Push("plain", <<Op(FALSE)>>, "stopped")

-----------------------------------------------------------------------------
(* Calls and creations: the event comes before those of the callee *)

\* execute_with_context: an empty code and a plain transfer run nothing.
Entered(depth, op, create, status) ==
  [ events |-> << Event("call", depth, 0, FALSE) >>, op |-> op, create |-> create, steps |-> 0,
    status |-> status ]

\* How a call at a depth starts.
EntryStatus(depth) == IF depth > DepthLimit THEN {"reverted"} ELSE {"running", "stopped"}

\* CALL, CALLCODE, DELEGATECALL and STATICCALL halt on every error.  Operands
\* that are missing or out of bounds leave no event of the instruction.
CallUnpriced == Push("unpriced", <<Halted>>, "reverted")

\* The base cost, or that of a precompile, is not paid.
CallUnpaid == Push("call", <<Op(FALSE), Halted>>, "reverted")

CallPrecompile == Push("call", <<Op(FALSE)>>, "running")

\* The events pushed before the callee runs, and its fork.
Enter(create, events) ==
  /\ Running
  /\ Room
  /\ \E status \in EntryStatus(Depth + 1) :
       frames' = Append([frames EXCEPT ![Depth].events = @ \o events],
                        Entered(Depth + 1, Now, create, status))
  /\ ran' = Append(ran, "call")
  /\ UNCHANGED <<trace, phase>>

\* SetValue of both accounts if value moves, GetCode.
Call == \E moves \in BOOLEAN :
  Enter(FALSE, IF moves THEN <<Account, Account, Account>> ELSE <<Account>>)

\* SetNonce.
Create == Enter(TRUE, <<Account>>)

Ended == Depth > 0 /\ Top.status # "running"

\* SetValue of both accounts if value moves, Create.
Deployed ==
  LET account == Event("account", Depth - 1, Top.op, FALSE)
  IN  { <<account>>, <<account, account, account>> }

\* (mutant) The caller's event comes after those of the callee.
LeaveJoinFirst ==
  /\ Ended
  /\ Depth > 1
  /\ \E es \in {<<>>} \cup (IF Top.create /\ Top.status = "stopped" THEN Deployed ELSE {}) :
       frames' = [i \in 1..(Depth - 1) |-> IF i < Depth - 1 THEN frames[i] ELSE
         [frames[i] EXCEPT
            !.steps  = @ + 1,
            !.events = Append(Join(@, Top.events, Top.status = "reverted"),
                              Event("op", Depth - 1, Top.op, FALSE)) \o es]]
  /\ UNCHANGED <<trace, ran, phase>>

\* The callee is over.  A creation that returned code pushes more events, unless
\* the code cannot be paid for.
Leave ==
  /\ Ended
  /\ Depth > 1
  /\ \E es \in {<<>>} \cup (IF Top.create /\ Top.status = "stopped" THEN Deployed ELSE {}) :
       frames' = [i \in 1..(Depth - 1) |-> IF i < Depth - 1 THEN frames[i] ELSE
         [frames[i] EXCEPT
            !.steps  = @ + 1,
            !.events = Join(Append(@, Event("op", Depth - 1, Top.op, FALSE)),
                            Top.events, Top.status = "reverted") \o es]]
  /\ UNCHANGED <<trace, ran, phase>>

-----------------------------------------------------------------------------
(* The transaction: Executor::execute, Runner::apply *)

\* SetValue of both accounts if value moves, SetNonce.
Begin ==
  LET account == Event("account", 1, 0, FALSE)
  IN  /\ phase = "idle"
      /\ phase' = "calling"
      /\ trace' \in { <<account>>, <<account, account, account>> }
      /\ \E status \in EntryStatus(1) : frames' = << Entered(1, 0, FALSE, status) >>
      /\ UNCHANGED ran

\* SetValue of the coinbase if it earns, the fee.
Finish ==
  LET account == Event("account", 1, 0, FALSE)
      fee     == Event("fee", 1, 0, FALSE)
  IN  /\ Ended
      /\ Depth = 1
      /\ phase = "calling"
      /\ \E es \in {<<fee>>, <<account, fee>>} :
           trace' = Join(trace, Top.events, Top.status = "reverted") \o es
      /\ frames' = <<>>
      /\ phase' = IF Top.status = "reverted" THEN "reverted" ELSE "called"
      /\ UNCHANGED ran

\* Runner::apply runs the init code of a creation in the executor itself: nothing
\* is forked or joined, and nothing else is traced.
BeginCreate ==
  /\ phase = "idle"
  /\ phase' = "creating"
  /\ \E status \in EntryStatus(1) : frames' = << Entered(1, 0, TRUE, status) >>
  /\ UNCHANGED <<trace, ran>>

FinishCreate ==
  /\ Ended
  /\ Depth = 1
  /\ phase = "creating"
  /\ trace' = Top.events
  /\ frames' = <<>>
  /\ phase' = "created"
  /\ UNCHANGED ran

\* The caller takes the trace; the next transaction has a tracer of its own.
Take ==
  /\ phase \in {"called", "reverted", "created"}
  /\ trace' = <<>>
  /\ ran' = <<>>
  /\ phase' = "idle"
  /\ UNCHANGED frames

-----------------------------------------------------------------------------

Init ==
  /\ trace = <<>>
  /\ frames = <<>>
  /\ ran = <<>>
  /\ phase = "idle"

Next ==
  \/ Plain
  \/ SelfDestruct
  \/ End
  \/ Halt
  \/ HaltSstore
  \/ Fail
  \/ FallOff
  \/ CallUnpriced
  \/ CallUnpaid
  \/ CallPrecompile
  \/ Call
  \/ Create
  \/ Leave
  \/ Begin
  \/ Finish
  \/ BeginCreate
  \/ FinishCreate
  \/ Take

Spec == Init /\ [][Next]_vars

-----------------------------------------------------------------------------
(* Properties *)

\* The trace as it will be, but for the flags: the buffers under way joined, each
\* after the event of the call that waits for it.
Whole ==
  LET upto[d \in 0..Depth] ==
        IF d = 0 THEN trace
        ELSE upto[d - 1] \o (IF d = 1 THEN <<>> ELSE << Event("op", d - 1, frames[d].op, FALSE) >>)
               \o frames[d].events
  IN  upto[Depth]

\* Every instruction is traced once, in the order in which they started, a call
\* before the instructions of its callee, whatever way calls and instructions
\* end: the traces of two machines can be compared event by event, as runner.rs
\* does.  Only a call instruction that fails on its operands is missing.
ProgramOrder ==
  LET w   == Whole
      Ops == {i \in DOMAIN w : w[i].kind = "op"}
  IN  /\ \A i, j \in Ops : i < j => w[i].op < w[j].op
      /\ {w[i].op : i \in Ops} = {n \in DOMAIN ran : ran[n] # "unpriced"}

\* The depths of a trace are those of a tree of calls: it deepens only by a call
\* event, which directly follows the event of the calling instruction, a call that
\* has halted adds nothing more, and a call beyond the limit of the depth nothing
\* but its call event.
CallTree ==
  LET w == Whole
  IN  /\ \A i \in DOMAIN w : w[i].depth > DepthLimit => w[i].kind = "call"
      /\ \A i \in 1..(Len(w) - 1) :
            /\ w[i + 1].kind = "call" /\ w[i + 1].depth > 1 =>
                 /\ w[i].kind = "op" /\ ran[w[i].op] = "call"
                 /\ w[i].depth = w[i + 1].depth - 1
            /\ w[i + 1].depth > w[i].depth => w[i + 1].kind = "call"
            /\ w[i].kind = "halt" => w[i + 1].depth < w[i].depth \/ w[i + 1].op = 0

\* In the complete trace of a call the flags tell what became of the transaction:
\* no event is flagged as reverted if it succeeded, and all events of the execution
\* are if it was reverted.  They do not tell what became of an inner call: every
\* join overwrites the flags that the events below had.
FlagsAgree ==
  /\ phase = "called" => \A i \in DOMAIN trace : ~trace[i].reverted
  /\ phase = "reverted" => \A i \in DOMAIN trace :
       trace[i].kind = "call" \/ trace[i].op # 0 => trace[i].reverted

\* An event of a call that halted is flagged as reverted in the complete trace.
HaltsFlagged ==
  phase \in {"called", "reverted"} =>
    \A i \in DOMAIN trace : trace[i].kind = "halt" => trace[i].reverted

\* What a Return event says of its call holds: a call that reports a success is
\* not undone.
ReturnsTrue ==
  \A d \in 1..Depth : frames[d].status = "reverted" =>
    \A i \in DOMAIN frames[d].events :
      LET e == frames[d].events[i] IN e.kind = "return" /\ e.depth = d => e.reverted
=============================================================================
