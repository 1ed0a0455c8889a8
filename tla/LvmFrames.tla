----------------------------- MODULE LvmFrames -----------------------------
(***************************************************************************)
(* The call frames of the Lua VM (core/vm/lvm.go): one transaction enters  *)
(* LVM.Call, and its contract code may write storage, move value, deploy   *)
(* contracts and call other contracts in nested frames.  The contract code *)
(* is unknown, so the frame on top of the stack takes any of these steps   *)
(* in any order.  A frame ends by returning or by an error nobody caught;  *)
(* an error a host function raises may also be caught by a Lua pcall, and  *)
(* the frame then goes on.                                                 *)
(*                                                                         *)
(* A state change is named by the number of the operation that made it     *)
(* (stateDB.ops), so that a rollback to a snapshot is visible.  Gas is     *)
(* counted in uint64 arithmetic (Word), in units small enough to           *)
(* enumerate.                                                              *)
(***************************************************************************)
EXTENDS Integers, Sequences, FiniteSets, Functions

CONSTANTS
    Contracts,      \* accounts with contract code
    Plain,          \* an account without code
    NotCallable,    \* contracts whose lease no longer allows a call
    Unpublished,    \* contracts whose code is no published package
    Entry,          \* the contract the transaction calls
    Endowment,      \* balance of every contract before the transaction
    Gas,            \* gas of the transaction
    Word,           \* 2^64: gas arithmetic wraps at this number
    GasFraction,    \* 64: the parent keeps 1/64 of its gas in a call
    SStoreGas, TransferGas, DeployGas,
    MaxCallDepth,   \* 8: maxCallDepth
    Explicit        \* gas amounts a call may name explicitly

ASSUME FramesAssumption ==
    /\ Entry \in Contracts \ NotCallable
    /\ Plain \notin Contracts
    /\ {Gas, GasFraction, SStoreGas, TransferGas, DeployGas} \subseteq Nat \ {0}
    /\ Endowment \in Nat /\ MaxCallDepth \in Nat
    /\ Word \in Nat /\ Word > 2 * Gas
    /\ Explicit \subseteq Nat

Holders == Contracts \cup {Plain}
None == -1                      \* no explicit gas argument
Salt == -2                      \* stands for the nonce in a CREATE2 address
GasArgs == Explicit \cup {None}

VARIABLES
    stateDB,   \* ops: operations in effect; bal: balances; nonce, code: deployments
    stack,     \* frames, the running one last
    charged,   \* gas the transaction paid, None while it runs
    work,      \* history: gas units spent in all frames, dead ones included
    writes     \* history: the writes to keep: number and enclosing scopes

framesVars == <<stateDB, stack, charged, work, writes>>

NoBatch == [scope |-> 0, snap |-> [ops |-> {}], queue |-> <<>>]

(* CallCtx and the gas counters Execute keeps for its frame. *)
Frame(self, kind, readonly, depth, gas, snap, scope) ==
    [self |-> self, kind |-> kind, readonly |-> readonly, depth |-> depth,
     limit |-> gas, ceiling |-> gas, used |-> 0, child |-> 0, prim |-> 0,
     snap |-> snap, scope |-> scope, batch |-> NoBatch]

Top == stack[Len(stack)]
WithTop(f) == [stack EXCEPT ![Len(stack)] = f]
Below == SubSeq(stack, 1, Len(stack) - 1)
Spent(f) == f.used + f.child + f.prim
InBatch(f) == f.batch.scope # 0

(* The scopes an operation of the running frame lies in. *)
Scopes == UNION {{stack[i].scope, stack[i].batch.scope} : i \in DOMAIN stack}

(* A number no operation or scope in sight has. *)
Fresh ==
    LET taken == stateDB.ops \cup Scopes \cup {w.op : w \in writes}
                 \cup UNION {stack[i].snap.ops \cup stack[i].batch.snap.ops : i \in DOMAIN stack}
    IN  CHOOSE n \in 1..(Cardinality(taken) + 1) : n \notin taken

(* History: when scopes end, their writes pass to the scopes around them,  *)
(* or are no longer to be kept if the scopes failed.                       *)
Close(ok, scopes) ==
    writes' = IF ok THEN {[w EXCEPT !.in = @ \ scopes] : w \in writes}
              ELSE {w \in writes : w.in \cap scopes = {}}

Sub64(a, b) == (a - b) % Word

----------------------------------------------------------------------------
(* Gas. *)

(* One opcode of the interpreter, the call of a host function included.    *)
CanTick(f) == f.used < f.ceiling
Tick(f) == [f EXCEPT !.used = @ + 1]

CanCharge(f, cost) == cost <= Sub64(Sub64(Sub64(f.limit, f.used), f.child), f.prim)

(* chargePrimGas: a primitive also lowers the ceiling of the opcodes. *)
Charge(f, cost) ==
    LET prim == f.prim + cost
        newCeiling == Sub64(Sub64(f.limit, f.child), prim)
    IN  [f EXCEPT !.prim = prim,
                  !.ceiling = IF f.used <= newCeiling THEN newCeiling ELSE f.used]

childFrameGasLimit(available, explicit) ==
    LET defaultLimit == available - available \div GasFraction
    IN  IF explicit # None /\ explicit < defaultLimit THEN explicit ELSE defaultLimit

(* Mutant: the parent's own primitives are counted out of its ceiling twice. *)
AbsorbTwice(f, childGasUsed) ==
    LET child == f.child + childGasUsed
        newTotalUsed == f.used + child + f.prim
    IN  [f EXCEPT !.child = child,
                  !.ceiling = IF newTotalUsed + f.prim < f.limit
                              THEN f.used + (f.limit - newTotalUsed - f.prim)
                              ELSE f.used]

(* The parent takes over what its child spent, whether or not it failed.   *)
Absorb(f, childGasUsed) ==
    LET child == f.child + childGasUsed
        newTotalUsed == f.used + child + f.prim
    IN  [f EXCEPT !.child = child,
                  !.ceiling = IF newTotalUsed < f.limit
                              THEN f.used + (f.limit - newTotalUsed)
                              ELSE f.used]

----------------------------------------------------------------------------
(* State. *)

Move(b, from, to, v) == [[b EXCEPT ![from] = @ - v] EXCEPT ![to] = @ + v]
CanPay(from, v) == stateDB.bal[from] >= v

(* The running frame makes a state change under the number op. *)
Wrote(op, scopes) == writes' = writes \cup {[op |-> op, in |-> scopes]}

----------------------------------------------------------------------------
(* How a frame ends. *)

(* Mutant: only a frame that returned normally is charged to its parent. *)
ResumeCharged(ok, f) == IF ok THEN Spent(f) ELSE 0

ChildCharge(ok, f) == Spent(f)

(* LVM.Call: an error undoes everything and takes all the gas. *)
EndTx(ok, f) ==
    /\ stack' = <<>>
    /\ stateDB' = IF ok THEN stateDB ELSE f.snap
    /\ charged' = IF ok THEN Spent(f) ELSE f.limit
    /\ Close(ok, {f.scope})

(* What tos.call, tos.package_call and tos.delegatecall leave behind.      *)
AfterCall(ok, f) == IF ok THEN stateDB ELSE f.snap

(* tos.staticcall restores the state in any case. *)
AfterStatic(ok, f) == f.snap

(* Mutant: a failing entry of a batch undoes only itself. *)
UndoEntryOnly(ok, parent, f) == IF ok THEN stateDB ELSE f.snap

(* An entry of tos.multicall: its failure undoes the whole batch. *)
AfterEntry(ok, parent, f) == IF ok THEN stateDB ELSE parent.batch.snap

EndNested(ok, f) ==
    LET parent == Absorb(Below[Len(Below)], ChildCharge(ok, f))
        closed == IF f.kind = "entry" /\ ~ok THEN {f.scope, parent.batch.scope} ELSE {f.scope}
    IN  /\ stateDB' = CASE f.kind = "static" -> AfterStatic(ok, f)
                   [] f.kind = "entry" -> AfterEntry(ok, parent, f)
                   [] OTHER -> AfterCall(ok, f)
        /\ Close(ok, closed)
        /\ stack' = [Below EXCEPT ![Len(Below)] =
                        IF f.kind = "entry" /\ ~ok
                        THEN [parent EXCEPT !.batch = NoBatch]
                        ELSE parent]
        /\ UNCHANGED charged

End(ok, f) == IF Len(stack) = 1 THEN EndTx(ok, f) ELSE EndNested(ok, f)

(* A host function raises an error: a pcall of the contract catches it, or *)
(* the frame ends.  f is the frame with the gas charged so far.            *)
Raise(f) ==
    \/ stack' = WithTop(f) /\ UNCHANGED <<stateDB, charged, writes>>
    \/ End(FALSE, f)

(* A host function answers "false, nil": no state changes. *)
SoftFalse(f) == stack' = WithTop(f) /\ UNCHANGED <<stateDB, charged, writes>>

----------------------------------------------------------------------------
(* Steps of the running frame. *)

Running == stack # <<>> /\ ~InBatch(Top)

(* Execute and tolDispatch return without error, or through tos.result. *)
Return == Running /\ End(TRUE, Top) /\ UNCHANGED work

(* The code does not load or no contract of the package answers the        *)
(* dispatch tag, the contract raises an error, or the next opcode is over  *)
(* the ceiling (a pcall would need another opcode to go on).               *)
Abort == Running /\ End(FALSE, Top) /\ UNCHANGED work

Opcode ==
    /\ Running /\ CanTick(Top)
    /\ work' = work + 1
    /\ SoftFalse(Tick(Top))

(* A host function that may change state needs an opcode, is refused in a  *)
(* static frame, and charges its primitive cost.                           *)
CanStep == Running /\ CanTick(Top)

Refused(cost) ==
    /\ CanStep
    /\ Top.readonly \/ ~CanCharge(Tick(Top), cost)
    /\ work' = work + 1
    /\ Raise(Tick(Top))

Admitted(cost) ==
    /\ CanStep
    /\ ~Top.readonly
    /\ CanCharge(Tick(Top), cost)
    /\ work' = work + 1 + cost

Paying(cost) == Charge(Tick(Top), cost)

(* tos.sstore *)
Stored(f) ==
    /\ stateDB' = [stateDB EXCEPT !.ops = @ \cup {Fresh}]
    /\ Wrote(Fresh, Scopes)
    /\ stack' = WithTop(f)
    /\ UNCHANGED charged

HostSstore ==
    \/ Refused(SStoreGas)
    \/ Admitted(SStoreGas) /\ Stored(Paying(SStoreGas))

(* tos.transfer, tos.host_transfer *)
Sent(to, v, f) ==
    IF ~CanPay(f.self, v)
    THEN Raise(f)
    ELSE /\ stateDB' = [stateDB EXCEPT !.ops = @ \cup {Fresh}, !.bal = Move(@, f.self, to, v)]
         /\ Wrote(Fresh, Scopes)
         /\ stack' = WithTop(f)
         /\ UNCHANGED charged

HostTransfer(to, v) ==
    \/ Refused(TransferGas)
    \/ Admitted(TransferGas) /\ Sent(to, v, Paying(TransferGas))

(* deriveRawDeployAddress: CREATE takes the nonce of the deployer, CREATE2 *)
(* the salt and the code, of which there is one here.                      *)
CreateAddress(f) == <<f.self, stateDB.nonce[f.self]>>
CreateAddress2(f) == <<f.self, Salt>>

(* deployRawContract: nonce, deposit, value, account and code are written  *)
(* under one snapshot, which a failing lease.Activate restores.  The value *)
(* and the deposit go to accounts none of whose code runs in this          *)
(* transaction; they stand with Plain.                                     *)
Deployed(newAddr, cost, activates, f) ==
    IF newAddr \in stateDB.code \/ ~CanPay(f.self, cost) \/ ~activates
    THEN Raise(f)
    ELSE /\ stateDB' = [stateDB EXCEPT !.ops = @ \cup {Fresh},
                             !.bal = Move(@, f.self, Plain, cost),
                             !.nonce[f.self] = @ + 1,
                             !.code = @ \cup {newAddr}]
         /\ Wrote(Fresh, Scopes)
         /\ stack' = WithTop(f)
         /\ UNCHANGED charged

(* The depth check of the deployments, and the deployment. *)
Deployment(newAddr, cost, activates) ==
    \/ CanStep /\ Top.depth >= MaxCallDepth /\ work' = work + 1 /\ Raise(Tick(Top))
    \/ CanStep /\ Top.depth < MaxCallDepth /\ Refused(DeployGas)
    \/ /\ CanStep /\ Top.depth < MaxCallDepth
       /\ Admitted(DeployGas)
       /\ Deployed(newAddr, cost, activates, Paying(DeployGas))

(* tos.create, tos.create2: code and an optional value. *)
Create(v) == Deployment(CreateAddress(Top), v, TRUE)
Create2(v) == Deployment(CreateAddress2(Top), v, TRUE)

(* tos.createx, tos.create2x: the cost includes the lease deposit, and the *)
(* lease may not activate.                                                 *)
CreateX(activates) == Deployment(CreateAddress(Top), 1, activates)
Create2X(activates) == Deployment(CreateAddress2(Top), 1, activates)

----------------------------------------------------------------------------
(* Calls. *)

Enter(callee, kind, readonly, gas, value, f) ==
    LET scope == Fresh
    IN  /\ stateDB' = IF value > 0
                 THEN [stateDB EXCEPT !.ops = @ \cup {scope},
                                 !.bal = Move(@, f.self, callee, value)]
                 ELSE stateDB
        /\ IF value > 0
           THEN Wrote(scope, Scopes \cup (IF callee \in Contracts THEN {scope} ELSE {}))
           ELSE UNCHANGED writes
        /\ stack' = IF callee \in Contracts
                    THEN Append(WithTop(f),
                                Frame(IF kind = "delegate" THEN f.self ELSE callee, kind,
                                      readonly, f.depth + 1, gas, stateDB, scope))
                    ELSE WithTop(f)
        /\ UNCHANGED charged

(* The checks every call makes before it computes the gas of its child. *)
CallRefused(callee) ==
    /\ CanStep
    /\ work' = work + 1
    /\ \/ Top.depth >= MaxCallDepth /\ Raise(Tick(Top))
       \/ Top.depth < MaxCallDepth /\ callee \in NotCallable /\ SoftFalse(Tick(Top))

CallChecked(callee) ==
    /\ CanStep
    /\ work' = work + 1
    /\ Top.depth < MaxCallDepth
    /\ callee \notin NotCallable

Available(f) == f.limit - Spent(f)

(* A frame with nothing left raises "out of gas", else the child gets a    *)
(* share of what is left.                                                  *)
EnterWithGas(callee, kind, readonly, explicit, value, f) ==
    IF Spent(f) >= f.limit
    THEN Raise(f)
    ELSE Enter(callee, kind, readonly, childFrameGasLimit(Available(f), explicit), value, f)

(* Mutant: the call of a host function costs no opcode. *)
FreeCall(callee, v, explicit) ==
    /\ Running /\ Top.depth < MaxCallDepth /\ callee \notin NotCallable
    /\ UNCHANGED work
    /\ Enter(callee, "call", Top.readonly, childFrameGasLimit(Available(Top), explicit), 0, Top)

(* tos.call *)
Call(callee, v, explicit) ==
    LET f == Tick(Top)
    IN  \/ CallRefused(callee)
        \/ /\ CallChecked(callee)
           /\ IF \/ f.readonly /\ v > 0
                 \/ Spent(f) < f.limit /\ ~CanPay(f.self, v)
              THEN SoftFalse(f)
              ELSE EnterWithGas(callee, "call", f.readonly, explicit, v, f)

(* tos.staticcall *)
Staticcall(callee, explicit) ==
    \/ CallRefused(callee)
    \/ CallChecked(callee) /\ EnterWithGas(callee, "static", TRUE, explicit, 0, Tick(Top))

(* Mutant: a delegatecall forgets that it runs inside a staticcall. *)
DelegateWrites(callee, explicit) ==
    \/ CallRefused(callee)
    \/ CallChecked(callee) /\ EnterWithGas(callee, "delegate", FALSE, explicit, 0, Tick(Top))

(* tos.delegatecall: foreign code in the caller's own account. *)
Delegatecall(callee, explicit) ==
    \/ CallRefused(callee)
    \/ /\ CallChecked(callee)
       /\ EnterWithGas(callee, "delegate", Top.readonly, explicit, 0, Tick(Top))

(* tos.package_call: only published packages answer. *)
PackageCall(callee, explicit) ==
    LET f == Tick(Top)
    IN  \/ CallRefused(callee)
        \/ /\ CallChecked(callee)
           /\ IF Spent(f) < f.limit /\ callee \notin Contracts \ Unpublished
              THEN SoftFalse(f)
              ELSE EnterWithGas(callee, "call", f.readonly, explicit, 0, f)

(* tos.multicall takes one snapshot for all its entries ... *)
Multicall(queue) ==
    /\ Running /\ CanTick(Top)
    /\ work' = work + 1
    /\ LET f == Tick(Top)
       IN  IF f.readonly \/ f.depth >= MaxCallDepth
           THEN Raise(f)
           ELSE /\ stack' = WithTop([f EXCEPT !.batch =
                       [scope |-> Fresh, snap |-> stateDB, queue |-> queue]])
                /\ UNCHANGED <<stateDB, charged, writes>>

(* ... whose loop leaves early with the snapshot restored: with an error   *)
(* (raises) or with the answer "false" ...                                 *)
LeaveBatch(raises) ==
    LET f == [Top EXCEPT !.batch = NoBatch]
    IN  \/ /\ stateDB' = Top.batch.snap
           /\ stack' = WithTop(f)
           /\ Close(FALSE, {Top.batch.scope})
           /\ UNCHANGED charged
        \/ raises /\ End(FALSE, f)

(* ... or runs the next entry ... *)
BatchEntry ==
    /\ stack # <<>> /\ InBatch(Top) /\ Top.batch.queue # <<>>
    /\ UNCHANGED work
    /\ LET e == Head(Top.batch.queue)
           f == [Top EXCEPT !.batch.queue = Tail(@)]
       IN  CASE e.malformed -> LeaveBatch(TRUE)
             [] ~e.malformed /\ e.to \in NotCallable -> LeaveBatch(FALSE)
             [] ~e.malformed /\ e.to \notin NotCallable /\ Spent(f) >= f.limit -> LeaveBatch(TRUE)
             [] OTHER ->
                  IF ~CanPay(f.self, e.value)
                  THEN LeaveBatch(FALSE)
                  ELSE Enter(e.to, "entry", f.readonly,
                             childFrameGasLimit(Available(f), None), e.value, f)

(* ... and ends when all entries succeeded. *)
BatchDone ==
    /\ stack # <<>> /\ InBatch(Top) /\ Top.batch.queue = <<>>
    /\ stack' = WithTop([Top EXCEPT !.batch = NoBatch])
    /\ Close(TRUE, {Top.batch.scope})
    /\ UNCHANGED <<stateDB, charged, work>>

----------------------------------------------------------------------------
FramesInit ==
    /\ \E v \in 0..1 :
          stateDB = [ops |-> IF v > 0 THEN {1} ELSE {},
                bal |-> [a \in Holders |-> IF a = Entry THEN Endowment + v ELSE Endowment],
                nonce |-> [a \in Contracts |-> 0], code |-> {}]
    /\ LET before == [stateDB EXCEPT !.ops = {}, !.bal = [a \in Holders |-> Endowment]]
       IN  stack = <<Frame(Entry, "call", FALSE, 1, Gas, before, 1)>>
    /\ charged = None
    /\ work = 0
    /\ writes = {[op |-> o, in |-> {1}] : o \in stateDB.ops}

Malformed == [to |-> Plain, value |-> 0, malformed |-> TRUE]
Entries == [to : Holders, value : {1}, malformed : {FALSE}] \cup {Malformed}

(* The transaction is over. *)
Ended == stack = <<>> /\ UNCHANGED framesVars

FramesNext ==
    \/ Return \/ Abort \/ Opcode \/ HostSstore \/ BatchEntry \/ BatchDone \/ Ended
    \/ \E a \in Holders : HostTransfer(a, 1)
    \/ Create(0) \/ Create2(0)
    \/ \E activates \in BOOLEAN : CreateX(activates) \/ Create2X(activates)
    \/ \E a \in Holders, v \in {0, 1}, g \in GasArgs : Call(a, v, g)
    \/ \E a \in Holders, g \in GasArgs :
          Staticcall(a, g) \/ Delegatecall(a, g) \/ PackageCall(a, g)
    \/ \E e1, e2 \in Entries : Multicall(<<e1, e2>>)

(* The interpreter runs until the transaction ends. *)
FramesSpec == FramesInit /\ [][FramesNext]_framesVars /\ WF_framesVars(FramesNext)

----------------------------------------------------------------------------
(* Properties. *)

(* The invariant chargePrimGas and the calls of Execute say they maintain: *)
(* the opcode ceiling of a frame is its limit less what its children and   *)
(* primitives took.  The branches for an exhausted budget never break it.  *)
CeilingExact ==
    \A i \in DOMAIN stack :
        stack[i].ceiling = stack[i].limit - stack[i].child - stack[i].prim

(* Gas spent in the first n frames.                                        *)
SpentBy(frames, n) == SumFunctionOnSet([i \in 1..n |-> Spent(frames[i])], 1..n)

(* Gas is neither lost nor invented across nested calls, failed ones       *)
(* included: what all frames ever spent is what the frames on the stack    *)
(* account for, it stays within the transaction's gas at every moment, and *)
(* the transaction pays for all of it.                                     *)
GasAccounted ==
    /\ work <= Gas
    /\ stack # <<>> => work = SpentBy(stack, Len(stack))
    /\ stack = <<>> => work <= charged /\ charged <= Gas

(* The state holds exactly the changes whose frame, batch and all frames   *)
(* around them did not fail: a failing callee, batch entry or deployment   *)
(* leaves nothing behind, not even the value of its call, and a caught     *)
(* failure takes nothing from its caller.                                  *)
CommittedEffects ==
    stateDB.ops = {w.op : w \in writes}

(* While a static frame is on the stack, nothing below or above it changes *)
(* the state: the readonly mark reaches every frame the callee opens.      *)
ReadonlyNeverWrites ==
    [][(\E i \in DOMAIN stack : stack[i].readonly) => stateDB' = stateDB]_framesVars

(* Nested contract calls with any mixture of failures: the opcode ceiling  *)
(* of every frame is exact, gas is spent once and paid for, and the        *)
(* effects that remain are those of the frames that all succeeded.         *)
FramesSound == CeilingExact /\ GasAccounted /\ CommittedEffects

(* Gas makes every execution end, whatever the contracts call. *)
Halts == <>(stack = <<>>)
=============================================================================
