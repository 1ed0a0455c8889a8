--------------------------- MODULE ParallelExecutor ---------------------------
(***************************************************************************)
(* Execution of the transactions of a block in parallel levels (package    *)
(* core/parallel).                                                         *)
(*                                                                         *)
(* AnalyzeTx gives every transaction an access set, BuildLevels a level.   *)
(* The transactions of a level run concurrently, each on its own copy of   *)
(* the state, and are merged in index order: balances as differences, all  *)
(* else as written.                                                        *)
(***************************************************************************)
EXTENDS SerialExecutor, FiniteSetsExt

VARIABLES
    level,     \* level being executed
    base,      \* statedb when the level started: what the copies hold
    results    \* goroutineResults of the level, by index

executorVars == <<serialVars, level, base, results>>

-----------------------------------------------------------------------------
sponsorOf(msg) == IF msg.sponsor = NoSponsor THEN {} ELSE {msg.sponsor}

(* Mutant: a sponsor is not part of the access set.                        *)
WithoutSponsor(msg, hasCode) ==
    LET serial == msg.to \in {Create} \cup Natives \cup hasCode
    IN  [writes |-> {msg.from, msg.to} \cup (IF serial THEN {LVMSerial} ELSE {}),
         reads  |-> IF serial THEN {} ELSE {LVMSerial}, slots |-> {}]

(* AnalyzeTx: the access set, from the code that is there before the block. *)
AnalyzeTx(msg, hasCode) ==
    LET payers == {msg.from} \cup sponsorOf(msg)
        touched ==
            CASE msg.to = Create ->
                    [writes |-> {target(msg), LVMSerial}, reads |-> {target(msg)}]
              [] msg.to = SystemAction ->
                    [writes |-> {ValidatorRegistry, LVMSerial}, reads |-> {}]
              [] msg.to = SlashIndicator ->
                    [writes |-> {SlashIndicator, LVMSerial}, reads |-> {ValidatorRegistry}]
              [] OTHER ->
                    [writes |-> {msg.to} \cup (IF msg.to \in hasCode THEN {LVMSerial} ELSE {}),
                     reads  |-> {msg.to, LVMSerial}]
    IN  [writes |-> payers \cup touched.writes,
         reads  |-> sponsorOf(msg) \cup touched.reads,
         slots  |-> sponsorOf(msg)]

Conflicts(x, y) ==
    \/ x.writes \cap (y.reads \cup y.writes) # {}
    \/ y.writes \cap (x.reads \cup x.writes) # {}
    \/ x.slots \cap y.slots # {}

(* The level of every transaction: above the ones it conflicts with, and   *)
(* never below the one before.                                             *)
LevelOf(lvl, sets, i) ==
    IF i = 1 THEN 0
    ELSE Max({lvl[i - 1]} \cup {lvl[j] + 1 : j \in {k \in 1 .. i - 1 : Conflicts(sets[i], sets[k])}})

BuildLevels(sets) ==
    LET lvl[i \in DOMAIN sets] == LevelOf(lvl, sets, i)
    IN  lvl

hasCoinbaseSender(ms, cb) == \E i \in DOMAIN ms : ms[i].from = cb \/ ms[i].sponsor = cb

serialLevels(ms) == [i \in DOMAIN ms |-> i - 1]

Levels(ms, cb, hasCode) ==
    IF hasCoinbaseSender(ms, cb) THEN serialLevels(ms)
    ELSE BuildLevels([i \in DOMAIN ms |-> AnalyzeTx(ms[i], hasCode)])

InLevel == {i \in DOMAIN msgs : Levels(msgs, coinbase, Genesis.code)[i] = level}

-----------------------------------------------------------------------------
Overlaid(buf, parent, dst) == [x \in DOMAIN dst |-> IF buf[x] # parent[x] THEN buf[x] ELSE dst[x]]

(* Merge of a copy into dst: differences of balances, the values of what   *)
(* was written otherwise.                                                  *)
Merge(dst, parent, buf) ==
    [bal       |-> [x \in Accounts |-> dst.bal[x] + (buf.bal[x] - parent.bal[x])],
     nonce     |-> Overlaid(buf.nonce, parent.nonce, dst.nonce),
     sponsored |-> Overlaid(buf.sponsored, parent.sponsored, dst.sponsored),
     code      |-> dst.code \cup buf.code,
     slot      |-> Overlaid(buf.slot, parent.slot, dst.slot)]

ParallelInit ==
    /\ SerialInit
    /\ level = 0
    /\ base = Genesis
    /\ results = <<>>

BlockFills == Include /\ UNCHANGED <<level, base, results>>

(* The goroutine of transaction i, on its copy of the state.               *)
Run(i) ==
    /\ Filled /\ ~failed
    /\ i \in InLevel \ DOMAIN results
    /\ results' = [j \in DOMAIN results \cup {i} |->
                      IF j # i THEN results[j]
                      ELSE [ok |-> CanApply(msgs[i], base),
                            st |-> ApplyMessage(msgs[i], base, coinbase)]]
    /\ UNCHANGED <<serialVars, level, base>>

(* After wg.Wait: merge the next transaction, or return an error.          *)
MergeNext ==
    LET i == merged + 1
    IN  /\ Filled /\ ~failed
        /\ i \in InLevel
        /\ InLevel \subseteq DOMAIN results
        /\ \/ /\ ~results[i].ok \/ OutOfGas
              /\ failed' = TRUE
              /\ UNCHANGED <<statedb, merged, gp>>
           \/ /\ results[i].ok /\ ~OutOfGas
              /\ gp' = gp - UsedGas
              /\ statedb' = Merge(statedb, base, results[i].st)
              /\ merged' = i
              /\ UNCHANGED failed
        /\ UNCHANGED <<coinbase, msgs, level, base, results>>

(* The level is merged: the copies of the next one are taken.              *)
NextLevel ==
    /\ Filled /\ ~failed
    /\ merged < Len(msgs)
    /\ InLevel \subseteq 1 .. merged
    /\ level' = level + 1
    /\ base' = statedb
    /\ UNCHANGED <<serialVars, results>>

Executed ==
    /\ failed \/ merged = TxsPerBlock
    /\ UNCHANGED executorVars

ParallelNext ==
    \/ BlockFills
    \/ \E i \in DOMAIN msgs : Run(i)
    \/ MergeNext
    \/ NextLevel
    \/ Executed

ParallelSpec == ParallelInit /\ [][ParallelNext]_executorVars

-----------------------------------------------------------------------------
(* Parallel execution is one-by-one execution: every merge is the step     *)
(* that executeTransactionsSerial takes with that transaction, on the same *)
(* state, gas pool and outcome, and the rest of the work changes nothing.  *)
ParallelIsSerial == SerialSpec
==============================================================================
