---------------------------- MODULE TaskScheduler ----------------------------
(***************************************************************************)
(* Scheduled tasks (package task): contracts deposit gas for a callback at *)
(* a later block; ProcessDueTasks runs what is due before the transactions *)
(* of a block.                                                             *)
(*                                                                         *)
(* A block begins with DequeueTasksAt, then runs one action per iteration  *)
(* of the loops of ProcessDueTasks, then transactions.  Nothing interleaves*)
(* with the loops but the callbacks themselves.  The gas price is 1.       *)
(***************************************************************************)
EXTENDS Integers, FiniteSets, Sequences, Functions

CONSTANTS
    Schedulers,          \* contracts that schedule tasks
    SchedulerFunds,      \* what each of them has at the beginning
    GasLimits,           \* gas_limit values asked for
    Delays,              \* delay_blocks values
    Intervals,           \* interval_blocks values, 0 for one-shot
    RunLimits,           \* max_runs values, 0 for unlimited
    TaskMaxGasLimit,
    TaskMaxPerBlock,
    TaskMaxPerContract,
    TaskMaxHorizon,      \* longest interval TASK_SCHEDULE admits
    BlockGasLimit,
    SelfCancel,          \* may a callback cancel the task that runs it?
    Uint64Max,           \* stands for 2^64 - 1
    LastTaskBlock,       \* bound on block numbers
    MaxTasks             \* bound on the tasks ever scheduled

(* Block gas limits are above what a full block of tasks may reserve: 50   *)
(* tasks of 500,000 gas against 30,000,000.                                *)
ASSUME TaskAssumption ==
    /\ SchedulerFunds \in Nat
    /\ GasLimits \subseteq 1 .. TaskMaxGasLimit
    /\ TaskMaxGasLimit \in Nat /\ TaskMaxPerBlock \in Nat /\ BlockGasLimit \in Nat
    /\ TaskMaxPerBlock * TaskMaxGasLimit <= BlockGasLimit
    /\ Uint64Max \in Nat /\ LastTaskBlock \in 1 .. Uint64Max - 1
    /\ \A d \in Delays : d \in Nat \ {0} /\ LastTaskBlock + d <= Uint64Max
    /\ Intervals \subseteq 0 .. Uint64Max
    /\ RunLimits \subseteq Nat
    /\ SelfCancel \in BOOLEAN

VARIABLES
    contractBalance,   \* balances of the contracts
    schedulerBalance,  \* balance of params.TaskSchedulerAddress
    tasks,             \* task records by id
    queue,             \* per block number, the ids queued for it
    active,            \* the per-contract count of active tasks
    taskNonce,         \* the per-contract schedule nonce
    blockNum,          \* block being executed
    due,               \* what is left of taskIds in ProcessDueTasks
    processed,         \* tasks executed in this block
    blockGas           \* what is left in the gas pool of the block

taskVars == <<contractBalance, schedulerBalance, tasks, queue, active, taskNonce,
              blockNum, due, processed, blockGas>>

TaskPending   == "pending"
TaskDone      == "done"
TaskCancelled == "cancelled"
TaskExpired   == "expired"

IsPending(id) == id \in DOMAIN tasks /\ tasks[id].status = TaskPending
PendingTasks  == {id \in DOMAIN tasks : tasks[id].status = TaskPending}
TasksOf(c)    == {id \in PendingTasks : tasks[id].scheduler = c}

(* The deposit that each record stands for.                                *)
Deposits == [id \in DOMAIN tasks |-> tasks[id].gasLimit]

NewTaskID(scheduler, targetBlock, n) == <<scheduler, targetBlock, n>>

WriteTask(ts, id, rec) == [x \in DOMAIN ts \cup {id} |-> IF x = id THEN rec ELSE ts[x]]
EnqueueTask(q, block, id) == [q EXCEPT ![block] = Append(@, id)]

(* Mutant: a task that ends stays counted.                                 *)
StillCounted(a, n) == a

(* AdjustActiveCount by -n, one at a time and never below zero.            *)
Decrement(a, n) == IF a > n THEN a - n ELSE 0

-----------------------------------------------------------------------------
(* What TASK_SCHEDULE and tos.schedule share once the input is validated.  *)
(* A callback cannot add a task: tos.schedule logs, and a callback that    *)
(* logs is reverted.                                                       *)
AddTask(c, gasLimit, delay, interval, maxRuns) ==
    LET target == blockNum + delay
        id     == NewTaskID(c, target, taskNonce[c])
    IN  /\ due = <<>>
        /\ Cardinality(DOMAIN tasks) < MaxTasks
        /\ active[c] < TaskMaxPerContract
        /\ contractBalance[c] >= gasLimit
        /\ contractBalance' = [contractBalance EXCEPT ![c] = @ - gasLimit]
        /\ schedulerBalance' = schedulerBalance + gasLimit
        /\ taskNonce' = [taskNonce EXCEPT ![c] = @ + 1]
        /\ tasks' = WriteTask(tasks, id,
                       [scheduler |-> c, gasLimit |-> gasLimit, nextBlock |-> target,
                        interval |-> interval, maxRuns |-> maxRuns, runs |-> 0,
                        status |-> TaskPending])
        /\ queue' = EnqueueTask(queue, target, id)
        /\ active' = [active EXCEPT ![c] = @ + 1]
        /\ UNCHANGED <<blockNum, due, processed, blockGas>>

(* TASK_SCHEDULE bounds the interval.                                      *)
handleSchedule(c, gasLimit, delay, interval, maxRuns) ==
    /\ interval <= TaskMaxHorizon
    /\ AddTask(c, gasLimit, delay, interval, maxRuns)

(* tos.schedule does not: a contract may ask for one that overflows.       *)
schedule(c, gasLimit, delay, interval, maxRuns) ==
    AddTask(c, gasLimit, delay, interval, maxRuns)

(* Mutant: the status is left alone.                                       *)
CancelKeepsStatus(ts, ids) == ts

CancelAll(ts, ids) ==
    [x \in DOMAIN ts |-> IF x \in ids THEN [ts[x] EXCEPT !.status = TaskCancelled] ELSE ts[x]]

(* TASK_CANCEL by a transaction.  The entry stays in its queue.            *)
handleCancel(id) ==
    LET c == tasks[id].scheduler
    IN  /\ due = <<>>
        /\ IsPending(id)
        /\ schedulerBalance' = schedulerBalance - tasks[id].gasLimit
        /\ contractBalance' = [contractBalance EXCEPT ![c] = @ + tasks[id].gasLimit]
        /\ tasks' = CancelAll(tasks, {id})
        /\ active' = [active EXCEPT ![c] = Decrement(@, 1)]
        /\ UNCHANGED <<queue, taskNonce, blockNum, due, processed, blockGas>>

(* A contract spends from its balance.                                     *)
Spend(c) ==
    /\ due = <<>>
    /\ contractBalance[c] > 0
    /\ contractBalance' = [contractBalance EXCEPT ![c] = 0]
    /\ UNCHANGED <<schedulerBalance, tasks, queue, active, taskNonce, blockNum, due,
                   processed, blockGas>>

(* A handler that returns an error: the transaction is reverted.           *)
TaskReverted == due = <<>> /\ UNCHANGED taskVars

-----------------------------------------------------------------------------
DequeueTasksAt ==
    /\ due = <<>>
    /\ blockNum < LastTaskBlock
    /\ blockNum' = blockNum + 1
    /\ due' = queue[blockNum']
    /\ queue' = [queue EXCEPT ![blockNum'] = <<>>]
    /\ processed' = 0
    /\ blockGas' = BlockGasLimit
    /\ UNCHANGED <<contractBalance, schedulerBalance, tasks, active, taskNonce>>

SkipTask ==
    /\ due # <<>>
    /\ processed < TaskMaxPerBlock
    /\ ~IsPending(due[1])
    /\ due' = Tail(due)
    /\ UNCHANGED <<contractBalance, schedulerBalance, tasks, queue, active, taskNonce,
                   blockNum, processed, blockGas>>

(* The next entry is a pending task, and the cap is not reached.           *)
TaskRuns(gasUsed) ==
    /\ due # <<>>
    /\ processed < TaskMaxPerBlock
    /\ IsPending(due[1])
    /\ gasUsed \in 0 .. tasks[due[1]].gasLimit
    /\ tasks[due[1]].gasLimit <= blockGas
    /\ blockGas' = blockGas - gasUsed
    /\ due' = Tail(due)

(* Mutant: a task whose callback logged does not count against the cap.    *)
UncountedExpiry == UNCHANGED processed

CountExpiry == processed' = processed + 1

(* The callback emitted a log: its writes are reverted and the task ends   *)
(* without a refund.                                                       *)
ExpireLogged(gasUsed) ==
    LET id == due[1]
        c  == tasks[id].scheduler
    IN  /\ TaskRuns(gasUsed)
        /\ tasks' = WriteTask(tasks, id, [tasks[id] EXCEPT !.status = TaskExpired])
        /\ active' = [active EXCEPT ![c] = Decrement(@, 1)]
        /\ CountExpiry
        /\ UNCHANGED <<contractBalance, schedulerBalance, queue, taskNonce, blockNum>>

(* What a callback may do to other tasks: tos.canceltask by the contracts  *)
(* it gets to call.  A callback that fails is reverted and has cancelled   *)
(* none.                                                                   *)
CallbackCancels(id) == SUBSET {t \in PendingTasks : t = id => SelfCancel}

NextRun(rec) == blockNum + rec.interval

(* Balances and counts after a callback that cancelled tasks.              *)
Refunded(cancelled) ==
    [x \in Schedulers |-> contractBalance[x] + SumFunctionOnSet(Deposits, cancelled \cap TasksOf(x))]

Uncounted(cancelled) ==
    [x \in Schedulers |-> Decrement(active[x], Cardinality(cancelled \cap TasksOf(x)))]

(* The record is read before the callback runs and written back after it.  *)
RunTask(gasUsed, cancelled) ==
    LET id      == due[1]
        rec     == tasks[id]
        c       == rec.scheduler
        ran     == [rec EXCEPT !.runs = @ + 1]
        refund  == rec.gasLimit - gasUsed
        credit  == [Refunded(cancelled) EXCEPT ![c] = @ + refund]
        paidOut == refund + SumFunctionOnSet(Deposits, cancelled)
        repeats == /\ rec.interval # 0
                   /\ rec.maxRuns > 0 => ran.runs < rec.maxRuns
                   /\ NextRun(rec) <= Uint64Max
                   /\ credit[c] >= rec.gasLimit
    IN  /\ TaskRuns(gasUsed)
        /\ cancelled \in CallbackCancels(id)
        /\ \/ /\ repeats
              /\ contractBalance' = [credit EXCEPT ![c] = @ - rec.gasLimit]
              /\ schedulerBalance' = schedulerBalance - paidOut + rec.gasLimit
              /\ tasks' = WriteTask(CancelAll(tasks, cancelled), id,
                                    [ran EXCEPT !.nextBlock = NextRun(rec)])
              /\ queue' = EnqueueTask(queue, NextRun(rec), id)
              /\ active' = Uncounted(cancelled)
           \/ /\ ~repeats
              /\ contractBalance' = credit
              /\ schedulerBalance' = schedulerBalance - paidOut
              /\ tasks' = WriteTask(CancelAll(tasks, cancelled), id,
                              [ran EXCEPT !.status = IF rec.interval = 0
                                                     THEN TaskDone ELSE TaskExpired])
              /\ active' = [Uncounted(cancelled) EXCEPT ![c] = Decrement(@, 1)]
              /\ UNCHANGED queue
        /\ processed' = processed + 1
        /\ UNCHANGED <<taskNonce, blockNum>>

(* Mutant: the tasks over the cap are dropped.                             *)
Dropped(id) == UNCHANGED <<tasks, queue>>

(* A task over the cap is written back for the next block and queued there.*)
Postpone(id) ==
    /\ tasks' = WriteTask(tasks, id, [tasks[id] EXCEPT !.nextBlock = blockNum + 1])
    /\ queue' = EnqueueTask(queue, blockNum + 1, id)

(* The cap is reached: one iteration of the loop over the deferred entries.*)
Defer ==
    /\ due # <<>>
    /\ processed >= TaskMaxPerBlock
    /\ \/ IsPending(due[1]) /\ Postpone(due[1])
       \/ ~IsPending(due[1]) /\ UNCHANGED <<tasks, queue>>
    /\ due' = Tail(due)
    /\ UNCHANGED <<contractBalance, schedulerBalance, active, taskNonce, blockNum, processed,
                   blockGas>>

-----------------------------------------------------------------------------
TaskInit ==
    /\ contractBalance = [c \in Schedulers |-> SchedulerFunds]
    /\ schedulerBalance = 0
    /\ tasks = <<>>
    /\ queue = [b \in 1 .. Uint64Max |-> <<>>]
    /\ active = [c \in Schedulers |-> 0]
    /\ taskNonce = [c \in Schedulers |-> 0]
    /\ blockNum = 1
    /\ due = <<>>
    /\ processed = 0
    /\ blockGas = BlockGasLimit

TaskTransactions ==
    \/ \E c \in Schedulers, g \in GasLimits, d \in Delays, i \in Intervals, m \in RunLimits :
          handleSchedule(c, g, d, i, m) \/ schedule(c, g, d, i, m)
    \/ \E id \in PendingTasks : handleCancel(id)
    \/ \E c \in Schedulers : Spend(c)
    \/ TaskReverted

ProcessDueTasks ==
    \/ SkipTask
    \/ \E g \in 0 .. TaskMaxGasLimit : ExpireLogged(g)
    \/ \E g \in 0 .. TaskMaxGasLimit, ids \in SUBSET PendingTasks : RunTask(g, ids)
    \/ Defer

TaskNext == DequeueTasksAt \/ ProcessDueTasks \/ TaskTransactions

TaskSpec == TaskInit /\ [][TaskNext]_taskVars

-----------------------------------------------------------------------------
(* The scheduler's account holds the deposits of all pending tasks, so     *)
(* that every cancellation and every refund is covered, whatever callbacks *)
(* use, cancel, log or fail.                                               *)
EscrowCovers == schedulerBalance >= SumFunctionOnSet(Deposits, PendingTasks)

(* The entries that block k is still to process.                           *)
Line(k) == IF k = blockNum THEN due ELSE queue[k]

(* A pending task is queued once, for the block it says, and that block is *)
(* not over: EnqueueTask, DequeueTasksAt, the repeats and the deferrals    *)
(* never lose a task and never make it run twice.                          *)
QueuedOnce ==
    \A id \in PendingTasks :
        LET b == tasks[id].nextBlock
        IN  /\ b >= blockNum
            /\ \E i \in DOMAIN Line(b) :
                  /\ Line(b)[i] = id
                  /\ \A k \in blockNum .. Uint64Max :
                        \A j \in DOMAIN Line(k) : Line(k)[j] = id => k = b /\ j = i

(* A task that is reached in the loop finds enough gas in the pool for its *)
(* limit: RunScheduledTasks never fails a block.                           *)
DueTasksFit ==
    due # <<>> /\ processed < TaskMaxPerBlock /\ IsPending(due[1])
        => tasks[due[1]].gasLimit <= blockGas

(* ReadActiveCount "returns the number of active (Pending) tasks": the     *)
(* count that limits handleSchedule neither drifts up nor down.            *)
ActiveIsPending == \A c \in Schedulers : active[c] = Cardinality(TasksOf(c))

(* Scheduled tasks, through callbacks that cancel, log and fail: the       *)
(* escrow covers every pending task, a pending task is in exactly one      *)
(* queue, the tasks reached in a block fit its gas pool, and the count of  *)
(* a contract is that of its pending tasks.                                *)
TasksSound == EscrowCovers /\ QueuedOnce /\ DueTasksFit /\ ActiveIsPending
=============================================================================
