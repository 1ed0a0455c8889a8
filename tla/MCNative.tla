---------------------------------- MODULE MCNative ----------------------------------
(* The native contracts for TLC, side by side: in each behaviour one       *)
(* component, named by focus, takes its steps while the others keep their  *)
(* initial state. Their modules have disjoint names and are extended as    *)
(* they are.                                                               *)
EXTENDS ValidatorRegistry, TaskScheduler, LeaseRegistry, SettlementBus, SettlementCallbacks, PolicyWallet, LvmFrames

VARIABLE focus  \* the component that runs

NativeInit ==
    /\ focus \in {"registry", "task", "lease", "settle", "callback", "wallet", "frames"}
    /\ Init
    /\ TaskInit
    /\ LeaseInit
    /\ BusInit
    /\ CallbackInit
    /\ WalletInit
    /\ FramesInit
    /\ focus # "frames" => stateDB.ops = {}

RegistryStep ==
    /\ focus = "registry" /\ Next
    /\ UNCHANGED <<focus, taskVars, leaseVars, busVars, callbackVars, walletVars, framesVars>>

TaskStep ==
    /\ focus = "task" /\ TaskNext
    /\ UNCHANGED <<focus, vars, leaseVars, busVars, callbackVars, walletVars, framesVars>>

LeaseStep ==
    /\ focus = "lease" /\ LeaseNext
    /\ UNCHANGED <<focus, vars, taskVars, busVars, callbackVars, walletVars, framesVars>>

SettleStep ==
    /\ focus = "settle" /\ BusNext
    /\ UNCHANGED <<focus, vars, taskVars, leaseVars, callbackVars, walletVars, framesVars>>

CallbackStep ==
    /\ focus = "callback" /\ CallbackNext
    /\ UNCHANGED <<focus, vars, taskVars, leaseVars, busVars, walletVars, framesVars>>

WalletStep ==
    /\ focus = "wallet" /\ WalletNext
    /\ UNCHANGED <<focus, vars, taskVars, leaseVars, busVars, callbackVars, framesVars>>

FramesStep ==
    /\ focus = "frames" /\ FramesNext
    /\ UNCHANGED <<focus, vars, taskVars, leaseVars, busVars, callbackVars, walletVars>>

NativeNext ==
    \/ RegistryStep
    \/ TaskStep
    \/ LeaseStep
    \/ SettleStep
    \/ CallbackStep
    \/ WalletStep
    \/ FramesStep

NativeVars == <<focus, vars, taskVars, leaseVars, busVars, callbackVars, walletVars, framesVars>>

NativeSpec ==
    /\ NativeInit
    /\ [][NativeNext]_NativeVars
    /\ WF_framesVars(FramesStep)

(* Gas makes every execution end, whatever the contracts call. *)
Terminates == focus = "frames" => Halts

=============================================================================
