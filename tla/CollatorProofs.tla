--------------------------- MODULE CollatorProofs ---------------------------
(***************************************************************************)
(* What holds of a collator and of the blocks it builds, which no pallet   *)
(* keeps.  A node starts in order, for every set of command lines: block   *)
(* authoring begins only in an authority that has all it needs, and the    *)
(* expect on the collator key never panics.  The limits of the runtime     *)
(* leave room in a block for what they promise, for all weights of the     *)
(* other pallets, all lengths of the queues and blocks of any number of    *)
(* extrinsics.                                                             *)
(***************************************************************************)
EXTENDS Node, BlockWeights, TLAPS

-----------------------------------------------------------------------------
(* The limits of a block.                                                  *)

Weights == [ref_time: Nat, proof_size: Nat]

\* What a queue of on_initialize may have cost at the most, and what was used
\* before the first extrinsic.
HookBounded ==
    /\ hook_work.ref_time <= 94080 /\ hook_work.proof_size <= 448000
    /\ consumed["Mandatory"].ref_time <= 21832 /\ consumed["Mandatory"].proof_size <= 128000

BlockInv ==
    /\ consumed \in [Classes -> Weights]
    /\ hook_work \in Weights
    /\ included \in Nat
    /\ HookBounded
    /\ included = 0 => consumed["Normal"] = zero /\ consumed["Operational"] = zero

-----------------------------------------------------------------------------
\* The sum of two weights.
LEMMA PlusType ==
    ASSUME NEW v \in Weights, NEW w \in Weights
    PROVE  /\ plus(v, w) \in Weights
           /\ plus(v, w).ref_time = v.ref_time + w.ref_time
           /\ plus(v, w).proof_size = v.proof_size + w.proof_size
BY DEF Weights, plus, Weight

\* The weights that calls declare are weights.
LEMMA DeclaredType ==
    ASSUME NEW w \in Declared PROVE w.ref_time \in Nat /\ w.proof_size \in Nat
<1>1. CASE w \in Others
  BY <1>1, BlockWeightsAssumption
<1>2. CASE w \notin Others
  BY <1>2 DEF Declared, sponsor, unlock, set_policy, refresh, purchase, hyper_fungible_token,
        add_parachain, remove_parachain, update_parachain_consensus, plus, reads_writes, Weight
<1> QED BY <1>1, <1>2

\* What an extrinsic used is a weight.
LEMMA UsedType ==
    ASSUME NEW w, w.ref_time \in Nat, w.proof_size \in Nat, NEW share \in Nat
    PROVE  actual_weight(w, percent(share, w)) \in Weights
<1>1. /\ percent(share, w).ref_time \in Nat /\ percent(share, w).proof_size \in Nat
  BY DEF percent, Weight
<1> QED BY <1>1 DEF actual_weight, min_weight, Weight, Weights

\* A block works off at most MaxSponsorshipQueueProcessingPerBlock entries of
\* each queue.
LEMMA QueueBounded == ASSUME NEW n \in Nat PROVE queue(n) \in 0 .. 64
BY DEF queue, MaxSponsorshipQueueProcessingPerBlock

\* on_initialize, for queues of any length.
LEMMA InitializeHolds ==
    ASSUME NEW expiries \in Nat, NEW auto_unlocks \in Nat,
           initialize_block(expiries, auto_unlocks)
    PROVE  BlockInv'
<1> DEFINE e == queue(expiries)
           u == queue(auto_unlocks)
           hook == plus(on_initialize_process_expiries(e), on_initialize_process_auto_unlock(u))
<1>1. e \in 0 .. 64 /\ u \in 0 .. 64
  BY QueueBounded
<1> HIDE DEF e, u
<1>2. hook = Weight(131 * e + 132 * u, 1000 * e + 1000 * u)
  BY <1>1 DEF on_initialize_process_expiries, on_initialize_process_auto_unlock, plus, times,
        reads_writes, Weight
<1>3. times(e + u, unlock) = Weight(735 * (e + u), 3500 * (e + u))
  BY <1>1 DEF times, unlock, plus, reads_writes, Weight
<1>4. plus(BlockExecutionWeight, hook) = Weight(5000 + 131 * e + 132 * u, 1000 * e + 1000 * u)
  BY <1>1, <1>2 DEF BlockExecutionWeight, plus, Weight
<1>5. /\ consumed' = [class \in Classes |->
                IF class = "Mandatory" THEN plus(BlockExecutionWeight, hook) ELSE zero]
      /\ hook_work' = times(e + u, unlock)
      /\ included' = 0
  BY DEF initialize_block, e, u
<1> HIDE DEF hook
<1>6. plus(BlockExecutionWeight, hook) \in Weights /\ zero \in Weights /\ hook_work' \in Weights
  BY <1>1, <1>3, <1>4, <1>5 DEF Weights, Weight, zero
<1>7. /\ consumed' \in [Classes -> Weights]
      /\ consumed'["Normal"] = zero /\ consumed'["Operational"] = zero
      /\ consumed'["Mandatory"] = plus(BlockExecutionWeight, hook)
  BY <1>5, <1>6 DEF Classes
<1>8. HookBounded'
  BY <1>1, <1>3, <1>4, <1>5, <1>7 DEF HookBounded, Weight
<1> QED BY <1>5, <1>6, <1>7, <1>8 DEF BlockInv

\* Extrinsics add to their own class.
LEMMA ExtrinsicHolds ==
    ASSUME BlockInv, NEW class \in {"Normal", "Operational"}, NEW w \in Declared,
           NEW share \in Shares, apply_extrinsic(class, w, share)
    PROVE  BlockInv'
<1> DEFINE used == actual_weight(w, percent(share, w))
<1>1. used \in Weights
  BY DeclaredType, UsedType, BlockWeightsAssumption
<1>2. plus(used, ExtrinsicBaseWeight) \in Weights
  BY <1>1 DEF plus, Weight, Weights, ExtrinsicBaseWeight
<1>3. /\ consumed' = [consumed EXCEPT ![class] = plus(@, plus(used, ExtrinsicBaseWeight))]
      /\ included' = included + 1 /\ UNCHANGED hook_work
  BY DEF apply_extrinsic
<1> HIDE DEF used
<1>4. consumed[class] \in Weights
  BY DEF BlockInv, Classes
<1>5. plus(consumed[class], plus(used, ExtrinsicBaseWeight)) \in Weights
  BY <1>2, <1>4, PlusType
<1>6. consumed' \in [Classes -> Weights] /\ consumed'["Mandatory"] = consumed["Mandatory"]
  BY <1>3, <1>5 DEF BlockInv, Classes
<1> QED BY <1>3, <1>6 DEF BlockInv, HookBounded

\* The invariant holds from the first block on.
LEMMA BlockHolds == BlockSpec => []BlockInv
<1>1. BlockInit => BlockInv
  BY DEF BlockInit, BlockInv, HookBounded, Classes, Weights, zero, BlockExecutionWeight, Weight
<1>2. BlockInv /\ [BlockNext]_block_vars => BlockInv'
  <2> SUFFICES ASSUME BlockInv, [BlockNext]_block_vars PROVE BlockInv'
    OBVIOUS
  <2>1. CASE UNCHANGED block_vars
    BY <2>1 DEF block_vars, BlockInv, HookBounded
  <2>2. ASSUME NEW expiries \in Queued, NEW auto_unlocks \in Queued,
               initialize_block(expiries, auto_unlocks)
        PROVE  BlockInv'
    BY <2>2, InitializeHolds, BlockWeightsAssumption
  <2> QED BY <2>1, <2>2, ExtrinsicHolds DEF BlockNext
<1> QED BY <1>1, <1>2, PTL DEF BlockSpec

-----------------------------------------------------------------------------
\* configs/mod.rs:96: an operational extrinsic that stays within the reserve is
\* included, whatever MAX_POV_SIZE is and however full the block is.
THEOREM ReserveIsKept == BlockSpec => []OperationalIsIncluded
<1>1. BlockInv => OperationalIsIncluded
  <2> SUFFICES ASSUME BlockInv,
                      NEW used, used = plus(consumed["Operational"], ExtrinsicBaseWeight),
                      NEW reserve, reserve = percent(25, MAXIMUM_BLOCK_WEIGHT),
                      ~any_gt(used, reserve)
               PROVE  fits("Operational", minus(reserve, used))
    BY DEF OperationalIsIncluded
  <2> DEFINE w == minus(reserve, used)
             after == [consumed EXCEPT !["Operational"] = plus(@, plus(w, ExtrinsicBaseWeight))]
  <2>1. /\ consumed["Operational"].ref_time \in Nat /\ consumed["Operational"].proof_size \in Nat
        /\ MaxPovSize \in Nat
    BY BlockWeightsAssumption DEF BlockInv, Classes, Weights
  <2>2. reserve = Weight(500000, (25 * MaxPovSize) \div 100)
    BY <2>1 DEF percent, MAXIMUM_BLOCK_WEIGHT, Weight
  <2>3. used = Weight(consumed["Operational"].ref_time + 125,
                      consumed["Operational"].proof_size)
    BY <2>1 DEF plus, ExtrinsicBaseWeight, Weight
  <2>4. w = Weight(500000 - (consumed["Operational"].ref_time + 125),
                   (25 * MaxPovSize) \div 100 - consumed["Operational"].proof_size)
    BY <2>1, <2>2, <2>3 DEF minus, monus, any_gt, Weight
  <2> HIDE DEF w
  <2>5. plus(consumed["Operational"], plus(w, ExtrinsicBaseWeight)) = reserve
    BY <2>1, <2>2, <2>4 DEF plus, ExtrinsicBaseWeight, Weight
  <2>6. after["Operational"] = reserve
    BY <2>5 DEF BlockInv, Classes
  <2>7. ~any_gt(reserve, max_total("Operational")) /\ ~any_gt(reserve, reserved("Operational"))
    BY <2>1, <2>2 DEF any_gt, max_total, reserved, minus, monus, MAXIMUM_BLOCK_WEIGHT,
        NORMAL_DISPATCH_RATIO, percent, Weight
  <2>8. ~any_gt(w, max_extrinsic("Operational"))
    BY <2>1, <2>4 DEF any_gt, max_extrinsic, max_total, minus, monus, MAXIMUM_BLOCK_WEIGHT,
        AVERAGE_ON_INITIALIZE_RATIO, percent, ExtrinsicBaseWeight, Weight
  <2> QED BY <2>6, <2>7, <2>8 DEF fits, w
<1> QED BY <1>1, BlockHolds, PTL

\* configs/mod.rs:96 and lib.rs:203: what max_extrinsic lets into the pool fits
\* into an empty block, also after on_initialize worked through full queues, for
\* every block that has a proof size of at least 2560000.
THEOREM LargestFits ==
    ASSUME MaxPovSize >= 2560000
    PROVE  BlockSpec => []LargestIsIncludable
<1>1. BlockInv => LargestIsIncludable
  <2> SUFFICES ASSUME BlockInv, included = 0, NEW class \in {"Normal", "Operational"}
               PROVE  fits(class, max_extrinsic(class))
    BY DEF LargestIsIncludable
  <2> DEFINE w == max_extrinsic(class)
             after == [consumed EXCEPT ![class] = plus(@, plus(w, ExtrinsicBaseWeight))]
  <2>1. PICK m \in Weights : /\ m = consumed["Mandatory"]
                            /\ m.ref_time <= 21832 /\ m.proof_size <= 128000
    BY SMT DEF BlockInv, HookBounded, Classes
  <2>2. m.ref_time \in Nat /\ m.proof_size \in Nat /\ MaxPovSize \in Nat
    BY SMT, BlockWeightsAssumption DEF Weights
  <2>3. PICK ref_time \in {1500000, 2000000},
             proof_size \in {(75 * MaxPovSize) \div 100, MaxPovSize} :
                max_total(class) = Weight(ref_time, proof_size)
    BY SMT, <2>2 DEF max_total, MAXIMUM_BLOCK_WEIGHT, NORMAL_DISPATCH_RATIO, percent, Weight
  <2>4. PICK share \in Nat : share = (5 * MaxPovSize) \div 100
    BY SMT, <2>2
  <2>5. /\ share >= 128000 /\ share <= proof_size
        /\ ref_time \in Nat /\ ref_time >= 1500000 /\ ref_time <= 2000000
        /\ proof_size \in Nat /\ proof_size <= MaxPovSize
    BY SMT, <2>2, <2>3, <2>4
  <2>6. AVERAGE_ON_INITIALIZE_RATIO(MAXIMUM_BLOCK_WEIGHT) = Weight(100000, share)
    BY SMT, <2>2, <2>4
    DEF AVERAGE_ON_INITIALIZE_RATIO, MAXIMUM_BLOCK_WEIGHT, percent, Weight
  <2>7. w = Weight(ref_time - 100125, proof_size - share)
    BY SMT, <2>3, <2>5, <2>6 DEF max_extrinsic, minus, monus, ExtrinsicBaseWeight, Weight
  <2> HIDE DEF w
  <2>8. consumed[class] = Weight(0, 0)
    BY SMT DEF BlockInv, zero
  <2>9. plus(w, ExtrinsicBaseWeight) = Weight(ref_time - 100000, proof_size - share)
    BY SMT, <2>5, <2>7 DEF plus, ExtrinsicBaseWeight, Weight
  <2>10. plus(consumed[class], plus(w, ExtrinsicBaseWeight)) =
            Weight(ref_time - 100000, proof_size - share)
    BY SMT, <2>5, <2>8, <2>9 DEF plus, Weight
  <2>11. /\ after[class] = Weight(ref_time - 100000, proof_size - share)
         /\ after["Mandatory"] = m
         /\ \A other \in {"Normal", "Operational"} \ {class} : after[other] = Weight(0, 0)
    BY SMT, <2>1, <2>10 DEF BlockInv, Classes, zero
  <2> HIDE DEF after
  <2>12. total(after) = Weight(ref_time - 100000 + m.ref_time, proof_size - share + m.proof_size)
    BY SMT, <2>2, <2>5, <2>11 DEF total, plus, Weight
  <2>13. ~any_gt(total(after), MAXIMUM_BLOCK_WEIGHT)
    BY SMT, <2>1, <2>2, <2>5, <2>12 DEF any_gt, MAXIMUM_BLOCK_WEIGHT, Weight
  <2>14. ~any_gt(w, max_extrinsic(class))
    BY SMT, <2>5, <2>7 DEF any_gt, Weight, w
  <2>15. ~any_gt(after[class], max_total(class))
    BY SMT, <2>3, <2>5, <2>11 DEF any_gt, Weight
  <2> QED BY SMT, <2>13, <2>14, <2>15 DEF fits, after, w
<1> QED BY <1>1, BlockHolds, PTL

\* lib.rs:203: the hook of the sponsorship pallet stays within the 5% set aside
\* for on_initialize even if each revocation cost as much as unlock declares, for
\* queues of any length, if 128 unlocks fit into 5% of the proof size.
THEOREM HookFits ==
    ASSUME MaxPovSize >= 8960000
    PROVE  BlockSpec => []HookFitsItsShare
<1>1. BlockInv => HookFitsItsShare
  BY BlockWeightsAssumption
  DEF BlockInv, HookBounded, HookFitsItsShare, Weights, any_gt, AVERAGE_ON_INITIALIZE_RATIO,
      MAXIMUM_BLOCK_WEIGHT, percent, Weight
<1> QED BY <1>1, BlockHolds, PTL

-----------------------------------------------------------------------------
(* The node.                                                               *)

\* The steps that come after a task was spawned.
AfterRpc ==
    {"hwbench", "overseer_handle", "start_relay_chain_tasks", "start_bootnode_tasks",
     "start_consensus", "running"}

AfterNetwork == {"offchain_workers", "spawn_tasks"} \cup AfterRpc

AfterRelayChain == {"parachain_id", "build_network"} \cup AfterNetwork

AfterParachain == {"build_relay_chain_interface"} \cup AfterRelayChain

\* A step of the start-up finds what the steps before it spawned, and the key
\* the relay chain interface came with; authoring is the last thing to start.
StartsInOrder ==
    /\ step \in AfterParachain => {"transaction_pool", "import_queue"} \subseteq spawned
    /\ step \in AfterRelayChain =>
           "relay_chain" \in spawned /\ collator_key = (args.embedded => args.authority)
    /\ step \in AfterNetwork => "network" \in spawned
    /\ step \in AfterRpc => "rpc" \in spawned
    /\ step \in {"start_bootnode_tasks", "start_consensus", "running"} =>
           "relay_chain_tasks" \in spawned
    /\ "aura" \in spawned => step = "running" /\ args.authority

IInv == TypeOK /\ StartsInOrder /\ NoPanic

-----------------------------------------------------------------------------
\* The type of a database, wherever the code puts it.
LEMMA DatabaseType ==
    ASSUME NEW base, NEW id
    PROVE  DOMAIN database(base, id) = {"base", "chain"}
BY DEF database

\* At the start there is no process, and no task.
LEMMA InitHolds == Init => IInv
BY DEF Init, Idle, IInv, TypeOK, StartsInOrder, NoPanic, AfterRpc, AfterNetwork,
       AfterRelayChain, AfterParachain, NoArgs, Tasks

\* However a process ends, other than by the panic, no task is left.
LEMMA ExitHolds ==
    ASSUME IInv, NEW result \in {"ok", "error", "killed"}, Exit(result),
           \A db \in disk' : DOMAIN db = {"base", "chain"}
    PROVE  IInv'
BY DEF IInv, Exit, TypeOK, Idle, StartsInOrder, NoPanic, AfterRpc, AfterNetwork,
       AfterRelayChain, AfterParachain, NoArgs, Tasks

\* A step that spawns tasks and goes on keeps the types, whatever it spawns.
LEMMA SpawnHolds ==
    ASSUME TypeOK, NEW s, NEW next, NEW tasks \in SUBSET Tasks, Spawn(s, next, tasks),
           s # "idle", next # "idle", collator_key' \in BOOLEAN,
           \A db \in disk' : DOMAIN db = {"base", "chain"}
    PROVE  TypeOK'
BY DEF TypeOK, Spawn, At

\* The steps of start_parachain_node come in order.
LEMMA StartHolds == IInv /\ start_parachain_node => IInv'
<1> SUFFICES ASSUME IInv, start_parachain_node PROVE IInv'
  OBVIOUS
<1> USE DEF IInv, AfterRpc, AfterNetwork, AfterRelayChain, AfterParachain
<1>0. /\ collator_key \in BOOLEAN
      /\ step # "idle" => args \in Invocation \/ args = NoArgs
      /\ \A db \in disk : DOMAIN db = {"base", "chain"}
  BY InvocationAssumption DEF TypeOK
<1>1. CASE open_parachain("new_partial", "build_relay_chain_interface")
  <2>1. new_partial(args) \subseteq Tasks
    BY DEF new_partial, build_import_queue, Tasks
  <2>2. \A db \in disk' : DOMAIN db = {"base", "chain"}
    BY <1>0, <1>1, DatabaseType DEF open_parachain, para_database
  <2>3. TypeOK'
    BY <1>0, <1>1, <2>1, <2>2, SpawnHolds DEF open_parachain
  <2>4. StartsInOrder' /\ NoPanic'
    BY <1>1 DEF open_parachain, Spawn, At, StartsInOrder, NoPanic, new_partial, build_import_queue
  <2> QED
    BY <2>3, <2>4
<1>2. CASE build_relay_chain_interface
  <2>1. \A db \in disk' : DOMAIN db = {"base", "chain"}
    BY <1>0, <1>2, DatabaseType DEF build_relay_chain_interface, relay_database
  <2>2. collator_key' \in BOOLEAN
    BY <1>2 DEF build_relay_chain_interface
  <2>3. TypeOK'
    BY <1>2, <2>1, <2>2, SpawnHolds DEF build_relay_chain_interface, Tasks
  <2>4. StartsInOrder' /\ NoPanic'
    BY <1>2 DEF build_relay_chain_interface, Spawn, At, StartsInOrder, NoPanic
  <2> QED
    BY <2>3, <2>4
<1>3. CASE parachain_id
  <2>1. TypeOK'
    BY <1>0, <1>3, SpawnHolds DEF parachain_id
  <2>2. StartsInOrder' /\ NoPanic'
    BY <1>3 DEF parachain_id, Spawn, At, StartsInOrder, NoPanic
  <2> QED
    BY <2>1, <2>2
<1>4. CASE build_network
  <2>1. TypeOK'
    BY <1>0, <1>4, SpawnHolds DEF build_network, Tasks
  <2>2. StartsInOrder' /\ NoPanic'
    BY <1>4 DEF build_network, Spawn, At, StartsInOrder, NoPanic
  <2> QED
    BY <2>1, <2>2
<1>5. CASE offchain_workers
  <2>1. TypeOK'
    BY <1>0, <1>5, SpawnHolds DEF offchain_workers, Tasks
  <2>2. StartsInOrder' /\ NoPanic'
    BY <1>5 DEF offchain_workers, Spawn, At, StartsInOrder, NoPanic
  <2> QED
    BY <2>1, <2>2
<1>6. CASE spawn_tasks
  <2>1. TypeOK'
    BY <1>0, <1>6, SpawnHolds DEF spawn_tasks, Tasks
  <2>2. StartsInOrder' /\ NoPanic'
    BY <1>6 DEF spawn_tasks, Spawn, At, StartsInOrder, NoPanic
  <2> QED
    BY <2>1, <2>2
<1>7. CASE hwbench
  <2>1. TypeOK'
    BY <1>0, <1>7, SpawnHolds DEF hwbench, Tasks
  <2>2. StartsInOrder' /\ NoPanic'
    BY <1>7 DEF hwbench, Spawn, At, StartsInOrder, NoPanic
  <2> QED
    BY <2>1, <2>2
<1>8. CASE overseer_handle
  <2>1. TypeOK'
    BY <1>0, <1>8, SpawnHolds DEF overseer_handle
  <2>2. StartsInOrder' /\ NoPanic'
    BY <1>8 DEF overseer_handle, Spawn, At, StartsInOrder, NoPanic
  <2> QED
    BY <2>1, <2>2
<1>9. CASE start_relay_chain_tasks
  <2>1. TypeOK'
    BY <1>0, <1>9, SpawnHolds DEF start_relay_chain_tasks, Tasks
  <2>2. StartsInOrder' /\ NoPanic'
    BY <1>9 DEF start_relay_chain_tasks, Spawn, At, StartsInOrder, NoPanic
  <2> QED
    BY <2>1, <2>2
<1>10. CASE start_bootnode_tasks
  <2>1. TypeOK'
    BY <1>0, <1>10, SpawnHolds DEF start_bootnode_tasks, Tasks
  <2>2. StartsInOrder' /\ NoPanic'
    BY <1>10 DEF start_bootnode_tasks, Spawn, At, StartsInOrder, NoPanic
  <2> QED
    BY <2>1, <2>2
<1>11. CASE start_consensus
  <2>1. ~(validator /\ ~collator_key)
    BY <1>11 DEF start_consensus, validator, StartsInOrder
  <2>2. /\ Spawn("start_consensus", "running", IF validator THEN {"aura"} ELSE {})
        /\ UNCHANGED <<collator_key, disk>>
    BY <1>11, <2>1 DEF start_consensus
  <2>3. TypeOK'
    BY <1>0, <2>2, SpawnHolds DEF Tasks
  <2>4. StartsInOrder' /\ NoPanic'
    BY <2>2 DEF Spawn, At, StartsInOrder, NoPanic, validator
  <2> QED
    BY <2>3, <2>4
<1> QED
  BY <1>1, <1>2, <1>3, <1>4, <1>5, <1>6, <1>7, <1>8, <1>9, <1>10, <1>11 DEF start_parachain_node

\* Every step of the node and of the world around it keeps the invariant.
LEMMA StepHolds == IInv /\ [Next]_vars => IInv'
<1> SUFFICES ASSUME IInv, [Next]_vars PROVE IInv'
  OBVIOUS
<1>0. /\ \A db \in disk : DOMAIN db = {"base", "chain"}
      /\ TypeOK /\ StartsInOrder /\ NoPanic
  BY DEF IInv, TypeOK
<1> USE DEF AfterRpc, AfterNetwork, AfterRelayChain, AfterParachain
<1>1. ASSUME NEW a \in Invocations, run_node(a) PROVE IInv'
  <2>1. \A db \in disk' : DOMAIN db = {"base", "chain"}
    BY <1>0, <1>1, DatabaseType DEF run_node, para_database
  <2>2. CASE relay_chain_config_ok(a)
    BY <1>0, <1>1, <2>1, <2>2 DEF run_node, Begin, IInv, TypeOK, Idle, StartsInOrder, NoPanic
  <2>3. CASE ~relay_chain_config_ok(a)
    BY <1>0, <1>1, <2>1, <2>3
    DEF run_node, process, IInv, TypeOK, Idle, StartsInOrder, NoPanic
  <2> QED
    BY <2>2, <2>3
<1>2. ASSUME NEW a \in Invocations, chain_operation(a) PROVE IInv'
  BY <1>0, <1>2 DEF chain_operation, Begin, IInv, TypeOK, Idle, StartsInOrder, NoPanic
<1>3. ASSUME NEW a \in Invocations, purge_chain(a) PROVE IInv'
  <2>1. \A db \in purging' : DOMAIN db = {"base", "chain"}
    BY <1>3, DatabaseType DEF purge_chain, purged, para_database, relay_database
  <2> QED
    BY <1>0, <1>3, <2>1 DEF purge_chain, Begin, IInv, TypeOK, Idle, StartsInOrder, NoPanic
<1>4. CASE start_parachain_node
  BY <1>4, StartHolds
<1>5. CASE run_until_exit
  BY <1>0, <1>5, ExitHolds DEF run_until_exit
<1>6. CASE construct_async_run
  <2>1. CASE open_parachain("open", "operation")
    <3>1. new_partial(args) \subseteq Tasks
      BY DEF new_partial, build_import_queue, Tasks
    <3>2. \A db \in disk' : DOMAIN db = {"base", "chain"}
      BY <1>0, <2>1, DatabaseType DEF open_parachain, para_database
    <3>3. TypeOK'
      BY <1>0, <2>1, <3>1, <3>2, SpawnHolds DEF open_parachain, TypeOK
    <3>4. StartsInOrder' /\ NoPanic'
      BY <1>0, <2>1
      DEF open_parachain, Spawn, At, StartsInOrder, NoPanic, new_partial, build_import_queue
    <3> QED
      BY <3>3, <3>4 DEF IInv
  <2>2. CASE step = "operation" /\ Exit("ok") /\ UNCHANGED disk
    BY <1>0, <2>2, ExitHolds
  <2> QED
    BY <1>6, <2>1, <2>2 DEF construct_async_run
<1>7. CASE remove_databases
  <2>1. ASSUME NEW db \in purging, step = "purge", disk' = disk \ {db},
               purging' = purging \ {db},
               UNCHANGED <<args, step, spawned, ended, collator_key, signalled, outcome>>
        PROVE  IInv'
    BY <1>0, <2>1 DEF IInv, TypeOK, StartsInOrder, NoPanic
  <2>2. CASE purging = {} /\ Exit("ok") /\ UNCHANGED disk
    BY <1>0, <2>2, ExitHolds
  <2> QED
    BY <1>7, <2>1, <2>2 DEF remove_databases
<1>8. CASE StepFails
  <2>1. \A db \in made : DOMAIN db = {"base", "chain"}
    BY DatabaseType DEF made, para_database, relay_database
  <2> QED
    BY <1>0, <1>8, <2>1, ExitHolds DEF StepFails
<1>9. ASSUME NEW t \in spawned, TaskEnds(t) PROVE IInv'
  BY <1>0, <1>9 DEF TaskEnds, running, IInv, TypeOK, Idle, StartsInOrder, NoPanic
<1>10. CASE Signal
  BY <1>0, <1>10 DEF Signal, IInv, TypeOK, Idle, StartsInOrder, NoPanic
<1>11. CASE Crash
  BY <1>0, <1>11, ExitHolds DEF Crash
<1>12. CASE UNCHANGED vars
  BY <1>0, <1>12 DEF vars, process, IInv, TypeOK, Idle, StartsInOrder, NoPanic
<1>13. CASE confirm
  <2>1. CASE \E result \in {"ok", "error"} : Exit(result)
    BY <1>0, <1>13, <2>1, ExitHolds DEF confirm
  <2>2. CASE ~ \E result \in {"ok", "error"} : Exit(result)
    BY <1>0, <1>13, <2>2 DEF confirm, IInv, TypeOK, StartsInOrder, NoPanic
  <2> QED
    BY <2>1, <2>2
<1> QED
  BY <1>1, <1>2, <1>3, <1>4, <1>5, <1>6, <1>7, <1>8, <1>9, <1>10, <1>11, <1>12, <1>13
  DEF Next, Proceed

-----------------------------------------------------------------------------
\* The variables have their types, and no task outlives its process.
THEOREM TypeCorrect == Spec => []TypeOK
<1>1. IInv => TypeOK
  BY DEF IInv
<1> QED
  BY <1>1, InitHolds, StepHolds, PTL DEF Spec

\* Aura (service.rs:257) is spawned only in an authority, with a key, and after
\* the pool, the import queue, the network, RPC and the relay chain's tasks.
THEOREM AuthoringStartsLast == Spec => []CollatorIsReady
<1>1. IInv => CollatorIsReady
  BY DEF IInv, StartsInOrder, CollatorIsReady, AfterRpc, AfterNetwork, AfterRelayChain,
         AfterParachain
<1> QED
  BY <1>1, InitHolds, StepHolds, PTL DEF Spec

\* The expect on collator_key (service.rs:483) panics for no command line.
THEOREM NeverPanics == Spec => []NoPanic
<1>1. IInv => NoPanic
  BY DEF IInv
<1> QED
  BY <1>1, InitHolds, StepHolds, PTL DEF Spec

-----------------------------------------------------------------------------
\* What purge-chain has left to remove was selected, and what was selected and
\* exists is still going to be removed.
PurgeRemembers ==
    step \in {"confirm", "purge"} =>
        /\ purging \subseteq purged(args)
        /\ purged(args) \cap disk \subseteq purging

\* No step makes a database, or forgets one, behind the back of purge-chain.
LEMMA PurgeStep == PurgeRemembers /\ [Next]_vars => PurgeRemembers'
<1> SUFFICES ASSUME PurgeRemembers, [Next]_vars, step' \in {"confirm", "purge"}
             PROVE  purging' \subseteq purged(args') /\ purged(args') \cap disk' \subseteq purging'
  BY DEF PurgeRemembers, purged, para_database, relay_database, load_spec, base_path, chain_id
<1>1. ASSUME NEW a \in Invocations, run_node(a) \/ chain_operation(a) PROVE FALSE
  BY <1>1 DEF run_node, chain_operation, Begin, process
<1>2. ASSUME NEW a \in Invocations, purge_chain(a)
      PROVE  purging' = purged(args')
  BY <1>2 DEF purge_chain, Begin
<1>3. CASE Proceed
  <2>1. ~start_parachain_node /\ ~construct_async_run
    BY DEF start_parachain_node, construct_async_run, open_parachain, Spawn, Exit,
           build_relay_chain_interface, parachain_id, build_network, offchain_workers,
           spawn_tasks, hwbench, overseer_handle, start_relay_chain_tasks,
           start_bootnode_tasks, start_consensus
  <2>2. ~run_until_exit /\ ~StepFails
    BY DEF run_until_exit, StepFails, Exit
  <2>3. PICK db \in purging : /\ disk' = disk \ {db} /\ purging' = purging \ {db}
                              /\ UNCHANGED <<args, step>>
    BY <1>3, <2>1, <2>2 DEF Proceed, remove_databases, Exit
  <2> QED
    BY <2>3 DEF PurgeRemembers
<1>4. CASE \/ \E t \in spawned : TaskEnds(t)
           \/ Signal
           \/ UNCHANGED vars
  BY <1>4 DEF TaskEnds, Signal, vars, process, PurgeRemembers
<1>5. CASE Crash
  BY <1>5 DEF Crash, Exit
<1>6. CASE confirm
  BY <1>6 DEF confirm, Exit, PurgeRemembers
<1> QED
  BY <1>1, <1>2, <1>3, <1>4, <1>5, <1>6 DEF Next

\* No step but those of purge-chain removes a database.
LEMMA OnlyPurgeRemoves ==
    ASSUME [Next]_vars, step # "purge" PROVE disk \subseteq disk'
<1>1. ASSUME NEW a \in Invocations, run_node(a) \/ chain_operation(a) \/ purge_chain(a)
      PROVE  disk \subseteq disk'
  BY <1>1 DEF run_node, chain_operation, purge_chain
<1>2. CASE start_parachain_node \/ construct_async_run
  BY <1>2
  DEF start_parachain_node, construct_async_run, open_parachain, build_relay_chain_interface,
      parachain_id, build_network, offchain_workers, spawn_tasks, hwbench, overseer_handle,
      start_relay_chain_tasks, start_bootnode_tasks, start_consensus
<1>3. CASE run_until_exit \/ StepFails \/ remove_databases \/ confirm
  BY <1>3 DEF run_until_exit, StepFails, remove_databases, confirm
<1>4. CASE Signal \/ Crash \/ UNCHANGED vars \/ \E t \in spawned : TaskEnds(t)
  BY <1>4 DEF Signal, Crash, vars, TaskEnds
<1> QED
  BY <1>1, <1>2, <1>3, <1>4 DEF Next, Proceed

\* purge-chain (command.rs:152) removes the databases that were selected and no
\* others: when it reports success after a confirmed purge none of them is left,
\* and what was not selected, or not confirmed, is still there.
THEOREM PurgeIsComplete == Spec => PurgeForgets
<1>1. Init => PurgeRemembers
  BY DEF Init, Idle, PurgeRemembers
<1> DEFINE Selected ==
                  /\ (args.relaychain => args.parachain) => para_database(args) \in purged(args)
                  /\ (args.parachain => args.relaychain) => relay_database(args) \in purged(args)
                  /\ \A db \in purged(args) :
                        \/ db = para_database(args) /\ (args.relaychain => args.parachain)
                        \/ db = relay_database(args) /\ (args.parachain => args.relaychain)
           Done == step = "purge" /\ step' = "idle" /\ outcome' = "ok" =>
                     purged(args) \cap disk' = {}
           Spared == \A db \in disk \ disk' : step = "purge" /\ db \in purged(args)
<1>2. Selected
  BY DEF purged
<1>3. ASSUME PurgeRemembers, [Next]_vars PROVE Done
  <2> SUFFICES ASSUME step = "purge", outcome' = "ok", step' = "idle"
               PROVE  purged(args) \cap disk' = {}
    OBVIOUS
  <2>1. \A a \in Invocations : ~(run_node(a) \/ chain_operation(a) \/ purge_chain(a))
    BY DEF run_node, chain_operation, purge_chain, Begin
  <2>2. ~start_parachain_node /\ ~run_until_exit /\ ~construct_async_run /\ ~confirm
    BY DEF start_parachain_node, construct_async_run, open_parachain, Spawn, At,
           build_relay_chain_interface, parachain_id, build_network, offchain_workers,
           spawn_tasks, hwbench, overseer_handle, start_relay_chain_tasks,
           start_bootnode_tasks, start_consensus, run_until_exit, confirm
  <2>3. ~StepFails /\ ~Crash /\ ~Signal /\ ~UNCHANGED vars /\ \A t \in spawned : ~TaskEnds(t)
    BY DEF StepFails, Crash, Exit, Signal, vars, process, TaskEnds
  <2>4. purging = {} /\ UNCHANGED disk
    BY <1>3, <2>1, <2>2, <2>3 DEF Next, Proceed, remove_databases
  <2> QED
    BY <1>3, <2>4 DEF PurgeRemembers
<1>4. ASSUME PurgeRemembers, [Next]_vars PROVE Spared
  <2>1. CASE step # "purge"
    BY <1>4, <2>1, OnlyPurgeRemoves
  <2>2. CASE step = "purge"
    <3>1. \A a \in Invocations : ~(run_node(a) \/ chain_operation(a) \/ purge_chain(a))
      BY <2>2 DEF run_node, chain_operation, purge_chain, Begin
    <3>2. ~start_parachain_node /\ ~run_until_exit /\ ~construct_async_run /\ ~confirm
      BY <2>2
      DEF start_parachain_node, construct_async_run, open_parachain, Spawn, At,
           build_relay_chain_interface, parachain_id, build_network, offchain_workers,
           spawn_tasks, hwbench, overseer_handle, start_relay_chain_tasks,
           start_bootnode_tasks, start_consensus, run_until_exit, confirm
    <3>3. \/ remove_databases \/ StepFails \/ Crash \/ Signal \/ UNCHANGED vars
          \/ \E t \in spawned : TaskEnds(t)
      BY <1>4, <3>1, <3>2 DEF Next, Proceed
    <3>4. disk \ disk' \subseteq purging
      BY <3>3 DEF remove_databases, StepFails, Crash, Signal, vars, TaskEnds
    <3> QED
      BY <1>4, <2>2, <3>4 DEF PurgeRemembers
  <2> QED
    BY <2>1, <2>2
<1> HIDE DEF Selected, Done, Spared
<1>5. PurgeRemembers /\ [Next]_vars => Selected /\ Done /\ Spared
  BY <1>2, <1>3, <1>4
<1>6. Selected /\ Done /\ Spared =>
        /\ step = "purge" /\ step' = "idle" /\ outcome' = "ok" =>
            /\ (args.relaychain => args.parachain) => para_database(args) \notin disk'
            /\ (args.parachain => args.relaychain) => relay_database(args) \notin disk'
        /\ \A db \in disk \ disk' :
            /\ step = "purge"
            /\ \/ db = para_database(args) /\ (args.relaychain => args.parachain)
               \/ db = relay_database(args) /\ (args.parachain => args.relaychain)
  BY DEF Selected, Done, Spared
<1> QED
  BY <1>1, <1>5, <1>6, PurgeStep, PTL DEF Spec, PurgeForgets
=============================================================================
