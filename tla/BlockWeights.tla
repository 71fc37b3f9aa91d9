---------------------------- MODULE BlockWeights ----------------------------
(***************************************************************************)
(* What fits into a block: the weights the pallets of this repository      *)
(* declare and the limits the runtime sets.  Checking and giving back      *)
(* weight are external (frame_system).                                     *)
(*                                                                         *)
(* Computation time is in microseconds, a millionth of the code's unit.    *)
(***************************************************************************)
EXTENDS Integers, FiniteSets

CONSTANTS
    MaxPovSize,      \* MAX_POV_SIZE of the relay chain, in bytes
    Others,          \* weights of calls of the other pallets
    Shares,          \* what extrinsics report, in percent of what they declare
    Queued,          \* how many entries a queue of on_initialize may hold
    MaxExtrinsics    \* bound on the extrinsics of a block

ASSUME BlockWeightsAssumption ==
    /\ MaxPovSize \in Nat /\ Shares \cup Queued \subseteq Nat
    /\ \A w \in Others : w.ref_time \in Nat /\ w.proof_size \in Nat

VARIABLES
    consumed,        \* the weight the block has used, by class
    hook_work,       \* what on_initialize did, each revocation taken as an unlock
    included         \* how many extrinsics the block has

block_vars == <<consumed, hook_work, included>>

-----------------------------------------------------------------------------
(* Weights.                                                                *)

Weight(ref_time, proof_size) == [ref_time |-> ref_time, proof_size |-> proof_size]

zero == Weight(0, 0)

plus(v, w) == Weight(v.ref_time + w.ref_time, v.proof_size + w.proof_size)

monus(x, y) == IF x > y THEN x - y ELSE 0

minus(v, w) == Weight(monus(v.ref_time, w.ref_time), monus(v.proof_size, w.proof_size))

times(n, w) == Weight(n * w.ref_time, n * w.proof_size)

percent(n, w) == Weight((n * w.ref_time) \div 100, (n * w.proof_size) \div 100)

any_gt(v, w) == v.ref_time > w.ref_time \/ v.proof_size > w.proof_size

BlockExecutionWeight == Weight(5000, 0)

ExtrinsicBaseWeight == Weight(125, 0)

reads_writes(r, w) == Weight(25 * r + 100 * w, 0)

-----------------------------------------------------------------------------
(* The weights the pallets declare.                                        *)

sponsor == plus(Weight(45, 4000), reads_writes(5, 6))

unlock == plus(Weight(35, 3500), reads_writes(4, 6))

set_policy == plus(Weight(20, 2000), reads_writes(2, 4))

refresh == plus(Weight(18, 2000), reads_writes(2, 3))

on_initialize_process_auto_unlock(items) ==
    plus(times(items, Weight(7, 1000)), reads_writes(items, items))

on_initialize_process_expiries(items) ==
    plus(times(items, Weight(6, 1000)), reads_writes(items, items))

purchase == plus(Weight(25, 3500), reads_writes(2, 2))

\* send, register_token and update_token.
hyper_fungible_token == Weight(100, 0)

add_parachain(n) == plus(Weight(25 + 15 * n, 0), reads_writes(2 + 2 * n, 2 + 2 * n))

remove_parachain(n) == plus(Weight(15 + 5 * n, 0), reads_writes(1, n))

update_parachain_consensus == plus(Weight(25, 0), reads_writes(2, 2))

Declared ==
    {sponsor, unlock, set_policy, refresh, purchase, hyper_fungible_token, add_parachain(1),
     remove_parachain(2), update_parachain_consensus} \cup Others

-----------------------------------------------------------------------------
(* RuntimeBlockWeights.                                                    *)

Classes == {"Normal", "Operational", "Mandatory"}

MAXIMUM_BLOCK_WEIGHT == Weight(2000000, MaxPovSize)

NORMAL_DISPATCH_RATIO(w) == percent(75, w)

AVERAGE_ON_INITIALIZE_RATIO(w) == percent(5, w)

MaxSponsorshipQueueProcessingPerBlock == 64

max_total(class) ==
    IF class = "Normal" THEN NORMAL_DISPATCH_RATIO(MAXIMUM_BLOCK_WEIGHT)
    ELSE MAXIMUM_BLOCK_WEIGHT

\* Variant: nothing is set aside for operational extrinsics.
reserved_nothing(class) == zero

reserved(class) ==
    IF class = "Operational"
    THEN minus(MAXIMUM_BLOCK_WEIGHT, NORMAL_DISPATCH_RATIO(MAXIMUM_BLOCK_WEIGHT))
    ELSE zero

\* Variant: avg_block_initialization is left at zero.
max_extrinsic_whole(class) == minus(max_total(class), ExtrinsicBaseWeight)

max_extrinsic(class) ==
    minus(minus(max_total(class), AVERAGE_ON_INITIALIZE_RATIO(MAXIMUM_BLOCK_WEIGHT)),
          ExtrinsicBaseWeight)

-----------------------------------------------------------------------------
(* CheckWeight.                                                            *)

min_weight(v, w) ==
    Weight(IF v.ref_time < w.ref_time THEN v.ref_time ELSE w.ref_time,
           IF v.proof_size < w.proof_size THEN v.proof_size ELSE w.proof_size)

\* PostDispatchInfo::calc_actual_weight.
actual_weight(declared, reported) == min_weight(reported, declared)

total(c) == plus(plus(c["Normal"], c["Operational"]), c["Mandatory"])

fits(class, w) ==
    LET after == [consumed EXCEPT ![class] = plus(@, plus(w, ExtrinsicBaseWeight))]
    IN  /\ ~any_gt(w, max_extrinsic(class))
        /\ ~any_gt(after[class], max_total(class))
        /\ any_gt(total(after), MAXIMUM_BLOCK_WEIGHT) => ~any_gt(after[class], reserved(class))

-----------------------------------------------------------------------------
(* A block.                                                                *)

\* Variant: a block works off as much again as its queues may hold.
queue_twice(items) == 2 * (IF items < 64 THEN items ELSE 64)

\* Both queues are vectors bounded by MaxQueueProcessingPerBlock.
queue(items) ==
    IF items < MaxSponsorshipQueueProcessingPerBlock THEN items
    ELSE MaxSponsorshipQueueProcessingPerBlock

initialize_block(expiries, auto_unlocks) ==
    LET hook == plus(on_initialize_process_expiries(queue(expiries)),
                     on_initialize_process_auto_unlock(queue(auto_unlocks)))
    IN  /\ consumed' = [class \in Classes |->
                IF class = "Mandatory" THEN plus(BlockExecutionWeight, hook) ELSE zero]
        /\ hook_work' = times(queue(expiries) + queue(auto_unlocks), unlock)
        /\ included' = 0

\* An extrinsic that declares w and then reports how much it used; what was
\* declared and not used is given back to the block.
apply_extrinsic(class, w, share) ==
    LET used == actual_weight(w, percent(share, w))
    IN  /\ included < MaxExtrinsics
        /\ fits(class, w)
        /\ consumed' = [consumed EXCEPT ![class] = plus(@, plus(used, ExtrinsicBaseWeight))]
        /\ included' = included + 1
        /\ UNCHANGED hook_work

BlockInit ==
    /\ consumed = [class \in Classes |->
            IF class = "Mandatory" THEN BlockExecutionWeight ELSE zero]
    /\ hook_work = zero
    /\ included = 0

BlockNext ==
    \/ \E expiries, auto_unlocks \in Queued : initialize_block(expiries, auto_unlocks)
    \/ \E class \in {"Normal", "Operational"}, w \in Declared, share \in Shares :
            apply_extrinsic(class, w, share)

BlockSpec == BlockInit /\ [][BlockNext]_block_vars

-----------------------------------------------------------------------------
(* Properties.                                                             *)

\* configs/mod.rs:96: "Operational transactions have some extra reserved space,
\* so that they are included even if block reached MAXIMUM_BLOCK_WEIGHT."
\* Whatever on_initialize and other extrinsics used, an operational extrinsic
\* fits that stays within the reserve.
OperationalIsIncluded ==
    LET used == plus(consumed["Operational"], ExtrinsicBaseWeight)
        reserve == percent(25, MAXIMUM_BLOCK_WEIGHT)
    IN  ~any_gt(used, reserve) => fits("Operational", minus(reserve, used))

\* An extrinsic that max_extrinsic lets into the pool fits into a block that is
\* still empty, also after on_initialize worked through full queues: no
\* transaction is valid for ever and includable never.  (Inherents, which come
\* first, are library code and are left out.)
LargestIsIncludable ==
    included = 0 =>
        \A class \in {"Normal", "Operational"} : fits(class, max_extrinsic(class))

\* lib.rs:203: "We assume that ~5% of the block weight is consumed by
\* on_initialize handlers."  This holds for the sponsorship pallet with both
\* queues full, even though its hook declares less for a revocation than the
\* call unlock does for the same work.
HookFitsItsShare == ~any_gt(hook_work, AVERAGE_ON_INITIALIZE_RATIO(MAXIMUM_BLOCK_WEIGHT))
=============================================================================
