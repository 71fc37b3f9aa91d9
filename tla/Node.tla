-------------------------------- MODULE Node --------------------------------
(***************************************************************************)
(* The collator node: what its command line does to the databases on disk, *)
(* and how a node process starts its tasks, runs and stops.  Starting is a *)
(* sequence of steps, most of which may fail; the tasks spawned by earlier *)
(* steps already run, and may end, while the later ones are under way.     *)
(* The databases survive the process; everything else is lost with it.     *)
(* One process runs at a time, as the lock on the database enforces.       *)
(***************************************************************************)
EXTENDS Sequences

CONSTANTS
    Invocations,     \* the command lines the operator uses
    SpecFiles,       \* the chain specifications in files: path |-> specification
    RelayChains,     \* the relay chains the relay chain client knows
    Started          \* the essential tasks that libraries start on our behalf

VARIABLES
    disk,            \* the databases that exist
    args,            \* the command line of the running process
    step,            \* what the process does next, "idle" when there is none
    spawned,         \* the tasks the process has spawned
    ended,           \* the ones that have ended
    collator_key,    \* whether the relay chain interface came with a key
    signalled,       \* whether the process was asked to stop
    purging,         \* the databases purge-chain has left to remove
    outcome          \* how the last process ended

process == <<args, step, spawned, ended, collator_key, signalled, purging>>
vars == <<disk, process, outcome>>

-----------------------------------------------------------------------------
(* Command lines.  An option that is not given is the empty set.           *)

Invocation ==
    [chain: STRING, base_path: STRING, authority: BOOLEAN,
     relay_chain: SUBSET STRING, relay_base_path: SUBSET Seq(STRING),
     embedded: BOOLEAN, telemetry: BOOLEAN, offchain_worker: BOOLEAN, hwbench: BOOLEAN,
     parachain: BOOLEAN, relaychain: BOOLEAN, yes: BOOLEAN]

ASSUME InvocationAssumption == Invocations \subseteq Invocation

RELAY_CHAIN == "paseo-local"

development_chain_spec == [id |-> "dev", relay_chain |-> RELAY_CHAIN]

local_chain_spec == [id |-> "local_testnet", relay_chain |-> RELAY_CHAIN]

known_spec(id) == id \in {"dev", "nulo-paseo", "", "local"} \cup DOMAIN SpecFiles

load_spec(id) ==
    CASE id = "dev" -> development_chain_spec
      [] id \in {"nulo-paseo", "", "local"} -> local_chain_spec
      [] OTHER -> SpecFiles[id]

\* The relay chain's own options win over what the parachain implies.
given(option, default) == IF option = {} THEN default ELSE CHOOSE x \in option : TRUE

chain_id(a) == given(a.relay_chain, load_spec(a.chain).relay_chain)

base_path(a) == given(a.relay_base_path, <<a.base_path, "polkadot">>)

database(base, id) == [base |-> base, chain |-> id]

para_database(a) == database(<<a.base_path>>, load_spec(a.chain).id)

relay_database(a) == database(base_path(a), chain_id(a))

\* create_configuration of the relay chain refuses a chain it does not know.
relay_chain_config_ok(a) == chain_id(a) \in RelayChains

-----------------------------------------------------------------------------
(* The life of a process.                                                  *)

NoArgs == [chain |-> ""]

Idle ==
    /\ step = "idle" /\ args = NoArgs
    /\ spawned = {} /\ ended = {} /\ purging = {}
    /\ collator_key = FALSE /\ signalled = FALSE

Begin(a, first) ==
    /\ step = "idle"
    /\ args' = a /\ step' = first
    /\ UNCHANGED <<spawned, ended, collator_key, signalled>>

\* Returning from run drops the task manager, which ends every task.
Exit(result) ==
    /\ step' = "idle" /\ args' = NoArgs
    /\ spawned' = {} /\ ended' = {} /\ purging' = {}
    /\ collator_key' = FALSE /\ signalled' = FALSE
    /\ outcome' = result

At(s) == step = s /\ UNCHANGED args

\* A step that spawns tasks and goes on.
Spawn(s, next, tasks) ==
    /\ At(s)
    /\ step' = next
    /\ spawned' = spawned \cup tasks
    /\ UNCHANGED <<ended, signalled, purging, outcome>>

running == spawned \ ended

-----------------------------------------------------------------------------
(* Tasks.                                                                  *)

\* Variant: the pool and the queue are spawned as ordinary tasks.
essential_only_aura == {"aura"} \cup Started

\* The tasks spawned with spawn_essential_handle.
essential == {"transaction_pool", "import_queue", "aura"} \cup Started

essential_failed == ended \cap essential # {}

TaskEnds(t) ==
    /\ t \in running
    /\ ended' = ended \cup {t}
    /\ UNCHANGED <<disk, args, step, spawned, collator_key, signalled, purging, outcome>>

build_import_queue == {"import_queue"}

new_partial(a) ==
    (IF a.telemetry THEN {"telemetry"} ELSE {}) \cup {"transaction_pool"} \cup build_import_queue

-----------------------------------------------------------------------------
(* start_parachain_node.                                                   *)

open_parachain(s, next) ==
    /\ Spawn(s, next, new_partial(args))
    /\ disk' = disk \cup {para_database(args)}
    /\ UNCHANGED collator_key

\* Embedded, the relay chain client is a part of this process, with a database
\* of its own and a key exactly for an authority; otherwise it is a connection
\* to another node, and the key is always generated.
build_relay_chain_interface ==
    /\ Spawn("build_relay_chain_interface", "parachain_id", {"relay_chain"})
    /\ disk' = IF args.embedded THEN disk \cup {relay_database(args)} ELSE disk
    /\ collator_key' = (args.embedded => args.authority)

parachain_id ==
    Spawn("parachain_id", "build_network", {}) /\ UNCHANGED <<disk, collator_key>>

build_network ==
    /\ Spawn("build_network", "offchain_workers", {"network"})
    /\ UNCHANGED <<disk, collator_key>>

offchain_workers ==
    /\ Spawn("offchain_workers", "spawn_tasks",
             IF args.offchain_worker THEN {"offchain-workers-runner"} ELSE {})
    /\ UNCHANGED <<disk, collator_key>>

\* Variant: consensus starts before the relay chain is followed.
spawn_tasks_then_consensus ==
    /\ Spawn("spawn_tasks", "start_consensus", {"rpc"})
    /\ UNCHANGED <<disk, collator_key>>

spawn_tasks ==
    Spawn("spawn_tasks", "hwbench", {"rpc"}) /\ UNCHANGED <<disk, collator_key>>

hwbench ==
    /\ Spawn("hwbench", "overseer_handle",
             IF args.hwbench /\ args.telemetry THEN {"telemetry_hwbench"} ELSE {})
    /\ UNCHANGED <<disk, collator_key>>

overseer_handle ==
    Spawn("overseer_handle", "start_relay_chain_tasks", {}) /\ UNCHANGED <<disk, collator_key>>

start_relay_chain_tasks ==
    /\ Spawn("start_relay_chain_tasks", "start_bootnode_tasks", {"relay_chain_tasks"})
    /\ UNCHANGED <<disk, collator_key>>

start_bootnode_tasks ==
    /\ Spawn("start_bootnode_tasks", "start_consensus", {"bootnode"})
    /\ UNCHANGED <<disk, collator_key>>

\* Variants: no node collates; the role is not asked for.
validator_never == FALSE

validator_assumed == TRUE

validator == args.authority

\* Without a key the expect panics.
start_consensus ==
    /\ step = "start_consensus"
    /\ IF validator /\ ~collator_key THEN Exit("panicked")
       ELSE /\ Spawn("start_consensus", "running", IF validator THEN {"aura"} ELSE {})
            /\ UNCHANGED collator_key
    /\ UNCHANGED disk

\* The steps that end in `?`.
fallible ==
    {"new_partial", "build_relay_chain_interface", "parachain_id", "build_network",
     "spawn_tasks", "overseer_handle", "start_relay_chain_tasks", "open", "operation", "purge"}
        \cup (IF args # NoArgs /\ args.offchain_worker THEN {"offchain_workers"} ELSE {})

\* The database that a step makes before it can fail.
made ==
    CASE step \in {"new_partial", "open"} -> {para_database(args)}
      [] step = "build_relay_chain_interface" /\ args.embedded -> {relay_database(args)}
      [] OTHER -> {}

StepFails ==
    /\ step \in fallible
    /\ Exit("error")
    /\ disk' \in {disk, disk \cup made}

start_parachain_node ==
    \/ open_parachain("new_partial", "build_relay_chain_interface")
    \/ build_relay_chain_interface \/ parachain_id \/ build_network
    \/ offchain_workers \/ spawn_tasks \/ hwbench \/ overseer_handle
    \/ start_relay_chain_tasks \/ start_bootnode_tasks \/ start_consensus

-----------------------------------------------------------------------------
(* The command line.                                                       *)

\* The hardware benchmark makes the directory of the database before the relay
\* chain's arguments are known to be good.
run_node(a) ==
    /\ known_spec(a.chain)
    /\ disk' = IF a.hwbench THEN disk \cup {para_database(a)} ELSE disk
    /\ IF relay_chain_config_ok(a)
       THEN Begin(a, "new_partial") /\ UNCHANGED <<purging, outcome>>
       ELSE step = "idle" /\ outcome' = "error" /\ UNCHANGED process

\* run_node_until_exit looks at the signals and at the essential tasks only
\* once the node has started.
run_until_exit ==
    /\ step = "running"
    /\ \/ essential_failed /\ Exit("error")
       \/ signalled /\ Exit("ok")
    /\ UNCHANGED disk

\* check-block, export-blocks, export-state, import-blocks, revert and the
\* genesis and benchmark commands open the parachain, and nothing else.
chain_operation(a) ==
    /\ known_spec(a.chain)
    /\ Begin(a, "open")
    /\ UNCHANGED <<disk, purging, outcome>>

construct_async_run ==
    \/ open_parachain("open", "operation")
    \/ step = "operation" /\ Exit("ok") /\ UNCHANGED disk

\* Variant: the relay chain's arguments are not passed on.
purged_by_default(a) ==
    {para_database(a), relay_database([a EXCEPT !.relay_chain = {}, !.relay_base_path = {}])}

\* --parachain and --relaychain select one database; both, or neither, both.
purged(a) ==
    (IF a.relaychain /\ ~a.parachain THEN {} ELSE {para_database(a)}) \cup
    (IF a.parachain /\ ~a.relaychain THEN {} ELSE {relay_database(a)})

\* Without --yes the command asks first.
purge_chain(a) ==
    /\ known_spec(a.chain) /\ relay_chain_config_ok(a)
    /\ Begin(a, IF a.yes THEN "purge" ELSE "confirm")
    /\ purging' = purged(a)
    /\ UNCHANGED <<disk, outcome>>

\* The operator agrees; or does not, which is no error; or cannot be read.
confirm ==
    /\ step = "confirm"
    /\ \/ /\ step' = "purge"
          /\ UNCHANGED <<args, spawned, ended, collator_key, signalled, purging, outcome>>
       \/ \E result \in {"ok", "error"} : Exit(result)
    /\ UNCHANGED disk

\* Variant: only one of the databases is removed.
remove_databases_first ==
    /\ step = "purge"
    /\ step' = "idle" /\ args' = NoArgs /\ outcome' = "ok" /\ signalled' = FALSE
    /\ \E db \in purging : disk' = disk \ {db} /\ purging' = purging \ {db}
    /\ UNCHANGED <<spawned, ended, collator_key>>

\* The databases are removed one after the other, whether they exist or not.
remove_databases ==
    /\ step = "purge"
    /\ \/ \E db \in purging :
            /\ disk' = disk \ {db}
            /\ purging' = purging \ {db}
            /\ UNCHANGED <<args, step, spawned, ended, collator_key, signalled, outcome>>
       \/ purging = {} /\ Exit("ok") /\ UNCHANGED disk

-----------------------------------------------------------------------------
(* The world outside.                                                      *)

Signal ==
    /\ step # "idle" /\ ~signalled
    /\ signalled' = TRUE
    /\ UNCHANGED <<disk, args, step, spawned, ended, collator_key, purging, outcome>>

Crash ==
    /\ step # "idle"
    /\ Exit("killed")
    /\ UNCHANGED disk

Init == disk = {} /\ Idle /\ outcome = "none"

\* What the process does by itself; the operator's answer is not a part of it.
Proceed ==
    start_parachain_node \/ run_until_exit \/ construct_async_run \/ remove_databases \/ StepFails

Next ==
    \/ \E a \in Invocations : run_node(a) \/ chain_operation(a) \/ purge_chain(a)
    \/ Proceed
    \/ confirm
    \/ \E t \in spawned : TaskEnds(t)
    \/ Signal
    \/ Crash

\* A process that can go on goes on: its future is polled by the runtime, and
\* what a step of the start-up awaits comes back or fails.  The second part is an
\* assumption on the libraries and, with a remote relay chain, on the other node.
Spec == Init /\ [][Next]_vars /\ WF_vars(Proceed)

-----------------------------------------------------------------------------
(* Properties.                                                             *)

Tasks ==
    {"telemetry", "transaction_pool", "import_queue", "relay_chain", "network",
     "offchain-workers-runner", "rpc", "telemetry_hwbench", "relay_chain_tasks",
     "bootnode", "aura"}

\* Every variable has its type, and only a process has tasks.
TypeOK ==
    /\ \A db \in disk \cup purging : DOMAIN db = {"base", "chain"}
    /\ args \in Invocations \cup {NoArgs}
    /\ ended \subseteq spawned /\ spawned \subseteq Tasks
    /\ {collator_key, signalled} \subseteq BOOLEAN
    /\ step = "idle" => Idle
    /\ outcome \in {"none", "ok", "error", "panicked", "killed"}

\* Aura authors blocks (service.rs:257) only in a node whose role is authority,
\* and only once the tasks that import, announce and follow the relay chain
\* have been spawned by the steps before; that none of them has ended since is
\* not claimed.
CollatorIsReady ==
    "aura" \in spawned =>
        /\ args.authority /\ collator_key
        /\ {"import_queue", "transaction_pool", "relay_chain", "network", "rpc",
            "relay_chain_tasks"} \subseteq spawned

\* collator_key.expect("Command line arguments do not allow this. qed")
\* (service.rs:483): no command line makes the node panic.
NoPanic == outcome # "panicked"

\* purge-chain (command.rs:152) does what it was asked to: when it reports
\* success after a purge was confirmed, a node started with the same command line
\* finds none of the selected databases, wherever its arguments put them; and the
\* database that was not selected, those of other command lines and, without a
\* confirmation, all of them are never removed.
PurgeForgets ==
    [][ /\ step = "purge" /\ step' = "idle" /\ outcome' = "ok" =>
            /\ (args.relaychain => args.parachain) => para_database(args) \notin disk'
            /\ (args.parachain => args.relaychain) => relay_database(args) \notin disk'
        /\ \A db \in disk \ disk' :
            /\ step = "purge"
            /\ \/ db = para_database(args) /\ (args.relaychain => args.parachain)
               \/ db = relay_database(args) /\ (args.parachain => args.relaychain) ]_vars

\* A node whose transaction pool, import queue or block authoring has ended
\* (service.rs:123, 255), or that was asked to stop, stops: also when that
\* happened while it was starting.  Only a prompt that nobody answers waits.
FailureStopsNode ==
    \/ ended \cap {"transaction_pool", "import_queue", "aura"} # {}
    \/ signalled /\ step # "confirm"
    ~> step = "idle"

\* A node that is to collate does so in the end, or stops.
CollatorCollates ==
    (step = "new_partial" /\ args.authority) ~> ("aura" \in spawned \/ step = "idle")
=============================================================================
