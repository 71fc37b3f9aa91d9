------------------------------- MODULE MCNode -------------------------------
(***************************************************************************)
(* An instance of Node for TLC: four command lines used on one disk.       *)
(***************************************************************************)
EXTENDS Node

\* A collator that embeds a relay chain node, and one that uses a remote one and
\* purges, unasked, the parachain only.
Collator ==
    [chain |-> "local", base_path |-> "/data", authority |-> TRUE,
     relay_chain |-> {}, relay_base_path |-> {}, embedded |-> TRUE,
     telemetry |-> TRUE, offchain_worker |-> TRUE, hwbench |-> TRUE,
     parachain |-> FALSE, relaychain |-> FALSE, yes |-> FALSE]

RemoteCollator ==
    [Collator EXCEPT !.chain = "nulo-paseo", !.embedded = FALSE, !.offchain_worker = FALSE,
                     !.hwbench = FALSE, !.parachain = TRUE, !.yes = TRUE]

\* A full node of another chain, with relay chain arguments of its own, that
\* purges the relay chain only.
FullNode ==
    [Collator EXCEPT !.chain = "dev", !.authority = FALSE, !.telemetry = FALSE,
                     !.relay_chain = {"paseo"}, !.relay_base_path = {<<"/relay">>},
                     !.relaychain = TRUE]

\* A specification in a file that names a relay chain nobody knows.
Mistaken ==
    [FullNode EXCEPT !.chain = "wrong.json", !.relay_chain = {}, !.relay_base_path = {}]

CommandLines == {Collator, RemoteCollator, FullNode, Mistaken}

Files == [f \in {"wrong.json"} |-> [id |-> "other", relay_chain |-> "unknown"]]
=============================================================================
