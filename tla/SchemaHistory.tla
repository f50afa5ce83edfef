--------------------------- MODULE SchemaHistory ---------------------------
(***************************************************************************)
(* What schema_migrations and the nodes of a cluster promise: versions are *)
(* recorded one at a time, each once, in their order and none beyond the   *)
(* release that is installed, and a node serves only with all of them.     *)
(* Nothing is said of locks, statements, crashes or the order in which     *)
(* nodes start: PluginActivation implements it.                            *)
(***************************************************************************)
EXTENDS Integers

CONSTANTS Node, Last

VARIABLES newest,    \* the last version of the release that is installed
          recorded,  \* the versions in schema_migrations
          serving    \* the nodes where the job runs or requests are served

historyVars == <<newest, recorded, serving>>

HistoryInit ==
    /\ newest \in 1..Last
    /\ recorded = {}
    /\ serving = {}

Migrate(v) ==
    /\ v \in 1..newest
    /\ recorded = 1..(v - 1)
    /\ recorded' = 1..v
    /\ UNCHANGED <<newest, serving>>

Serve(n) ==
    /\ recorded = 1..newest
    /\ serving' = serving \union {n}
    /\ UNCHANGED <<newest, recorded>>

Stop(n) ==
    /\ serving' = serving \ {n}
    /\ UNCHANGED <<newest, recorded>>

Replace ==
    /\ serving = {}
    /\ newest' = Last
    /\ UNCHANGED <<recorded, serving>>

HistoryNext ==
    \/ \E v \in 1..Last : Migrate(v)
    \/ \E n \in Node : Serve(n) \/ Stop(n)
    \/ Replace

HistorySpec == HistoryInit /\ [][HistoryNext]_historyVars

=============================================================================
