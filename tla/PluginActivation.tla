-------------------------- MODULE PluginActivation --------------------------
(***************************************************************************)
(* OnActivate on the nodes of a cluster: the store migrates the database,  *)
(* then the bot, the job, the stale locks (plugin.go, store/sqlstore.go,   *)
(* store/migrate.go).  The nodes of a cluster activate the plugin at the   *)
(* same time and may die or fail at any call, MySQL applies a migration    *)
(* statement by statement, and an upgraded plugin finds the database of an *)
(* earlier release.  The migration engine is a library (morph): it takes a *)
(* lock that a dead holder loses, applies the versions not yet recorded in *)
(* their order and records each; with PostgreSQL a migration and its       *)
(* record are one transaction.                                             *)
(***************************************************************************)
EXTENDS Naturals, Sequences

CONSTANTS
    Node,
    Last,         \* the number of migrations
    Migration,    \* Migration[v]: the statements of a migration
    Queried,      \* what the queries of this release name
    DebugBuild,
    MaxStarts,    \* bound: how often the plugin is activated
    MaxFaults     \* bound: failed calls and dying nodes, together

Versions == 1..Last

\* A statement as in module Migrations.
At(v, k) == Migration[v][k]

\* Everything a migration adds.
Object == UNION {UNION {At(v, k).adds : k \in 1..Len(Migration[v])} : v \in Versions}

ASSUME ActivationAssumption ==
    /\ Last \in Nat \ {0}
    /\ DebugBuild \in BOOLEAN
    /\ MaxStarts \in Nat
    /\ MaxFaults \in Nat
    /\ \A v \in Versions : Len(Migration[v]) \in Nat \ {0}

\* The rules a migration of this list must keep: it drops nothing that is
\* queried, everything that is queried comes from one of them, and what a
\* statement looks up is added by that statement only, with all it adds.
ASSUME MigrationRules ==
    /\ \A v \in Versions : \A k \in 1..Len(Migration[v]) :
         At(v, k).drops \intersect Queried = {}
    /\ \A c \in Queried :
         \E v \in Versions : \E k \in 1..Len(Migration[v]) : c \in At(v, k).adds
    /\ \A v, w \in Versions :
         \A k \in 1..Len(Migration[v]), l \in 1..Len(Migration[w]) :
           At(v, k).unless \intersect At(w, l).adds # {} => v = w /\ k = l

\* And so that it can be run again after any part of it: an earlier statement
\* adds what one needs and only this one drops it, nothing that is looked up is
\* ever dropped, and a statement that drops something adds what it looks up.
ASSUME RerunRules ==
    /\ \A v \in Versions : \A k \in 1..Len(Migration[v]) : \A c \in At(v, k).needs :
         \E w \in 1..v : \E l \in 1..Len(Migration[w]) :
           (w < v \/ l < k) /\ c \in At(w, l).adds
    /\ \A v, w \in Versions :
         \A k \in 1..Len(Migration[v]), l \in 1..Len(Migration[w]) :
           /\ At(v, k).drops \intersect At(w, l).needs # {} => v = w /\ k = l
           /\ At(v, k).drops \intersect At(w, l).unless = {}
    /\ \A v \in Versions : \A k \in 1..Len(Migration[v]) :
         At(v, k).drops # {} =>
             At(v, k).unless # {} /\ At(v, k).unless \subseteq At(v, k).adds

VARIABLES
    database,   \* "postgres" or "mysql"
    release,    \* how many of the migrations the installed plugin has
    schema,     \* the tables, columns, constraints and indexes there are
    applied,    \* the versions in schema_migrations
    rows,       \* responses are stored
    lock,       \* the holder of the migration lock, a set of at most one
    node,       \* the activation of each node
    spent       \* how much of the bounds is used

db == <<schema, applied>>
installed == <<database, release>>
vars == <<installed, db, rows, lock, node, spent>>

----------------------------------------------------------------------------
AtMostOne(S) == {{}} \union {{x} : x \in S}

\* todo are the versions to apply, version is the one being applied and step
\* its next statement; view is the schema as the statements see it, needed what
\* one found out.
Idle(pc) == [pc |-> pc, todo |-> {}, version |-> 1, step |-> 1, view |-> {},
             needed |-> FALSE]

\* The next statement.
Current(q) == At(q.version, q.step)

IsLast(q) == q.step = Len(Migration[q.version])

Goto(n, pc) == node' = [node EXCEPT ![n].pc = pc]

Restart(n, pc) == node' = [node EXCEPT ![n] = Idle(pc)]

\* The engine runs, and holds the lock.
Migrating == {"pending", "begin", "prepare", "execute", "record", "close", "abort"}

\* The job runs, or requests are served.
Working == {"locks", "command", "active"}

Down == {"down", "failed"}

Fault == /\ spent.faults < MaxFaults
         /\ spent' = [spent EXCEPT !.faults = @ + 1]

\* Whether a statement has anything to do.
Needed(st, S) == st.unless = {} \/ ~(st.unless \subseteq S)

Executed(st, S) == (S \ st.drops) \union st.adds

\* The database refuses the statement.
Refuses(st, S) ==
    \/ ~(st.needs \subseteq S)
    \/ ~Needed(st, S)
    \/ st.notNull /\ rows /\ database = "postgres"

----------------------------------------------------------------------------
\* The server activates the plugin: initStore, up to GetSchemaName.
Activate(n) ==
    /\ node[n].pc \in Down
    /\ spent.starts < MaxStarts
    /\ spent' = [spent EXCEPT !.starts = @ + 1]
    /\ Goto(n, "schema")
    /\ UNCHANGED <<installed, db, rows, lock>>

GetSchemaName(n) ==
    /\ node[n].pc = "schema"
    /\ Goto(n, "lock")
    /\ UNCHANGED <<installed, db, rows, lock, spent>>

\* Mutated form: no cluster lock (WithLock).
NewEngine_NoLock(n) ==
    /\ node[n].pc = "lock"
    /\ lock' = lock \union {n}
    /\ Goto(n, "pending")
    /\ UNCHANGED <<installed, db, rows, spent>>

\* morph.New waits for the lock.
NewEngine(n) ==
    /\ node[n].pc = "lock"
    /\ lock = {}
    /\ lock' = {n}
    /\ Goto(n, "pending")
    /\ UNCHANGED <<installed, db, rows, spent>>

\* runMigrations: ApplyAll takes the versions that are not recorded.
Pending(n) ==
    /\ node[n].pc = "pending"
    /\ LET todo == (1..release) \ applied IN
       node' = [node EXCEPT ![n] =
           [Idle(IF todo = {} THEN "close" ELSE "begin") EXCEPT !.todo = todo]]
    /\ UNCHANGED <<installed, db, rows, lock, spent>>

BeginMigration(n) ==
    /\ node[n].pc = "begin"
    /\ \E v \in node[n].todo :
         /\ \A w \in node[n].todo : v <= w
         /\ node' = [node EXCEPT ![n].pc = "prepare", ![n].version = v,
                                 ![n].step = 1, ![n].view = schema]
    /\ UNCHANGED <<installed, db, rows, lock, spent>>

\* Mutated form: the statement is executed whatever there is already.
Prepare_NotLookedUp(n) ==
    /\ node[n].pc = "prepare"
    /\ node' = [node EXCEPT ![n].pc = "execute", ![n].needed = TRUE]
    /\ UNCHANGED <<installed, db, rows, lock, spent>>

\* The helpers look the object up first, and choose the statement to execute.
Prepare(n) ==
    /\ node[n].pc = "prepare"
    /\ node' = [node EXCEPT ![n].pc = "execute",
                            ![n].needed = Needed(Current(node[n]), node[n].view)]
    /\ UNCHANGED <<installed, db, rows, lock, spent>>

\* In MySQL a statement takes effect at once.
Execute(n) ==
    /\ node[n].pc = "execute"
    /\ LET q == node[n]
           st == Current(q)
           view == IF q.needed THEN Executed(st, q.view) ELSE q.view
       IN  IF q.needed /\ Refuses(st, q.view)
           THEN Restart(n, "abort") /\ UNCHANGED schema
           ELSE /\ node' = [node EXCEPT ![n].pc = IF IsLast(q) THEN "record" ELSE "prepare",
                                        ![n].step = IF IsLast(q) THEN @ ELSE @ + 1,
                                        ![n].view = view]
                /\ schema' = IF database = "mysql" THEN view ELSE schema
    /\ UNCHANGED <<installed, applied, rows, lock, spent>>

\* The version is recorded; with PostgreSQL this commits its statements.
Record(n) ==
    /\ node[n].pc = "record"
    /\ LET todo == node[n].todo \ {node[n].version} IN
       /\ applied' = applied \union {node[n].version}
       /\ schema' = node[n].view
       /\ IF todo = {}
          THEN Restart(n, "close")
          ELSE node' = [node EXCEPT ![n].todo = todo, ![n].pc = "begin"]
    /\ UNCHANGED <<installed, rows, lock, spent>>

\* Mutated form: the engine is not closed.
CloseEngine_Forgotten(n) ==
    /\ node[n].pc \in {"close", "abort"}
    /\ Restart(n, IF node[n].pc = "close" THEN "bot" ELSE "failed")
    /\ UNCHANGED <<installed, db, rows, lock, spent>>

\* Mutated form: a failed migration is logged and no error returned.
CloseEngine_ErrorDropped(n) ==
    /\ node[n].pc \in {"close", "abort"}
    /\ lock' = lock \ {n}
    /\ Restart(n, "bot")
    /\ UNCHANGED <<installed, db, rows, spent>>

\* The deferred engine.Close frees the lock, also after a failure.
CloseEngine(n) ==
    /\ node[n].pc \in {"close", "abort"}
    /\ lock' = lock \ {n}
    /\ Restart(n, IF node[n].pc = "close" THEN "bot" ELSE "failed")
    /\ UNCHANGED <<installed, db, rows, spent>>

----------------------------------------------------------------------------
EnsureBot(n) ==
    /\ node[n].pc = "bot"
    /\ Goto(n, "job")
    /\ UNCHANGED <<installed, db, rows, lock, spent>>

\* From here on the job of SurveyLifecycle runs on the node.
StartManageSurveyJob(n) ==
    /\ node[n].pc = "job"
    /\ Goto(n, "locks")
    /\ UNCHANGED <<installed, db, rows, lock, spent>>

\* SendSurvey has the steps of the clean-up.
ClearStaleLocks(n) ==
    /\ node[n].pc = "locks"
    /\ Goto(n, IF DebugBuild THEN "command" ELSE "active")
    /\ UNCHANGED <<installed, db, rows, lock, spent>>

RegisterDebugCommands(n) ==
    /\ node[n].pc = "command"
    /\ Goto(n, "active")
    /\ UNCHANGED <<installed, db, rows, lock, spent>>

\* A user answers a survey of the release that is installed.
Respond(n) ==
    /\ node[n].pc = "active"
    /\ 2 \in applied
    /\ rows' = TRUE
    /\ UNCHANGED <<installed, db, lock, node, spent>>

OnDeactivate(n) ==
    /\ node[n].pc = "active"
    /\ Goto(n, "down")
    /\ UNCHANGED <<installed, db, rows, lock, spent>>

\* Any call of the activation fails, and OnActivate with it.
CallFails(n) ==
    /\ node[n].pc \notin Down \union {"active", "close", "abort"}
    /\ Fault
    /\ Restart(n, IF node[n].pc \in Migrating THEN "abort" ELSE "failed")
    /\ UNCHANGED <<installed, db, rows, lock>>

NodeDies(n) ==
    /\ node[n].pc \notin Down
    /\ Fault
    /\ Restart(n, "down")
    /\ UNCHANGED <<installed, db, rows, lock>>

\* Nobody renews the lock once the process that took it is gone.
LockExpires ==
    /\ \E n \in lock : node[n].pc \in Down \union {"schema", "lock"}
    /\ lock' = {}
    /\ UNCHANGED <<installed, db, rows, node, spent>>

\* This release replaces an earlier one that had fewer migrations.
Upgrade ==
    /\ release < Last
    /\ \A n \in Node : node[n].pc \in Down
    /\ release' = Last
    /\ UNCHANGED <<database, db, rows, lock, node, spent>>

----------------------------------------------------------------------------
Init ==
    /\ database \in {"postgres", "mysql"}
    /\ release \in Versions
    /\ schema = {}
    /\ applied = {}
    /\ rows = FALSE
    /\ lock = {}
    /\ node = [n \in Node |-> Idle("down")]
    /\ spent = [starts |-> 0, faults |-> 0]

OnActivate(n) == \/ GetSchemaName(n)
                 \/ NewEngine(n)
                 \/ Pending(n)
                 \/ BeginMigration(n)
                 \/ Prepare(n)
                 \/ Execute(n)
                 \/ Record(n)
                 \/ CloseEngine(n)
                 \/ EnsureBot(n)
                 \/ StartManageSurveyJob(n)
                 \/ ClearStaleLocks(n)
                 \/ RegisterDebugCommands(n)

Around(n) == \/ Activate(n)
             \/ Respond(n)
             \/ OnDeactivate(n)
             \/ CallFails(n)
             \/ NodeDies(n)

Next == \/ \E n \in Node : OnActivate(n) \/ Around(n)
        \/ LockExpires
        \/ Upgrade

Spec == Init /\ [][Next]_vars

\* An activation goes on until it ends, and a lock nobody renews expires.
Fairness == /\ \A n \in Node : WF_vars(OnActivate(n))
            /\ WF_vars(LockExpires)

FairSpec == Spec /\ Fairness

----------------------------------------------------------------------------
Activation ==
    [pc : Migrating \union Working \union Down \union {"schema", "lock", "bot", "job"},
     todo : SUBSET Versions, version : Versions, step : Nat, view : SUBSET Object,
     needed : BOOLEAN]

\* Every variable keeps its type; one node at most holds the lock.
TypeOK ==
    /\ database \in {"postgres", "mysql"}
    /\ release \in Versions
    /\ schema \subseteq Object
    /\ applied \subseteq Versions
    /\ rows \in BOOLEAN
    /\ lock \in AtMostOne(Node)
    /\ node \in [Node -> Activation]
    /\ spent \in [starts : 0..MaxStarts, faults : 0..MaxFaults]

\* Whatever died or failed in the middle of a migration, on whichever node and
\* database and from whichever release on, a node where the job runs or
\* requests are served finds every column its queries name.
QueriesFindTheirColumns ==
    \A n \in Node :
        node[n].pc \in Working /\ release = Last => Queried \subseteq schema

\* A responses table with rows, as PostgreSQL refuses to migrate.
CannotMigrate ==
    /\ database = "postgres"
    /\ rows
    /\ \E v \in Versions \ applied :
         \E k \in 1..Len(Migration[v]) : At(v, k).notNull

\* A migration that was cut short can be run again: no statement is refused,
\* except that PostgreSQL has no value for the rows of a new column.
NoneRefused ==
    \A n \in Node :
        node[n].pc = "execute" /\ node[n].needed
            /\ Refuses(Current(node[n]), node[n].view) => CannotMigrate

History == INSTANCE SchemaHistory
               WITH newest <- release,
                    recorded <- applied,
                    serving <- {n \in Node : node[n].pc \in Working}

\* Whichever node migrates, and whatever dies or fails, versions are recorded
\* one by one in their order, and no node gets past the store of OnActivate
\* (plugin.go:55-58) before all versions of its release are.
HistorySpec == History!HistorySpec

\* An activation ends, and if it does not succeed then a call failed, a node
\* died or the migration is refused: nodes do not wait for each other for ever.
ActivationEnds ==
    \A n \in Node :
        node[n].pc = "schema"
            ~> \/ node[n].pc = "active"
               \/ /\ node[n].pc \in Down
                  /\ spent.faults > 0 \/ CannotMigrate

=============================================================================
