---------------------- MODULE PluginActivation_proofs ----------------------
(***************************************************************************)
(* What an activation leaves in the database, for any number of nodes, any *)
(* list of migrations that keeps the rules and any number of failures.     *)
(* The argument: a recorded version has added everything it adds, and what *)
(* a statement looks up vouches for all that the statement adds.           *)
(***************************************************************************)
EXTENDS PluginActivation, TLAPS

----------------------------------------------------------------------------
(* Types.                                                                  *)

LEMMA IdleType ==
    ASSUME NEW pc \in Migrating \union Working \union Down
                        \union {"schema", "lock", "bot", "job"}
    PROVE  Idle(pc) \in Activation
<1>1. 1 \in Versions
  BY ActivationAssumption DEF Versions
<1> QED
  BY <1>1 DEF Idle, Activation

LEMMA RestartType ==
    ASSUME TypeOK, NEW n \in Node,
           NEW pc \in Migrating \union Working \union Down
                        \union {"schema", "lock", "bot", "job"},
           Restart(n, pc)
    PROVE  node' \in [Node -> Activation]
BY IdleType DEF TypeOK, Restart

LEMMA GotoType ==
    ASSUME TypeOK, NEW n \in Node,
           NEW pc \in Migrating \union Working \union Down
                        \union {"schema", "lock", "bot", "job"},
           Goto(n, pc)
    PROVE  node' \in [Node -> Activation]
BY DEF TypeOK, Goto, Activation

LEMMA AddsType ==
    ASSUME NEW v \in Versions, NEW k \in 1..Len(Migration[v])
    PROVE  At(v, k).adds \subseteq Object
BY DEF Object

\* The next statement is one of the migration.
StepInRange ==
    \A n \in Node : node[n].pc \in {"prepare", "execute", "record"}
                      => node[n].step \in 1..Len(Migration[node[n].version])

Typed == TypeOK /\ StepInRange

LEMMA LockTypes ==
    ASSUME lock \in AtMostOne(Node), NEW n \in Node
    PROVE  /\ lock \ {n} \in AtMostOne(Node)
           /\ {n} \in AtMostOne(Node)
           /\ {} \in AtMostOne(Node)
BY DEF AtMostOne

LEMMA IdleSteps == \A pc : Idle(pc).pc = pc
BY DEF Idle

LEMMA TypedInit == Init => Typed
<1> SUFFICES ASSUME Init PROVE Typed
  OBVIOUS
<1>1. Idle("down") \in Activation /\ Idle("down").pc = "down"
  BY IdleType, IdleSteps DEF Down
<1>2. node \in [Node -> Activation] /\ StepInRange
  BY <1>1 DEF Init, StepInRange
<1>3. spent \in [starts : 0..MaxStarts, faults : 0..MaxFaults]
  BY ActivationAssumption DEF Init
<1> QED
  BY <1>2, <1>3 DEF Init, Typed, TypeOK, AtMostOne

\* A node that leaves the migration, or has not begun one.
LEMMA StepsStay ==
    ASSUME StepInRange, TypeOK, NEW n \in Node, node' \in [Node -> Activation],
           \A m \in Node \ {n} : node'[m] = node[m],
           node'[n].pc \notin {"prepare", "execute", "record"}
    PROVE  StepInRange'
BY DEF StepInRange

LEMMA RestartSteps ==
    ASSUME StepInRange, TypeOK, NEW n \in Node,
           NEW pc \in (Migrating \union Working \union Down
                        \union {"schema", "lock", "bot", "job"})
                      \ {"prepare", "execute", "record"},
           Restart(n, pc) \/ Goto(n, pc)
    PROVE  node' \in [Node -> Activation] /\ StepInRange'
<1>1. node' \in [Node -> Activation]
  BY RestartType, GotoType
<1>2. node'[n].pc = pc
  BY IdleSteps DEF TypeOK, Activation, Restart, Goto
<1>3. \A m \in Node \ {n} : node'[m] = node[m]
  BY DEF TypeOK, Restart, Goto
<1> QED
  BY <1>1, <1>2, <1>3, StepsStay

LEMMA TypedStep ==
    ASSUME Typed, NEW n \in Node, OnActivate(n) \/ Around(n)
    PROVE  Typed'
<1> USE DEF Typed
<1>a. ASSUME NEW pc, pc \in {"schema", "lock", "pending", "close", "abort", "bot",
                             "job", "locks", "command", "active", "down", "failed"}
      PROVE  /\ pc \in (Migrating \union Working \union Down
                          \union {"schema", "lock", "bot", "job"})
                        \ {"prepare", "execute", "record"}
  BY <1>a DEF Migrating, Working, Down
<1>b. ASSUME UNCHANGED <<installed, db, rows, spent>>, lock' \in AtMostOne(Node),
             node' \in [Node -> Activation], StepInRange'
      PROVE  Typed'
  BY <1>b DEF TypeOK, installed, db
<1>c. ASSUME NEW pc, pc \in {"schema", "lock", "pending", "close", "abort", "bot",
                             "job", "locks", "command", "active", "down", "failed"},
             Restart(n, pc) \/ Goto(n, pc)
      PROVE  node' \in [Node -> Activation] /\ StepInRange'
  BY <1>a, <1>c, RestartSteps
<1>1. CASE Activate(n)
  <2>1. spent' \in [starts : 0..MaxStarts, faults : 0..MaxFaults]
    BY <1>1, ActivationAssumption DEF Activate, TypeOK
  <2>2. node' \in [Node -> Activation] /\ StepInRange'
    BY <1>1, <1>c DEF Activate
  <2> QED
    BY <1>1, <2>1, <2>2 DEF Activate, TypeOK, installed, db
<1>2. CASE GetSchemaName(n)
  BY <1>2, <1>b, <1>c DEF GetSchemaName, TypeOK
<1>3. CASE NewEngine(n)
  BY <1>3, <1>b, <1>c, LockTypes DEF NewEngine, TypeOK
<1>4. CASE Pending(n)
  <2>1. PICK todo : todo = (1..release) \ applied
    OBVIOUS
  <2>2. todo \subseteq Versions
    BY <2>1, ActivationAssumption DEF TypeOK, Versions
  <2>3. PICK pc \in {"close", "begin"} :
          node' = [node EXCEPT ![n] = [Idle(pc) EXCEPT !.todo = todo]]
    BY <1>4, <2>1 DEF Pending
  <2>4. Idle(pc) \in Activation /\ Idle(pc).pc = pc
    BY IdleType, IdleSteps DEF Migrating
  <2>5. PICK new : new = [Idle(pc) EXCEPT !.todo = todo]
    OBVIOUS
  <2>6. new \in Activation /\ new.pc = pc
    BY <2>2, <2>4, <2>5 DEF Activation
  <2>7. node' \in [Node -> Activation] /\ StepInRange'
    BY <2>3, <2>5, <2>6 DEF TypeOK, StepInRange
  <2> QED
    BY <1>4, <1>b, <2>7 DEF Pending, TypeOK
<1>5. CASE BeginMigration(n)
  <2>1. PICK v \in node[n].todo :
          node' = [node EXCEPT ![n].pc = "prepare", ![n].version = v,
                               ![n].step = 1, ![n].view = schema]
    BY <1>5 DEF BeginMigration
  <2>2. v \in Versions
    BY <2>1 DEF TypeOK, Activation
  <2>a. PICK new : new = [node[n] EXCEPT !.pc = "prepare", !.version = v, !.step = 1,
                                         !.view = schema]
    OBVIOUS
  <2>b. new \in Activation
    BY <2>2, <2>a DEF TypeOK, Activation, Migrating
  <2>c. node' = [node EXCEPT ![n] = new]
    BY <2>1, <2>a
  <2>3. node'[n].version = v /\ node'[n].step = 1 /\ node' \in [Node -> Activation]
    BY <2>2, <2>a, <2>b, <2>c DEF TypeOK, Activation
  <2>4. 1 \in 1..Len(Migration[v])
    BY <2>2, ActivationAssumption
  <2>5. StepInRange'
    BY <2>1, <2>3, <2>4 DEF StepInRange, TypeOK
  <2> QED
    BY <1>5, <1>b, <2>3, <2>5 DEF BeginMigration, TypeOK
<1>6. CASE Prepare(n)
  <2>1. PICK b \in BOOLEAN :
          node' = [node EXCEPT ![n].pc = "execute", ![n].needed = b]
    BY <1>6 DEF Prepare, Needed
  <2>a. PICK new : new = [node[n] EXCEPT !.pc = "execute", !.needed = b]
    OBVIOUS
  <2>b. node[n] \in Activation
    BY DEF TypeOK
  <2>c. /\ new \in Activation
        /\ new.step = node[n].step /\ new.version = node[n].version
    BY <2>1, <2>a, <2>b DEF Activation, Migrating
  <2>d. node' = [node EXCEPT ![n] = new]
    BY <2>1, <2>a
  <2>2. node' \in [Node -> Activation] /\ StepInRange'
    BY <1>6, <2>c, <2>d DEF Prepare, TypeOK, StepInRange
  <2> QED
    BY <1>6, <1>b, <2>2 DEF Prepare, TypeOK
<1>7. CASE Execute(n)
  <2>1. PICK q : q = node[n]
    OBVIOUS
  <2>2. q \in Activation /\ q.step \in 1..Len(Migration[q.version]) /\ q.pc = "execute"
    BY <1>7, <2>1 DEF Execute, TypeOK, StepInRange
  <2>3. PICK view : view = IF q.needed THEN Executed(Current(q), q.view) ELSE q.view
    OBVIOUS
  <2>4. view \subseteq Object
    BY <2>2, <2>3, AddsType DEF Executed, Current, Activation
  <2>5. CASE Restart(n, "abort") /\ UNCHANGED schema
    BY <1>7, <1>b, <1>c, <2>5 DEF Execute, TypeOK, db
  <2>6. CASE /\ node' = [node EXCEPT ![n].pc = IF IsLast(q) THEN "record" ELSE "prepare",
                                     ![n].step = IF IsLast(q) THEN @ ELSE @ + 1,
                                     ![n].view = view]
             /\ schema' = IF database = "mysql" THEN view ELSE schema
    <3>1. PICK step : step = IF IsLast(q) THEN q.step ELSE q.step + 1
      OBVIOUS
    <3>2. PICK len : len = Len(Migration[q.version])
      OBVIOUS
    <3>3. len \in Nat \ {0} /\ q.step \in 1..len
      BY <2>2, <3>2, ActivationAssumption DEF Activation
    <3>4. step \in 1..len
      BY <3>1, <3>2, <3>3 DEF IsLast
    <3>5. PICK pc \in {"record", "prepare"} :
            node' = [node EXCEPT ![n].pc = pc, ![n].step = step, ![n].view = view]
      BY <2>1, <2>6, <3>1
    <3>a. PICK new : new = [q EXCEPT !.pc = pc, !.step = step, !.view = view]
      OBVIOUS
    <3>d. step \in Nat /\ pc \in Migrating
      BY <3>3, <3>4 DEF Migrating
    <3>e. q \in Activation
      BY <2>2
    <3>b. new \in Activation /\ new.step = step /\ new.version = q.version
      BY <2>4, <3>d, <3>e, <3>a DEF Activation
    <3>c. node' = [node EXCEPT ![n] = new]
      BY <2>1, <3>5, <3>a
    <3>6. node' \in [Node -> Activation]
      BY <3>b, <3>c DEF TypeOK
    <3>7. node'[n].step = step /\ node'[n].version = q.version
      BY <3>b, <3>c DEF TypeOK
    <3>8. StepInRange'
      BY <3>2, <3>4, <3>5, <3>7 DEF StepInRange, TypeOK
    <3>9. schema' \subseteq Object
      BY <2>4, <2>6 DEF TypeOK
    <3> QED
      BY <1>7, <3>6, <3>8, <3>9 DEF Execute, TypeOK, installed
  <2> QED
    BY <1>7, <2>1, <2>3, <2>5, <2>6 DEF Execute
<1>8. CASE Record(n)
  <2>1. node[n] \in Activation
    BY DEF TypeOK
  <2>2. applied' \subseteq Versions /\ schema' \subseteq Object
    BY <1>8, <2>1 DEF Record, TypeOK, Activation
  <2>3. PICK todo : todo = node[n].todo \ {node[n].version}
    OBVIOUS
  <2>4. todo \subseteq Versions
    BY <2>1, <2>3 DEF Activation
  <2>5. node' \in [Node -> Activation] /\ StepInRange'
    <3>1. CASE Restart(n, "close")
      BY <3>1, <1>c
    <3>2. CASE node' = [node EXCEPT ![n].todo = todo, ![n].pc = "begin"]
      BY <2>4, <3>2 DEF TypeOK, Activation, Migrating, StepInRange
    <3> QED
      BY <1>8, <2>3, <3>1, <3>2 DEF Record
  <2> QED
    BY <1>8, <2>2, <2>5 DEF Record, TypeOK, installed
<1>9. CASE CloseEngine(n)
  BY <1>9, <1>b, <1>c, LockTypes DEF CloseEngine, TypeOK
<1>10. CASE EnsureBot(n)
  BY <1>10, <1>b, <1>c DEF EnsureBot, TypeOK
<1>11. CASE StartManageSurveyJob(n)
  BY <1>11, <1>b, <1>c DEF StartManageSurveyJob, TypeOK
<1>12. CASE ClearStaleLocks(n)
  BY <1>12, <1>b, <1>c DEF ClearStaleLocks, TypeOK
<1>13. CASE RegisterDebugCommands(n)
  BY <1>13, <1>b, <1>c DEF RegisterDebugCommands, TypeOK
<1>14. CASE Respond(n)
  BY <1>14 DEF Respond, TypeOK, StepInRange, installed, db
<1>15. CASE OnDeactivate(n)
  BY <1>15, <1>b, <1>c DEF OnDeactivate, TypeOK
<1>d. ASSUME Fault
      PROVE  spent' \in [starts : 0..MaxStarts, faults : 0..MaxFaults]
  BY <1>d, ActivationAssumption DEF Fault, TypeOK
<1>16. CASE CallFails(n)
  <2>1. node' \in [Node -> Activation] /\ StepInRange'
    BY <1>16, <1>c DEF CallFails
  <2> QED
    BY <1>16, <1>d, <2>1 DEF CallFails, TypeOK, installed, db
<1>17. CASE NodeDies(n)
  <2>1. node' \in [Node -> Activation] /\ StepInRange'
    BY <1>17, <1>c DEF NodeDies
  <2> QED
    BY <1>17, <1>d, <2>1 DEF NodeDies, TypeOK, installed, db
<1> QED
  BY <1>1, <1>2, <1>3, <1>4, <1>5, <1>6, <1>7, <1>8, <1>9, <1>10, <1>11, <1>12,
     <1>13, <1>14, <1>15, <1>16, <1>17 DEF OnActivate, Around

LEMMA TypedNext == Typed /\ [Next]_vars => Typed'
<1> SUFFICES ASSUME Typed, [Next]_vars PROVE Typed'
  OBVIOUS
<1>1. CASE LockExpires
  BY <1>1 DEF LockExpires, Typed, TypeOK, StepInRange, AtMostOne, installed, db
<1>2. CASE Upgrade
  BY <1>2, ActivationAssumption
  DEF Upgrade, Typed, TypeOK, StepInRange, Versions, db
<1>3. CASE UNCHANGED vars
  BY <1>3 DEF vars, Typed, TypeOK, StepInRange, installed, db
<1> QED
  BY <1>1, <1>2, <1>3, TypedStep DEF Next

\* Every variable of an activation keeps its type.
THEOREM ActivationTypeCorrect == Spec => []TypeOK
<1>1. Typed => TypeOK
  BY DEF Typed
<1> QED
  BY <1>1, TypedInit, TypedNext, PTL DEF Spec

----------------------------------------------------------------------------
(* What the database holds.                                                *)

\* The schema has what the queries use of a migration's statements.
Done(v, S) == \A k \in 1..Len(Migration[v]) : At(v, k).adds \intersect Queried \subseteq S

\* What a statement looks up vouches for what it adds.
Guarded(S) ==
    \A v \in Versions : \A k \in 1..Len(Migration[v]) :
        At(v, k).unless # {} /\ At(v, k).unless \subseteq S
            => At(v, k).adds \intersect Queried \subseteq S

Sound(S) == Guarded(S) /\ \A v \in applied : Done(v, S)

\* What a node that applies a migration sees.
ViewSound(n) ==
    node[n].pc \in {"prepare", "execute", "record"} =>
        /\ Sound(node[n].view)
        /\ node[n].version \in applied \union node[n].todo
        /\ \A k \in 1..Len(Migration[node[n].version]) :
             k < node[n].step \/ node[n].pc = "record" =>
                 At(node[n].version, k).adds \intersect Queried \subseteq node[n].view
        /\ node[n].pc = "execute" =>
             node[n].needed = Needed(Current(node[n]), node[n].view)
        /\ database = "mysql" => node[n].view = schema

\* Which versions are left to a node, or to nobody.
LeftSound(n) ==
    /\ node[n].pc \in {"begin", "prepare", "execute", "record"}
         => (1..release) \ applied \subseteq node[n].todo
    /\ node[n].pc \in {"close", "bot", "job"} \union Working => 1..release \subseteq applied

\* A node that migrates holds the lock.
LockHeld == \A n \in Node : node[n].pc \in Migrating => lock = {n}

IInv == /\ Typed
        /\ LockHeld
        /\ Sound(schema)
        /\ \A n \in Node : ViewSound(n) /\ LeftSound(n)

----------------------------------------------------------------------------
\* Executing a statement keeps what the queries use.
LEMMA ExecutedKeeps ==
    ASSUME NEW v \in Versions, NEW k \in 1..Len(Migration[v]), NEW S
    PROVE  S \intersect Queried \subseteq Executed(At(v, k), S)
BY MigrationRules DEF Executed

LEMMA ExecutedGuarded ==
    ASSUME NEW v \in Versions, NEW k \in 1..Len(Migration[v]), NEW S, Guarded(S)
    PROVE  Guarded(Executed(At(v, k), S))
<1> DEFINE E == Executed(At(v, k), S)
<1> SUFFICES ASSUME NEW w \in Versions, NEW l \in 1..Len(Migration[w]),
                    At(w, l).unless # {}, At(w, l).unless \subseteq E
             PROVE  At(w, l).adds \intersect Queried \subseteq E
  BY DEF Guarded
<1>1. CASE At(w, l).unless \intersect At(v, k).adds = {}
  <2>1. At(w, l).unless \subseteq S
    BY <1>1 DEF Executed
  <2>2. At(w, l).adds \intersect Queried \subseteq S
    BY <2>1 DEF Guarded
  <2> QED
    BY <2>2, ExecutedKeeps
<1>2. CASE At(w, l).unless \intersect At(v, k).adds # {}
  <2>1. w = v /\ l = k
    BY <1>2, MigrationRules
  <2> QED
    BY <2>1 DEF Executed
<1> QED
  BY <1>1, <1>2

LEMMA ExecutedSound ==
    ASSUME TypeOK, NEW v \in Versions, NEW k \in 1..Len(Migration[v]), NEW S, Sound(S)
    PROVE  Sound(Executed(At(v, k), S))
<1>1. Guarded(Executed(At(v, k), S))
  BY ExecutedGuarded DEF Sound
<1>2. ASSUME NEW w \in applied PROVE Done(w, Executed(At(v, k), S))
  <2>1. Done(w, S)
    BY DEF Sound
  <2>2. S \intersect Queried \subseteq Executed(At(v, k), S)
    BY ExecutedKeeps
  <2> QED
    BY <2>1, <2>2 DEF Done
<1> QED
  BY <1>1, <1>2 DEF Sound

----------------------------------------------------------------------------
(* The steps.                                                              *)

\* A step of n that leaves the database alone.
LEMMA QuietStep ==
    ASSUME IInv, Typed', NEW n \in Node, UNCHANGED <<installed, db>>,
           \A m \in Node \ {n} : node'[m] = node[m],
           \A m \in Node \ {n} : node[m].pc \in Migrating => lock' = {m},
           node'[n].pc \in Migrating => lock' = {n},
           ViewSound(n)', LeftSound(n)'
    PROVE  IInv'
<1>1. LockHeld'
  BY DEF IInv, LockHeld
<1>2. Sound(schema)'
  BY DEF IInv, Sound, Guarded, Done, db
<1>3. ASSUME NEW m \in Node PROVE ViewSound(m)' /\ LeftSound(m)'
  <2>1. CASE m = n
    BY <2>1
  <2>2. CASE m # n
    <3>1. node'[m] = node[m] /\ ViewSound(m) /\ LeftSound(m)
      BY <2>2 DEF IInv
    <3>2. UNCHANGED <<database, release, schema, applied>>
      BY DEF installed, db
    <3>3. ViewSound(m)'
      BY <3>1, <3>2 DEF ViewSound, Sound, Guarded, Done, Needed, Current
    <3>4. LeftSound(m)'
      BY <3>1, <3>2 DEF LeftSound
    <3> QED
      BY <3>3, <3>4
  <2> QED
    BY <2>1, <2>2
<1> QED
  BY <1>1, <1>2, <1>3 DEF IInv

\* Only the lock's holder migrates.
LEMMA Alone ==
    ASSUME LockHeld, NEW n \in Node, NEW m \in Node \ {n}, node[n].pc \in Migrating
    PROVE  node[m].pc \notin Migrating
BY DEF LockHeld

\* A step of the node that migrates.
LEMMA MigratingStep ==
    ASSUME IInv, Typed', NEW n \in Node, node[n].pc \in Migrating,
           UNCHANGED <<installed, lock>>, applied \subseteq applied',
           \A m \in Node \ {n} : node'[m] = node[m],
           Sound(schema)', ViewSound(n)', LeftSound(n)'
    PROVE  IInv'
<1>1. LockHeld'
  BY DEF IInv, LockHeld
<1>2. ASSUME NEW m \in Node \ {n} PROVE ViewSound(m)' /\ LeftSound(m)'
  <2>1. node'[m] = node[m] /\ node[m].pc \notin Migrating /\ LeftSound(m)
    BY Alone DEF IInv
  <2>2. UNCHANGED release
    BY DEF installed
  <2> QED
    BY <2>1, <2>2 DEF ViewSound, LeftSound, Migrating
<1> QED
  BY <1>1, <1>2 DEF IInv

\* A node that goes on in front of or after the migration.
LEMMA MoveOn ==
    ASSUME IInv, Typed', NEW n \in Node, UNCHANGED <<installed, db>>,
           NEW pc, Goto(n, pc) \/ Restart(n, pc),
           pc \notin {"begin", "prepare", "execute", "record"},
           pc \in {"close", "bot", "job"} \union Working =>
               node[n].pc \in {"close", "bot", "job"} \union Working,
           \A m \in Node \ {n} : node[m].pc \in Migrating => lock' = {m},
           pc \in Migrating => lock' = {n}
    PROVE  IInv'
<1>1. node'[n].pc = pc
  BY IdleSteps DEF IInv, Typed, TypeOK, Activation, Goto, Restart
<1>2. \A m \in Node \ {n} : node'[m] = node[m]
  BY DEF IInv, Typed, TypeOK, Goto, Restart
<1>3. ViewSound(n)'
  BY <1>1 DEF ViewSound
<1>4. LeftSound(n)'
  <2>1. LeftSound(n) /\ UNCHANGED <<release, applied>>
    BY DEF IInv, installed, db
  <2> QED
    BY <1>1, <2>1 DEF LeftSound
<1> QED
  BY <1>1, <1>2, <1>3, <1>4, QuietStep

LEMMA InvInit == Init => IInv
<1> SUFFICES ASSUME Init PROVE IInv
  OBVIOUS
<1>1. Idle("down").pc = "down"
  BY IdleSteps
<1>2. \A n \in Node : node[n].pc = "down"
  BY <1>1 DEF Init
<1>3. LockHeld
  BY <1>2 DEF LockHeld, Migrating
<1>4. \A n \in Node : ViewSound(n) /\ LeftSound(n)
  BY <1>2 DEF ViewSound, LeftSound, Working
<1>5. Sound(schema)
  <2>1. schema = {} /\ applied = {}
    BY DEF Init
  <2> QED
    BY <2>1 DEF Sound, Guarded
<1> QED
  BY <1>3, <1>4, <1>5, TypedInit DEF IInv

LEMMA InvStep ==
    ASSUME IInv, NEW n \in Node, OnActivate(n) \/ Around(n)
    PROVE  IInv'
<1>t. Typed /\ Typed' /\ node[n] \in Activation
  BY TypedStep DEF IInv, Typed, TypeOK
<1>h. \A m \in Node \ {n} : node[m].pc \in Migrating => lock = {m}
  BY DEF IInv, LockHeld
<1>1. CASE Activate(n)
  BY <1>1, <1>t, <1>h, MoveOn DEF Activate, Migrating, Working
<1>2. CASE GetSchemaName(n)
  BY <1>2, <1>t, <1>h, MoveOn DEF GetSchemaName, Migrating, Working
<1>3. CASE NewEngine(n)
  <2>1. \A m \in Node \ {n} : node[m].pc \notin Migrating
    BY <1>3, <1>h DEF NewEngine
  <2> QED
    BY <1>3, <2>1, <1>t, MoveOn DEF NewEngine, Working
<1>4. CASE Pending(n)
  <2>1. PICK todo : todo = (1..release) \ applied
    OBVIOUS
  <2>2. PICK pc : pc = IF todo = {} THEN "close" ELSE "begin"
    OBVIOUS
  <2>3. PICK new : new = [Idle(pc) EXCEPT !.todo = todo]
    OBVIOUS
  <2>4. node' = [node EXCEPT ![n] = new]
    BY <1>4, <2>1, <2>2, <2>3 DEF Pending
  <2>5. new.pc = pc /\ new.todo = todo
    BY <2>3 DEF Idle
  <2>6. node'[n].pc = pc /\ node'[n].todo = todo /\ \A m \in Node \ {n} : node'[m] = node[m]
    BY <2>4, <2>5, <1>t DEF Typed, TypeOK
  <2>7. UNCHANGED <<release, applied>>
    BY <1>4 DEF Pending, installed, db
  <2>8. ViewSound(n)'
    BY <2>2, <2>6 DEF ViewSound
  <2>9. LeftSound(n)'
    <3>1. pc = "close" => 1..release \subseteq applied
      BY <2>1, <2>2
    <3> QED
      BY <2>1, <2>2, <2>6, <2>7, <3>1 DEF LeftSound, Working
  <2>10. lock = {n} /\ UNCHANGED <<installed, db, lock>>
    BY <1>4 DEF Pending, IInv, LockHeld, Migrating
  <2> QED
    BY <2>6, <2>8, <2>9, <2>10, <1>t, <1>h, QuietStep
<1>5. CASE BeginMigration(n)
  <2>1. PICK v \in node[n].todo :
          node' = [node EXCEPT ![n].pc = "prepare", ![n].version = v,
                               ![n].step = 1, ![n].view = schema]
    BY <1>5 DEF BeginMigration
  <2>2. PICK new : new = [node[n] EXCEPT !.pc = "prepare", !.version = v, !.step = 1,
                                         !.view = schema]
    OBVIOUS
  <2>3. node' = [node EXCEPT ![n] = new]
    BY <2>1, <2>2
  <2>4. /\ new.pc = "prepare" /\ new.version = v /\ new.step = 1 /\ new.view = schema
        /\ new.todo = node[n].todo
    BY <2>2, <1>t DEF Activation
  <2>5. node'[n] = new /\ \A m \in Node \ {n} : node'[m] = node[m]
    BY <2>3, <1>t DEF Typed, TypeOK
  <2>6. lock = {n} /\ UNCHANGED <<installed, db, lock>> /\ Sound(schema) /\ LeftSound(n)
    BY <1>5 DEF BeginMigration, IInv, LockHeld, Migrating
  <2>7. UNCHANGED <<database, release, schema, applied>>
    BY <2>6 DEF installed, db
  <2>8. Sound(schema)'
    BY <2>6, <2>7 DEF Sound, Guarded, Done
  <2>9. ViewSound(n)'
    <3>1. Sound(node[n].view)'
      BY <2>4, <2>5, <2>7, <2>8 DEF Sound, Guarded, Done
    <3>2. \A k \in 1..Len(Migration[v]) : ~(k < 1)
      OBVIOUS
    <3> QED
      BY <2>1, <2>4, <2>5, <2>7, <3>1, <3>2 DEF ViewSound
  <2>10. LeftSound(n)'
    BY <1>5, <2>4, <2>5, <2>6, <2>7 DEF LeftSound, Working, BeginMigration
  <2> QED
    BY <2>5, <2>6, <2>9, <2>10, <1>t, <1>h, QuietStep
<1>6. CASE Prepare(n)
  <2>1. PICK b : b = Needed(Current(node[n]), node[n].view)
    OBVIOUS
  <2>2. PICK new : new = [node[n] EXCEPT !.pc = "execute", !.needed = b]
    OBVIOUS
  <2>3. node' = [node EXCEPT ![n] = new]
    BY <1>6, <2>1, <2>2 DEF Prepare
  <2>4. /\ new.pc = "execute" /\ new.needed = b /\ new.version = node[n].version
        /\ new.step = node[n].step /\ new.view = node[n].view /\ new.todo = node[n].todo
    BY <2>2, <1>t DEF Activation
  <2>5. node'[n] = new /\ \A m \in Node \ {n} : node'[m] = node[m]
    BY <2>3, <1>t DEF Typed, TypeOK
  <2>6. /\ lock = {n} /\ UNCHANGED <<installed, db, lock>>
        /\ ViewSound(n) /\ LeftSound(n) /\ node[n].pc = "prepare"
    BY <1>6 DEF Prepare, IInv, LockHeld, Migrating
  <2>7. UNCHANGED <<database, release, schema, applied>>
    BY <2>6 DEF installed, db
  <2>8. Sound(node[n].view) /\ Sound(node[n].view)'
    BY <2>4, <2>5, <2>6, <2>7 DEF ViewSound, Sound, Guarded, Done
  <2>9. ViewSound(n)'
    BY <2>1, <2>4, <2>5, <2>6, <2>7, <2>8 DEF ViewSound, Needed, Current
  <2>10. LeftSound(n)'
    BY <2>4, <2>5, <2>6, <2>7 DEF LeftSound, Working
  <2> QED
    BY <2>5, <2>6, <2>9, <2>10, <1>t, <1>h, QuietStep
<1>7. CASE Execute(n)
  <2>1. PICK q : q = node[n]
    OBVIOUS
  <2>2. PICK view : view = IF q.needed THEN Executed(Current(q), q.view) ELSE q.view
    OBVIOUS
  <2>3. PICK len : len = Len(Migration[q.version])
    OBVIOUS
  <2>4. /\ q.pc = "execute" /\ q \in Activation /\ q.step \in 1..len /\ len \in Nat
        /\ q.version \in Versions
    BY <1>7, <1>t, <2>1, <2>3, ActivationAssumption
    DEF Execute, Typed, StepInRange, Activation
  <2>5. /\ lock = {n} /\ UNCHANGED <<installed, applied, lock>>
        /\ ViewSound(n) /\ LeftSound(n) /\ Sound(schema)
    BY <1>7, <2>1, <2>4 DEF Execute, IInv, LockHeld, Migrating
  <2>6. UNCHANGED <<database, release, applied>>
    BY <2>5 DEF installed
  <2>7. CASE Restart(n, "abort") /\ UNCHANGED schema
    BY <2>5, <2>7, <1>t, <1>h, MoveOn DEF Migrating, Working, db
  <2>8. CASE /\ node' = [node EXCEPT ![n].pc = IF IsLast(q) THEN "record" ELSE "prepare",
                                     ![n].step = IF IsLast(q) THEN @ ELSE @ + 1,
                                     ![n].view = view]
             /\ schema' = IF database = "mysql" THEN view ELSE schema
    <3>1. PICK pc : pc = IF IsLast(q) THEN "record" ELSE "prepare"
      OBVIOUS
    <3>2. PICK step : step = IF IsLast(q) THEN q.step ELSE q.step + 1
      OBVIOUS
    <3>3. PICK new : new = [q EXCEPT !.pc = pc, !.step = step, !.view = view]
      OBVIOUS
    <3>4. node' = [node EXCEPT ![n] = new]
      BY <2>1, <2>8, <3>1, <3>2, <3>3
    <3>5. /\ new.pc = pc /\ new.step = step /\ new.view = view
          /\ new.version = q.version /\ new.todo = q.todo
      BY <2>4, <3>3 DEF Activation
    <3>6. node'[n] = new /\ \A m \in Node \ {n} : node'[m] = node[m]
      BY <3>4, <1>t DEF Typed, TypeOK
    <3>7. Sound(q.view)
      BY <2>1, <2>4, <2>5 DEF ViewSound
    <3>8. Current(q) = At(q.version, q.step) /\ q.step \in 1..Len(Migration[q.version])
      BY <2>3, <2>4 DEF Current
    <3>9. Sound(view)
      <4>1. Sound(Executed(Current(q), q.view))
        BY <2>4, <3>7, <3>8, <1>t, ExecutedSound DEF Typed
      <4> QED
        BY <2>2, <3>7, <4>1
    <3>10. Current(q).adds \intersect Queried \subseteq view
      <4>1. CASE q.needed
        BY <2>2, <4>1 DEF Executed
      <4>2. CASE ~q.needed
        <5>1. ~Needed(Current(q), q.view)
          BY <2>1, <2>4, <2>5, <4>2 DEF ViewSound
        <5> QED
          BY <2>2, <2>4, <3>7, <3>8, <4>2, <5>1 DEF Needed, Sound, Guarded
      <4> QED
        BY <4>1, <4>2
    <3>11. \A k \in 1..len : k < q.step =>
              At(q.version, k).adds \intersect Queried \subseteq view
      <4>1. SUFFICES ASSUME NEW k \in 1..len, k < q.step
                     PROVE  At(q.version, k).adds \intersect Queried \subseteq view
        OBVIOUS
      <4>2. At(q.version, k).adds \intersect Queried \subseteq q.view
        BY <2>1, <2>3, <2>4, <2>5, <4>1 DEF ViewSound
      <4>3. q.view \intersect Queried \subseteq Executed(Current(q), q.view)
        BY <2>4, <3>8, ExecutedKeeps
      <4> QED
        BY <2>2, <4>2, <4>3
    <3>12. \A k \in 1..len : k < step \/ pc = "record" => k < q.step \/ k = q.step
      BY <2>3, <2>4, <3>1, <3>2 DEF IsLast
    <3>13. \A k \in 1..len : k < step \/ pc = "record" =>
              At(q.version, k).adds \intersect Queried \subseteq view
      BY <3>8, <3>10, <3>11, <3>12
    <3>14. Sound(view)'
      BY <2>6, <3>9 DEF Sound, Guarded, Done
    <3>15. Sound(schema)'
      <4>1. schema' = view \/ schema' = schema
        BY <2>8
      <4> QED
        BY <2>5, <2>6, <3>9, <4>1 DEF Sound, Guarded, Done
    <3>16. ViewSound(n)'
      <4>1. Sound(node[n].view)'
        BY <3>5, <3>6, <3>14 DEF Sound, Guarded, Done
      <4>2. q.version \in applied \union q.todo
        BY <2>1, <2>4, <2>5 DEF ViewSound
      <4>3. database' = "mysql" => node'[n].view = schema'
        BY <2>6, <2>8, <3>5, <3>6
      <4>4. node'[n].pc # "execute"
        BY <3>1, <3>5, <3>6
      <4>5. \A k \in 1..Len(Migration[node'[n].version]) :
              k < node'[n].step \/ node'[n].pc = "record" =>
                At(node'[n].version, k).adds \intersect Queried \subseteq node'[n].view
        BY <2>3, <3>5, <3>6, <3>13
      <4> QED
        BY <2>6, <3>5, <3>6, <4>1, <4>2, <4>3, <4>4, <4>5 DEF ViewSound
    <3>17. LeftSound(n)'
      BY <2>1, <2>4, <2>5, <2>6, <3>1, <3>5, <3>6 DEF LeftSound, Working
    <3>18. node[n].pc \in Migrating
      BY <2>1, <2>4 DEF Migrating
    <3> QED
      BY <2>5, <3>6, <3>15, <3>16, <3>17, <3>18, <1>t, MigratingStep
  <2> QED
    BY <1>7, <2>1, <2>2, <2>7, <2>8 DEF Execute
<1>8. CASE Record(n)
  <2>1. PICK q : q = node[n]
    OBVIOUS
  <2>2. PICK todo : todo = q.todo \ {q.version}
    OBVIOUS
  <2>3. /\ q.pc = "record" /\ q \in Activation /\ node[n].pc \in Migrating
        /\ UNCHANGED <<installed, lock>> /\ schema' = q.view
        /\ applied' = applied \union {q.version}
    BY <1>8, <1>t, <2>1 DEF Record, Migrating
  <2>4. UNCHANGED <<database, release>>
    BY <2>3 DEF installed
  <2>5. ViewSound(n) /\ LeftSound(n)
    BY DEF IInv
  <2>6. Sound(q.view) /\ Done(q.version, q.view)
    BY <2>1, <2>3, <2>5 DEF ViewSound, Done
  <2>7. Sound(schema)'
    BY <2>3, <2>6 DEF Sound, Guarded, Done
  <2>8. (1..release) \ applied' \subseteq todo
    BY <2>1, <2>2, <2>3, <2>5 DEF LeftSound
  <2>9. CASE todo = {} /\ Restart(n, "close")
    <3>1. node'[n].pc = "close" /\ \A m \in Node \ {n} : node'[m] = node[m]
      BY <2>9, <1>t, IdleSteps DEF Restart, Typed, TypeOK
    <3>2. ViewSound(n)'
      BY <3>1 DEF ViewSound
    <3>3. LeftSound(n)'
      BY <2>4, <2>8, <2>9, <3>1 DEF LeftSound, Working
    <3> QED
      BY <2>3, <2>7, <3>1, <3>2, <3>3, <1>t, MigratingStep
  <2>10. CASE node' = [node EXCEPT ![n].todo = todo, ![n].pc = "begin"]
    <3>1. /\ node'[n].pc = "begin" /\ node'[n].todo = todo
          /\ \A m \in Node \ {n} : node'[m] = node[m]
      BY <2>1, <2>3, <2>10, <1>t DEF Typed, TypeOK, Activation
    <3>2. ViewSound(n)'
      BY <3>1 DEF ViewSound
    <3>3. LeftSound(n)'
      BY <2>4, <2>8, <3>1 DEF LeftSound, Working
    <3> QED
      BY <2>3, <2>7, <3>1, <3>2, <3>3, <1>t, MigratingStep
  <2> QED
    BY <1>8, <2>1, <2>2, <2>9, <2>10 DEF Record
<1>9. CASE CloseEngine(n)
  <2>1. \A m \in Node \ {n} : node[m].pc \in Migrating => lock' = {m}
    BY <1>9, <1>h DEF CloseEngine
  <2>2. PICK pc \in {"bot", "failed"} :
          Restart(n, pc) /\ (pc = "bot" => node[n].pc = "close")
    BY <1>9 DEF CloseEngine
  <2>3. pc \notin Migrating
    BY <2>2 DEF Migrating
  <2> QED
    BY <1>9, <2>1, <2>2, <2>3, <1>t, MoveOn DEF CloseEngine, Working
<1>10. CASE EnsureBot(n)
  BY <1>10, <1>t, <1>h, MoveOn DEF EnsureBot, Migrating, Working
<1>11. CASE StartManageSurveyJob(n)
  BY <1>11, <1>t, <1>h, MoveOn DEF StartManageSurveyJob, Migrating, Working
<1>12. CASE ClearStaleLocks(n)
  <2>1. PICK pc \in {"command", "active"} : Goto(n, pc)
    BY <1>12 DEF ClearStaleLocks
  <2> QED
    BY <1>12, <2>1, <1>t, <1>h, MoveOn DEF ClearStaleLocks, Migrating, Working
<1>13. CASE RegisterDebugCommands(n)
  BY <1>13, <1>t, <1>h, MoveOn DEF RegisterDebugCommands, Migrating, Working
<1>14. CASE Respond(n)
  <2>1. UNCHANGED <<installed, db, lock, node>>
    BY <1>14 DEF Respond
  <2>2. ViewSound(n) /\ LeftSound(n) /\ LockHeld
    BY DEF IInv
  <2>3. ViewSound(n)' /\ LeftSound(n)'
    BY <2>1, <2>2 DEF installed, db, ViewSound, LeftSound, Sound, Guarded, Done, Needed, Current
  <2> QED
    BY <2>1, <2>2, <2>3, <1>t, QuietStep DEF LockHeld
<1>15. CASE OnDeactivate(n)
  BY <1>15, <1>t, <1>h, MoveOn DEF OnDeactivate, Migrating, Working
<1>16. CASE CallFails(n)
  <2>1. CASE node[n].pc \in Migrating
    <3>1. lock = {n}
      BY <2>1 DEF IInv, LockHeld
    <3> QED
      BY <1>16, <2>1, <3>1, <1>t, <1>h, MoveOn DEF CallFails, Working
  <2>2. CASE node[n].pc \notin Migrating
    BY <1>16, <2>2, <1>t, <1>h, MoveOn DEF CallFails, Migrating, Working
  <2> QED
    BY <2>1, <2>2
<1>17. CASE NodeDies(n)
  BY <1>17, <1>t, <1>h, MoveOn DEF NodeDies, Migrating, Working
<1> QED
  BY <1>1, <1>2, <1>3, <1>4, <1>5, <1>6, <1>7, <1>8, <1>9, <1>10, <1>11, <1>12,
     <1>13, <1>14, <1>15, <1>16, <1>17 DEF OnActivate, Around

LEMMA InvNext == IInv /\ [Next]_vars => IInv'
<1> SUFFICES ASSUME IInv, [Next]_vars PROVE IInv'
  OBVIOUS
<1>t. Typed'
  BY TypedNext DEF IInv
<1>u. ASSUME UNCHANGED <<database, schema, applied, node>>,
             \A n \in Node : LeftSound(n)', LockHeld'
      PROVE  IInv'
  <2>1. Sound(schema)'
    BY <1>u DEF IInv, Sound, Guarded, Done
  <2>2. ASSUME NEW n \in Node PROVE ViewSound(n)'
    <3>1. ViewSound(n)
      BY DEF IInv
    <3> QED
      BY <1>u, <3>1 DEF ViewSound, Sound, Guarded, Done, Needed, Current
  <2> QED
    BY <1>t, <1>u, <2>1, <2>2 DEF IInv
<1>1. CASE LockExpires
  <2>1. UNCHANGED <<database, release, schema, applied, node>>
    BY <1>1 DEF LockExpires, installed, db
  <2>2. \A n \in Node : LeftSound(n)'
    BY <2>1 DEF IInv, LeftSound
  <2>3. LockHeld'
    <3>1. PICK n \in lock : node[n].pc \notin Migrating
      BY <1>1 DEF LockExpires, Migrating, Down
    <3>2. \A m \in Node : node[m].pc \notin Migrating
      BY <3>1 DEF IInv, LockHeld
    <3> QED
      BY <2>1, <3>2 DEF LockHeld
  <2> QED
    BY <1>u, <2>1, <2>2, <2>3
<1>2. CASE Upgrade
  <2>1. UNCHANGED <<database, schema, applied, node, lock>>
    BY <1>2 DEF Upgrade, db
  <2>2. \A n \in Node : LeftSound(n)'
    BY <1>2, <2>1 DEF Upgrade, Down, LeftSound, Working
  <2>3. LockHeld'
    BY <2>1 DEF IInv, LockHeld
  <2> QED
    BY <1>u, <2>1, <2>2, <2>3
<1>3. CASE UNCHANGED vars
  <2>1. UNCHANGED <<database, release, schema, applied, node, lock>>
    BY <1>3 DEF vars, installed, db
  <2>2. \A n \in Node : LeftSound(n)'
    BY <2>1 DEF IInv, LeftSound
  <2>3. LockHeld'
    BY <2>1 DEF IInv, LockHeld
  <2> QED
    BY <1>u, <2>1, <2>2, <2>3
<1> QED
  BY <1>1, <1>2, <1>3, InvStep DEF Next

LEMMA InvQueries == IInv => QueriesFindTheirColumns
<1> SUFFICES ASSUME IInv, NEW n \in Node, node[n].pc \in Working, release = Last,
                    NEW c \in Queried
             PROVE  c \in schema
  BY DEF QueriesFindTheirColumns
<1>1. PICK v \in Versions : \E k \in 1..Len(Migration[v]) : c \in At(v, k).adds
  BY MigrationRules
<1>2. v \in applied
  BY <1>1 DEF IInv, LeftSound, Versions
<1>3. Done(v, schema)
  BY <1>2 DEF IInv, Sound
<1> QED
  BY <1>1, <1>3 DEF Done

\* On a node where the job runs or requests are served, the database has every
\* column the store queries, whatever died or failed before.
THEOREM SchemaFitsQueries == Spec => []QueriesFindTheirColumns
BY InvInit, InvNext, InvQueries, PTL DEF Spec

----------------------------------------------------------------------------
(* What a statement needs.                                                 *)

\* A statement that drops c has been executed, and will not be again.
Replaced(c, S) ==
    \E v \in Versions : \E k \in 1..Len(Migration[v]) :
        /\ c \in At(v, k).drops
        /\ At(v, k).unless # {}
        /\ At(v, k).unless \subseteq S

Held(c, S) == c \in S \/ Replaced(c, S)

Provided(v, k, S) == \A c \in At(v, k).adds : Held(c, S)

\* What a statement looks up vouches for all that it adds.
Vouched(S) ==
    \A v \in Versions : \A k \in 1..Len(Migration[v]) :
        At(v, k).unless # {} /\ At(v, k).unless \subseteq S => Provided(v, k, S)

Whole(S) ==
    /\ Vouched(S)
    /\ \A v \in applied : \A k \in 1..Len(Migration[v]) : Provided(v, k, S)

\* Versions are applied in their order; of the one being applied, the statements
\* before the next are done.
InOrder(n) ==
    /\ node[n].pc \in {"begin", "prepare", "execute", "record"} =>
         node[n].todo = (1..release) \ applied
    /\ node[n].pc \in {"prepare", "execute", "record"} =>
         /\ node[n].version \in node[n].todo
         /\ \A w \in 1..release : w < node[n].version => w \in applied
         /\ Whole(node[n].view)
         /\ \A k \in 1..Len(Migration[node[n].version]) :
              k < node[n].step \/ node[n].pc = "record" =>
                  Provided(node[n].version, k, node[n].view)

OrderInv == Whole(schema) /\ \A n \in Node : InOrder(n)

LEMMA ExecutedHolds ==
    ASSUME NEW v \in Versions, NEW k \in 1..Len(Migration[v]), NEW S, NEW c, Held(c, S)
    PROVE  Held(c, Executed(At(v, k), S))
<1> DEFINE E == Executed(At(v, k), S)
<1>1. CASE c \in E
  BY <1>1 DEF Held
<1>2. CASE c \in S /\ c \notin E
  <2>1. c \in At(v, k).drops
    BY <1>2 DEF Executed
  <2>2. At(v, k).unless # {} /\ At(v, k).unless \subseteq E
    BY <2>1, RerunRules DEF Executed
  <2> QED
    BY <2>1, <2>2 DEF Held, Replaced
<1>3. CASE c \notin S
  <2>0. PICK w \in Versions : \E l \in 1..Len(Migration[w]) :
          /\ c \in At(w, l).drops /\ At(w, l).unless # {}
          /\ At(w, l).unless \subseteq S
    BY <1>3 DEF Held, Replaced
  <2>1. PICK l \in 1..Len(Migration[w]) :
          /\ c \in At(w, l).drops /\ At(w, l).unless # {}
          /\ At(w, l).unless \subseteq S
    BY <2>0
  <2>2. At(v, k).drops \intersect At(w, l).unless = {}
    BY RerunRules
  <2>3. At(w, l).unless \subseteq E
    BY <2>1, <2>2 DEF Executed
  <2> QED
    BY <2>1, <2>3 DEF Held, Replaced
<1> QED
  BY <1>1, <1>2, <1>3

LEMMA ExecutedProvides ==
    ASSUME NEW v \in Versions, NEW k \in 1..Len(Migration[v]), NEW S
    PROVE  /\ Provided(v, k, Executed(At(v, k), S))
           /\ \A w \in Versions : \A l \in 1..Len(Migration[w]) :
                Provided(w, l, S) => Provided(w, l, Executed(At(v, k), S))
<1>1. At(v, k).adds \subseteq Executed(At(v, k), S)
  BY DEF Executed
<1> QED
  BY <1>1, ExecutedHolds DEF Provided, Held

LEMMA ExecutedWhole ==
    ASSUME TypeOK, NEW v \in Versions, NEW k \in 1..Len(Migration[v]), NEW S, Whole(S)
    PROVE  Whole(Executed(At(v, k), S))
<1> DEFINE E == Executed(At(v, k), S)
<1>1. ASSUME NEW w \in Versions, NEW l \in 1..Len(Migration[w]),
             At(w, l).unless # {}, At(w, l).unless \subseteq E
      PROVE  Provided(w, l, E)
  <2>1. CASE At(w, l).unless \intersect At(v, k).adds = {}
    <3>1. At(w, l).unless \subseteq S
      BY <1>1, <2>1 DEF Executed
    <3>2. Provided(w, l, S)
      BY <1>1, <3>1 DEF Whole, Vouched
    <3> QED
      BY <3>2, ExecutedProvides
  <2>2. CASE At(w, l).unless \intersect At(v, k).adds # {}
    <3>1. w = v /\ l = k
      BY <2>2, MigrationRules
    <3> QED
      BY <3>1, ExecutedProvides
  <2> QED
    BY <2>1, <2>2
<1>2. Vouched(E)
  BY <1>1 DEF Vouched
<1>3. ASSUME NEW w \in applied, NEW l \in 1..Len(Migration[w])
      PROVE  Provided(w, l, E)
  <2>1. w \in Versions /\ Provided(w, l, S)
    BY DEF TypeOK, Whole
  <2> QED
    BY <2>1, ExecutedProvides
<1> QED
  BY <1>2, <1>3 DEF Whole

\* A step in front of or after the migration, of n.
LEMMA OrderAside ==
    ASSUME OrderInv, UNCHANGED <<release, db>>, NEW n \in Node,
           \A m \in Node \ {n} : node'[m] = node[m],
           node'[n].pc \notin {"begin", "prepare", "execute", "record"}
    PROVE  OrderInv'
<1>1. UNCHANGED <<schema, applied>>
  BY DEF db
<1>2. Whole(schema)'
  BY <1>1 DEF OrderInv, Whole
<1>3. ASSUME NEW m \in Node PROVE InOrder(m)'
  <2>1. CASE m = n
    BY <2>1 DEF InOrder
  <2>2. CASE m # n
    BY <1>1, <2>2 DEF OrderInv, InOrder, Whole
  <2> QED
    BY <2>1, <2>2
<1> QED
  BY <1>2, <1>3 DEF OrderInv

\* A step of the node that migrates.
LEMMA OrderAlone ==
    ASSUME IInv, OrderInv, NEW n \in Node, node[n].pc \in Migrating,
           \A m \in Node \ {n} : node'[m] = node[m],
           Whole(schema)', InOrder(n)'
    PROVE  OrderInv'
<1>1. ASSUME NEW m \in Node \ {n} PROVE InOrder(m)'
  <2>1. node[m].pc \notin Migrating
    BY Alone DEF IInv
  <2> QED
    BY <2>1 DEF InOrder, Migrating
<1> QED
  BY <1>1 DEF OrderInv

\* What a node knows, from the record of its activation.
LEMMA OrderKept ==
    ASSUME OrderInv, NEW n \in Node, UNCHANGED <<release, schema, applied>>,
           InOrder(n)', \A m \in Node \ {n} : node'[m] = node[m]
    PROVE  OrderInv'
<1>1. Whole(schema)'
  BY DEF OrderInv, Whole
<1>2. ASSUME NEW m \in Node PROVE InOrder(m)'
  BY DEF OrderInv, InOrder, Whole
<1> QED
  BY <1>1, <1>2 DEF OrderInv

LEMMA OrderStep ==
    ASSUME IInv, OrderInv, NEW n \in Node, OnActivate(n) \/ Around(n)
    PROVE  OrderInv'
<1>t. Typed /\ Typed' /\ node \in [Node -> Activation] /\ node[n] \in Activation
  BY TypedStep DEF IInv, Typed, TypeOK
<1>a. ASSUME NEW pc, Goto(n, pc) \/ Restart(n, pc),
             pc \notin {"begin", "prepare", "execute", "record"},
             UNCHANGED <<installed, db>>
      PROVE  OrderInv'
  <2>1. node'[n].pc = pc /\ \A m \in Node \ {n} : node'[m] = node[m]
    BY <1>t, <1>a, IdleSteps DEF Goto, Restart, Activation
  <2> QED
    BY <1>a, <2>1, OrderAside DEF installed
<1>1. CASE Activate(n)
  BY <1>1, <1>a DEF Activate
<1>2. CASE GetSchemaName(n)
  BY <1>2, <1>a DEF GetSchemaName
<1>3. CASE NewEngine(n)
  BY <1>3, <1>a DEF NewEngine
<1>4. CASE Pending(n)
  <2>1. PICK todo : todo = (1..release) \ applied
    OBVIOUS
  <2>2. PICK pc \in {"close", "begin"} :
          node' = [node EXCEPT ![n] = [Idle(pc) EXCEPT !.todo = todo]]
    BY <1>4, <2>1 DEF Pending
  <2>3. PICK new : new = [Idle(pc) EXCEPT !.todo = todo]
    OBVIOUS
  <2>4. new.pc = pc /\ new.todo = todo
    BY <2>3 DEF Idle
  <2>5. node'[n] = new /\ \A m \in Node \ {n} : node'[m] = node[m]
    BY <1>t, <2>2, <2>3
  <2>6. UNCHANGED <<release, schema, applied>>
    BY <1>4 DEF Pending, installed, db
  <2>7. InOrder(n)'
    BY <2>1, <2>2, <2>4, <2>5, <2>6 DEF InOrder
  <2> QED
    BY <2>5, <2>6, <2>7, OrderKept
<1>5. CASE BeginMigration(n)
  <2>1. PICK v \in node[n].todo :
          /\ \A w \in node[n].todo : v <= w
          /\ node' = [node EXCEPT ![n].pc = "prepare", ![n].version = v,
                                  ![n].step = 1, ![n].view = schema]
    BY <1>5 DEF BeginMigration
  <2>2. PICK new : new = [node[n] EXCEPT !.pc = "prepare", !.version = v, !.step = 1,
                                         !.view = schema]
    OBVIOUS
  <2>3. /\ new.pc = "prepare" /\ new.version = v /\ new.step = 1 /\ new.view = schema
        /\ new.todo = node[n].todo
    BY <2>2, <1>t DEF Activation
  <2>4. node'[n] = new /\ \A m \in Node \ {n} : node'[m] = node[m]
    BY <2>1, <2>2, <1>t
  <2>5. UNCHANGED <<release, schema, applied>>
    BY <1>5 DEF BeginMigration, installed, db
  <2>6. node[n].todo = (1..release) \ applied
    BY <1>5 DEF BeginMigration, OrderInv, InOrder
  <2>7. release \in Nat
    BY <1>t DEF Typed, TypeOK, Versions
  <2>8. \A w \in 1..release : w < v => w \in applied
    BY <2>1, <2>6, <2>7
  <2>9. Whole(schema)'
    BY <2>5 DEF OrderInv, Whole
  <2>10. \A k \in 1..Len(Migration[v]) : ~(k < 1)
    OBVIOUS
  <2>11. Whole(node[n].view)'
    BY <2>3, <2>4, <2>5, <2>9 DEF Whole
  <2>12. InOrder(n)'
    BY <2>1, <2>3, <2>4, <2>5, <2>6, <2>8, <2>10, <2>11 DEF InOrder
  <2> QED
    BY <2>4, <2>5, <2>12, OrderKept
<1>6. CASE Prepare(n)
  <2>1. PICK new : new = [node[n] EXCEPT !.pc = "execute",
                            !.needed = Needed(Current(node[n]), node[n].view)]
    OBVIOUS
  <2>2. /\ new.pc = "execute" /\ new.version = node[n].version
        /\ new.step = node[n].step /\ new.view = node[n].view /\ new.todo = node[n].todo
    BY <2>1, <1>t DEF Activation
  <2>3. node'[n] = new /\ \A m \in Node \ {n} : node'[m] = node[m]
    BY <1>6, <2>1, <1>t DEF Prepare
  <2>4. UNCHANGED <<release, schema, applied>> /\ node[n].pc = "prepare" /\ InOrder(n)
    BY <1>6 DEF Prepare, installed, db, OrderInv
  <2>5. Whole(node[n].view)'
    BY <2>2, <2>3, <2>4 DEF InOrder, Whole
  <2>6. InOrder(n)'
    BY <2>2, <2>3, <2>4, <2>5 DEF InOrder
  <2> QED
    BY <2>3, <2>4, <2>6, OrderKept
<1>7. CASE Execute(n)
  <2>1. PICK q : q = node[n]
    OBVIOUS
  <2>2. PICK view : view = IF q.needed THEN Executed(Current(q), q.view) ELSE q.view
    OBVIOUS
  <2>3. PICK len : len = Len(Migration[q.version])
    OBVIOUS
  <2>4. /\ q.pc = "execute" /\ q \in Activation /\ q.step \in 1..len /\ len \in Nat
        /\ q.version \in Versions /\ node[n].pc \in Migrating
    BY <1>7, <1>t, <2>1, <2>3, ActivationAssumption
    DEF Execute, Typed, StepInRange, Activation, Migrating
  <2>5. UNCHANGED <<release, applied>> /\ InOrder(n) /\ ViewSound(n) /\ Whole(q.view)
    BY <1>7, <2>1, <2>4 DEF Execute, installed, OrderInv, InOrder, IInv
  <2>6. CASE Restart(n, "abort") /\ UNCHANGED schema
    BY <1>7, <2>5, <2>6, <1>a DEF Execute, db
  <2>7. CASE /\ node' = [node EXCEPT ![n].pc = IF IsLast(q) THEN "record" ELSE "prepare",
                                     ![n].step = IF IsLast(q) THEN @ ELSE @ + 1,
                                     ![n].view = view]
             /\ schema' = IF database = "mysql" THEN view ELSE schema
    <3>1. PICK pc : pc = IF IsLast(q) THEN "record" ELSE "prepare"
      OBVIOUS
    <3>2. PICK step : step = IF IsLast(q) THEN q.step ELSE q.step + 1
      OBVIOUS
    <3>3. PICK new : new = [q EXCEPT !.pc = pc, !.step = step, !.view = view]
      OBVIOUS
    <3>4. node' = [node EXCEPT ![n] = new]
      BY <2>1, <2>7, <3>1, <3>2, <3>3
    <3>5. /\ new.pc = pc /\ new.step = step /\ new.view = view
          /\ new.version = q.version /\ new.todo = q.todo
      BY <2>4, <3>3 DEF Activation
    <3>6. node'[n] = new /\ \A m \in Node \ {n} : node'[m] = node[m]
      BY <3>4, <1>t
    <3>7. Current(q) = At(q.version, q.step) /\ q.step \in 1..Len(Migration[q.version])
      BY <2>3, <2>4 DEF Current
    <3>8. Whole(view)
      <4>1. Whole(Executed(Current(q), q.view))
        BY <2>4, <2>5, <3>7, <1>t, ExecutedWhole DEF Typed
      <4> QED
        BY <2>2, <2>5, <4>1
    <3>9. Provided(q.version, q.step, view)
      <4>1. CASE q.needed
        BY <2>2, <2>4, <3>7, <4>1, ExecutedProvides
      <4>2. CASE ~q.needed
        <5>1. ~Needed(Current(q), q.view)
          BY <2>1, <2>4, <2>5, <4>2 DEF ViewSound
        <5> QED
          BY <2>2, <2>4, <2>5, <3>7, <4>2, <5>1 DEF Needed, Whole, Vouched
      <4> QED
        BY <4>1, <4>2
    <3>10. ASSUME NEW k \in 1..len, k < q.step PROVE Provided(q.version, k, view)
      <4>1. Provided(q.version, k, q.view)
        BY <2>1, <2>3, <2>4, <2>5, <3>10 DEF InOrder
      <4>2. k \in 1..Len(Migration[q.version])
        BY <2>3
      <4>3. Provided(q.version, k, Executed(Current(q), q.view))
        BY <2>4, <3>7, <4>1, <4>2, ExecutedProvides
      <4> QED
        BY <2>2, <4>1, <4>3
    <3>11. \A k \in 1..len : k < step \/ pc = "record" => k < q.step \/ k = q.step
      BY <2>3, <2>4, <3>1, <3>2 DEF IsLast
    <3>12. \A k \in 1..len : k < step \/ pc = "record" => Provided(q.version, k, view)
      BY <3>9, <3>10, <3>11
    <3>13. Whole(schema)' /\ Whole(node[n].view)'
      <4>1. schema' = view \/ schema' = schema
        BY <2>7
      <4> QED
        BY <2>5, <3>5, <3>6, <3>8, <4>1 DEF OrderInv, Whole
    <3>14. InOrder(n)'
      BY <2>1, <2>3, <2>4, <2>5, <3>5, <3>6, <3>12, <3>13 DEF InOrder
    <3> QED
      BY <2>4, <3>6, <3>13, <3>14, OrderAlone
  <2> QED
    BY <1>7, <2>1, <2>2, <2>6, <2>7 DEF Execute
<1>8. CASE Record(n)
  <2>1. PICK q : q = node[n]
    OBVIOUS
  <2>2. PICK todo : todo = q.todo \ {q.version}
    OBVIOUS
  <2>3. /\ q.pc = "record" /\ node[n].pc \in Migrating /\ UNCHANGED release
        /\ schema' = q.view /\ applied' = applied \union {q.version}
    BY <1>8, <2>1 DEF Record, Migrating, installed
  <2>4. /\ Whole(q.view) /\ q.todo = (1..release) \ applied
        /\ \A k \in 1..Len(Migration[q.version]) : Provided(q.version, k, q.view)
    BY <2>1, <2>3 DEF OrderInv, InOrder
  <2>5. Whole(schema)'
    BY <2>3, <2>4 DEF Whole
  <2>6. todo = (1..release) \ applied'
    BY <2>2, <2>3, <2>4
  <2>7. CASE Restart(n, "close")
    <3>1. node'[n].pc = "close" /\ \A m \in Node \ {n} : node'[m] = node[m]
      BY <2>7, <1>t, IdleSteps DEF Restart
    <3>2. InOrder(n)'
      BY <3>1 DEF InOrder
    <3> QED
      BY <2>3, <2>5, <3>1, <3>2, OrderAlone
  <2>8. CASE node' = [node EXCEPT ![n].todo = todo, ![n].pc = "begin"]
    <3>1. /\ node'[n].pc = "begin" /\ node'[n].todo = todo
          /\ \A m \in Node \ {n} : node'[m] = node[m]
      BY <2>8, <1>t DEF Activation
    <3>2. InOrder(n)'
      BY <2>3, <2>6, <3>1 DEF InOrder
    <3> QED
      BY <2>3, <2>5, <3>1, <3>2, OrderAlone
  <2> QED
    BY <1>8, <2>1, <2>2, <2>7, <2>8 DEF Record
<1>9. CASE CloseEngine(n)
  <2>1. PICK pc \in {"bot", "failed"} : Restart(n, pc)
    BY <1>9 DEF CloseEngine
  <2> QED
    BY <1>9, <2>1, <1>a DEF CloseEngine
<1>10. CASE EnsureBot(n)
  BY <1>10, <1>a DEF EnsureBot
<1>11. CASE StartManageSurveyJob(n)
  BY <1>11, <1>a DEF StartManageSurveyJob
<1>12. CASE ClearStaleLocks(n)
  <2>1. PICK pc \in {"command", "active"} : Goto(n, pc)
    BY <1>12 DEF ClearStaleLocks
  <2> QED
    BY <1>12, <2>1, <1>a DEF ClearStaleLocks
<1>13. CASE RegisterDebugCommands(n)
  BY <1>13, <1>a DEF RegisterDebugCommands
<1>14. CASE Respond(n)
  <2>1. UNCHANGED <<release, schema, applied, node>>
    BY <1>14 DEF Respond, installed, db
  <2> QED
    BY <2>1 DEF OrderInv, InOrder, Whole
<1>15. CASE OnDeactivate(n)
  BY <1>15, <1>a DEF OnDeactivate
<1>16. CASE CallFails(n)
  <2>1. PICK pc \in {"abort", "failed"} : Restart(n, pc)
    BY <1>16 DEF CallFails
  <2> QED
    BY <1>16, <2>1, <1>a DEF CallFails
<1>17. CASE NodeDies(n)
  BY <1>17, <1>a DEF NodeDies
<1> QED
  BY <1>1, <1>2, <1>3, <1>4, <1>5, <1>6, <1>7, <1>8, <1>9, <1>10, <1>11, <1>12,
     <1>13, <1>14, <1>15, <1>16, <1>17 DEF OnActivate, Around

LEMMA OrderNext == IInv /\ OrderInv /\ [Next]_vars => OrderInv'
<1> SUFFICES ASSUME IInv, OrderInv, [Next]_vars PROVE OrderInv'
  OBVIOUS
<1>1. CASE LockExpires \/ UNCHANGED vars
  <2>1. UNCHANGED <<release, schema, applied, node>>
    BY <1>1 DEF LockExpires, vars, installed, db
  <2> QED
    BY <2>1 DEF OrderInv, InOrder, Whole
<1>2. CASE Upgrade
  <2>1. UNCHANGED <<schema, applied, node>> /\ \A n \in Node : node[n].pc \in Down
    BY <1>2 DEF Upgrade, db
  <2>2. Whole(schema)'
    BY <2>1 DEF OrderInv, Whole
  <2>3. \A n \in Node : InOrder(n)'
    BY <2>1 DEF InOrder, Down
  <2> QED
    BY <2>2, <2>3 DEF OrderInv
<1> QED
  BY <1>1, <1>2, OrderStep DEF Next

LEMMA OrderInit == Init => OrderInv
<1> SUFFICES ASSUME Init PROVE OrderInv
  OBVIOUS
<1>1. Whole(schema)
  BY DEF Init, Whole, Vouched
<1>2. \A n \in Node : node[n].pc = "down"
  BY IdleSteps DEF Init
<1> QED
  BY <1>1, <1>2 DEF OrderInv, InOrder

\* The next statement finds what it needs.
LEMMA NeedsAreThere ==
    ASSUME IInv, OrderInv, NEW n \in Node, node[n].pc = "execute", node[n].needed
    PROVE  Current(node[n]).needs \subseteq node[n].view
<1>1. PICK v, k, S : v = node[n].version /\ k = node[n].step /\ S = node[n].view
  OBVIOUS
<1>2. /\ v \in Versions /\ k \in 1..Len(Migration[v]) /\ Current(node[n]) = At(v, k)
      /\ release \in Nat /\ release <= Last
  BY <1>1 DEF IInv, Typed, TypeOK, StepInRange, Activation, Current, Versions
<1>3. Needed(At(v, k), S)
  BY <1>1, <1>2 DEF IInv, ViewSound
<1>4. /\ Whole(S) /\ v \in 1..release
      /\ \A w \in 1..release : w < v => w \in applied
      /\ \A l \in 1..Len(Migration[v]) : l < k => Provided(v, l, S)
  BY <1>1 DEF OrderInv, InOrder
<1> SUFFICES ASSUME NEW c \in At(v, k).needs PROVE c \in S
  BY <1>1, <1>2
<1>5. PICK w \in 1..v : \E l \in 1..Len(Migration[w]) :
        (w < v \/ l < k) /\ c \in At(w, l).adds
  BY <1>2, RerunRules
<1>6. PICK l \in 1..Len(Migration[w]) : (w < v \/ l < k) /\ c \in At(w, l).adds
  BY <1>5
<1>7. Provided(w, l, S)
  <2>1. w \in 1..release
    BY <1>2, <1>4
  <2>2. CASE w < v
    BY <1>4, <2>1, <2>2 DEF Whole
  <2>3. CASE ~(w < v)
    <3>1. w = v /\ l < k
      BY <1>2, <1>6, <2>3 DEF Versions
    <3> QED
      BY <1>4, <3>1
  <2> QED
    BY <2>2, <2>3
<1>8. ASSUME Replaced(c, S) PROVE FALSE
  <2>1. PICK x \in Versions : \E m \in 1..Len(Migration[x]) :
          /\ c \in At(x, m).drops
          /\ At(x, m).unless # {}
          /\ At(x, m).unless \subseteq S
    BY <1>8 DEF Replaced
  <2>2. PICK m \in 1..Len(Migration[x]) :
          /\ c \in At(x, m).drops
          /\ At(x, m).unless # {}
          /\ At(x, m).unless \subseteq S
    BY <2>1
  <2>3. x = v /\ m = k
    BY <1>2, <2>2, RerunRules
  <2> QED
    BY <1>3, <2>2, <2>3 DEF Needed
<1> QED
  BY <1>6, <1>7, <1>8 DEF Provided, Held

LEMMA NoneRefusedHolds == IInv /\ OrderInv => NoneRefused
<1> SUFFICES ASSUME IInv, OrderInv, NEW n \in Node, node[n].pc = "execute",
                    node[n].needed, Refuses(Current(node[n]), node[n].view)
             PROVE  CannotMigrate
  BY DEF NoneRefused
<1>1. Current(node[n]).needs \subseteq node[n].view
  BY NeedsAreThere
<1>2. Needed(Current(node[n]), node[n].view)
  BY DEF IInv, ViewSound
<1>3. Current(node[n]).notNull /\ rows /\ database = "postgres"
  BY <1>1, <1>2 DEF Refuses
<1>4. node[n].version \in Versions \ applied
  BY DEF OrderInv, InOrder, IInv, Typed, TypeOK, Activation
<1>5. node[n].step \in 1..Len(Migration[node[n].version])
  BY DEF IInv, Typed, StepInRange
<1> QED
  BY <1>3, <1>4, <1>5 DEF CannotMigrate, Current

\* A migration that died anywhere is run again without a statement being
\* refused, except by PostgreSQL for the rows of a new column.
THEOREM MigrationsRunAgain == Spec => []NoneRefused
<1>1. IInv /\ OrderInv /\ [Next]_vars => OrderInv'
  BY OrderNext
<1> QED
  BY InvInit, InvNext, OrderInit, <1>1, NoneRefusedHolds, PTL DEF Spec

----------------------------------------------------------------------------
(* The history of the schema.                                              *)

\* The recorded versions are the first ones of the release.
Prefix == \E p \in 0..release : applied = 1..p

\* The nodes where the job runs or requests are served.
AtWork == {n \in Node : node[n].pc \in Working}

LEMMA PrefixInit == Init => Prefix /\ History!HistoryInit
<1> SUFFICES ASSUME Init PROVE Prefix /\ History!HistoryInit
  OBVIOUS
<1>1. Prefix
  <2>1. release \in Nat /\ 1..0 = {}
    BY ActivationAssumption DEF Init, Versions
  <2>2. 0 \in 0..release /\ applied = 1..0
    BY <2>1 DEF Init
  <2> QED  BY <2>2 DEF Prefix
<1>2. AtWork = {}
  BY IdleSteps DEF Init, AtWork, Working
<1> QED  BY <1>1, <1>2 DEF Init, History!HistoryInit, AtWork, Versions

\* The version a node records is the one after those recorded.
LEMMA RecordsNext ==
    ASSUME Typed, OrderInv, Prefix, NEW n \in Node, node[n].pc = "record"
    PROVE  /\ node[n].version \in 1..release
           /\ applied = 1..(node[n].version - 1)
           /\ applied \union {node[n].version} = 1..node[n].version
<1> DEFINE v == node[n].version
<1>1. /\ v \in (1..release) \ applied
      /\ \A w \in 1..release : w < v => w \in applied
  BY DEF OrderInv, InOrder
<1>2. release \in Nat
  BY DEF Typed, TypeOK, Versions
<1>3. PICK p \in 0..release : applied = 1..p
  BY DEF Prefix
<1>4. v = p + 1
  <2>1. v \in 1..release /\ ~(v <= p)
    BY <1>1, <1>2, <1>3
  <2>2. ~(p + 1 < v)
    BY <1>1, <1>2, <1>3, <2>1
  <2> QED  BY <1>2, <1>3, <2>1, <2>2
<1> QED  BY <1>1, <1>2, <1>3, <1>4

\* A node that records nothing starts or stops work, or does neither.
LEMMA NodeStepHistory ==
    ASSUME IInv', Prefix, NEW n \in Node, UNCHANGED <<release, applied>>,
           \A m \in Node \ {n} : node'[m] = node[m]
    PROVE  Prefix' /\ [History!HistoryNext]_(History!historyVars)
<1>1. Prefix'
  BY DEF Prefix
<1>2. CASE node'[n].pc \in Working
  <2>1. AtWork' = AtWork \union {n}
    BY <1>2 DEF AtWork
  <2>2. applied = 1..release
    <3>1. 1..release \subseteq applied
      BY <1>2 DEF IInv, LeftSound
    <3>2. applied \subseteq 1..release
      <4>1. release \in Nat
        BY DEF IInv, Typed, TypeOK, Versions
      <4> QED  BY <4>1 DEF Prefix
    <3> QED  BY <3>1, <3>2
  <2>3. History!Serve(n)
    BY <2>1, <2>2 DEF History!Serve, AtWork
  <2> QED  BY <1>1, <2>3 DEF History!HistoryNext
<1>3. CASE node'[n].pc \notin Working
  <2>1. AtWork' = AtWork \ {n}
    BY <1>3 DEF AtWork
  <2>2. History!Stop(n)
    BY <2>1 DEF History!Stop, AtWork
  <2> QED  BY <1>1, <2>2 DEF History!HistoryNext
<1> QED  BY <1>2, <1>3

LEMMA OthersStay ==
    ASSUME Typed, NEW n \in Node, OnActivate(n) \/ Around(n)
    PROVE  \A m \in Node \ {n} : node'[m] = node[m]
BY Zenon DEF Typed, TypeOK, OnActivate, Around, Goto, Restart, GetSchemaName, NewEngine,
       Pending, BeginMigration, Prepare, Execute, Record, CloseEngine, EnsureBot,
       StartManageSurveyJob, ClearStaleLocks, RegisterDebugCommands, Activate,
       Respond, OnDeactivate, CallFails, NodeDies

LEMMA OnlyRecordRecords ==
    ASSUME NEW n \in Node, OnActivate(n) \/ Around(n), ~Record(n)
    PROVE  UNCHANGED <<release, applied>>
BY Zenon DEF OnActivate, Around, installed, db, GetSchemaName, NewEngine,
       Pending, BeginMigration, Prepare, Execute, CloseEngine, EnsureBot,
       StartManageSurveyJob, ClearStaleLocks, RegisterDebugCommands, Activate,
       Respond, OnDeactivate, CallFails, NodeDies

LEMMA HistoryStep ==
    IInv /\ IInv' /\ OrderInv /\ Prefix /\ [Next]_vars
        => Prefix' /\ [History!HistoryNext]_(History!historyVars)
<1> SUFFICES ASSUME IInv, IInv', OrderInv, Prefix, [Next]_vars
             PROVE  Prefix' /\ [History!HistoryNext]_(History!historyVars)
  OBVIOUS
<1>0. Typed /\ node \in [Node -> Activation] /\ release \in Nat /\ release <= Last
  BY ActivationAssumption DEF IInv, Typed, TypeOK, Versions
<1>1. ASSUME NEW n \in Node, Record(n)
      PROVE  Prefix' /\ [History!HistoryNext]_(History!historyVars)
  <2>1. node[n].pc = "record" /\ UNCHANGED release
    BY <1>1 DEF Record, installed
  <2>2. PICK v \in 1..release : applied = 1..(v - 1) /\ applied' = 1..v
    BY <1>0, <1>1, <2>1, RecordsNext DEF Record
  <2>3. AtWork' = AtWork
    <3>1. node'[n].pc \notin Working
      BY <1>0, <1>1, IdleSteps DEF Record, Restart, Working, Activation
    <3>2. \A m \in Node \ {n} : node'[m] = node[m]
      BY <1>0, <1>1, OthersStay DEF OnActivate
    <3> QED  BY <2>1, <3>1, <3>2 DEF AtWork, Working
  <2>4. History!Migrate(v)
    BY <2>1, <2>2, <2>3 DEF History!Migrate, AtWork
  <2>5. v \in 1..Last /\ v \in 0..release
    BY <1>0, ActivationAssumption
  <2>6. Prefix'
    BY <2>1, <2>2, <2>5 DEF Prefix
  <2> QED  BY <2>4, <2>5, <2>6 DEF History!HistoryNext
<1>2. ASSUME NEW n \in Node, OnActivate(n) \/ Around(n), ~Record(n)
      PROVE  Prefix' /\ [History!HistoryNext]_(History!historyVars)
  BY <1>0, <1>2, OthersStay, OnlyRecordRecords, NodeStepHistory
<1>3. CASE Upgrade
  <2>1. AtWork = {} /\ AtWork' = AtWork /\ release' = Last /\ applied' = applied
    BY <1>3 DEF Upgrade, AtWork, Working, Down, db
  <2>2. Prefix'
    BY <1>0, <2>1, ActivationAssumption DEF Prefix
  <2>3. History!Replace
    BY <2>1 DEF History!Replace, AtWork
  <2> QED  BY <2>2, <2>3 DEF History!HistoryNext
<1>4. CASE LockExpires \/ UNCHANGED vars
  <2>1. UNCHANGED <<release, applied, node>>
    BY <1>4 DEF LockExpires, vars, installed, db
  <2> QED  BY <2>1 DEF Prefix, History!historyVars
<1> QED  BY <1>1, <1>2, <1>3, <1>4 DEF Next

\* What a cluster does to schema_migrations is a history: versions are recorded
\* one by one in their order, and only a node that has them all goes to work.
THEOREM ImplementsHistory == Spec => HistorySpec
<1>1. IInv /\ OrderInv /\ [Next]_vars => OrderInv'
  BY OrderNext
<1> QED
  BY InvInit, InvNext, OrderInit, PrefixInit, <1>1, HistoryStep, PTL
     DEF Spec, HistorySpec, History!HistorySpec

=============================================================================
