----------------------- MODULE ProcessManagerProofs -----------------------
(***************************************************************************)
(* Theorems about ProcessManager, for every set of managers, services,     *)
(* pids and process identities.                                            *)
(***************************************************************************)
EXTENDS ProcessManager, TLAPS

(***************************************************************************)
(* Type correctness.  The inductive invariant adds what an operation in    *)
(* progress has in its locals: a service and, between spawn and record,    *)
(* a child.                                                                *)
(***************************************************************************)
ControlOK ==
    /\ pc \in [Managers -> Pcs]
    /\ op \in [Managers -> Op]
    /\ \A m \in Managers :
          /\ pc[m] # "idle" => op[m].svc \in Services
          /\ pc[m] = "record" => op[m].child \in Ids

DataOK ==
    /\ db \in [Services -> Row]
    /\ proc \in [Ids -> Process]
    /\ children \in [Managers -> [Services -> Ids \cup {NULL}]]
    /\ unrecorded \subseteq Ids

WellTyped == DataOK /\ ControlOK

(* The two statements of the database give rows.                           *)
LEMMA UpsertRow ==
    ASSUME NEW row \in Row, NEW u \in ServiceUpdate
    PROVE  upsert(row, u) \in Row
  BY NullIsNoValue DEF upsert, Coalesce, Row, ServiceUpdate, Statuses, NoRow

LEMMA ClearPidRow ==
    ASSUME NEW row \in Row, NEW st \in Statuses, NEW e \in ExitCodes \cup {NULL}
    PROVE  clear_pid(row, st, e) \in Row /\ clear_pid(row, st, e).pid = NULL
  <1>1. CASE row = NoRow
    BY <1>1 DEF clear_pid, NoRow
  <1>2. CASE row # NoRow
    BY <1>2 DEF clear_pid, Row
  <1>3. QED
    BY <1>1, <1>2

LEMMA Constructors ==
    /\ NoRow \in Row /\ NoRow.pid = NULL
    /\ NoOp \in Op
    /\ NoChildren \in [Services -> Ids \cup {NULL}]
    /\ Unborn \in Process
    /\ \A st \in Statuses : StatusUpdate(st) \in ServiceUpdate
  BY DEF NoRow, Row, NoOp, Op, NoChildren, Unborn, Process, StatusUpdate,
         ServiceUpdate, Returns

(* Writing a field of the locals of one manager.                           *)
LEMMA OpFields ==
    ASSUME NEW o \in Op
    PROVE  /\ \A row \in Row : [o EXCEPT !.row = row] \in Op
           /\ \A ret \in Returns : [o EXCEPT !.ret = ret] \in Op
           /\ \A c \in Ids \cup {NULL} : [o EXCEPT !.child = c] \in Op
           /\ \A s \in Services, f \in BOOLEAN :
                 [NoOp EXCEPT !.svc = s, !.force = f] \in Op
           /\ \A s \in Services : [NoOp EXCEPT !.svc = s] \in Op
           /\ \A ret \in Returns, row \in Row :
                 [o EXCEPT !.ret = ret, !.row = row] \in Op
  <1>1. NoOp \in Op
    BY Constructors
  <1>2. QED
    BY <1>1 DEF Op

(* An operation in progress keeps its service wherever it goes next.       *)
LEMMA ControlStep ==
    ASSUME WellTyped, NEW m \in Managers, NEW label \in Pcs \ {"record"},
           NEW o \in Op, label # "idle" => o.svc \in Services,
           pc' = [pc EXCEPT ![m] = label], op' = [op EXCEPT ![m] = o]
    PROVE  ControlOK'
  BY DEF WellTyped, ControlOK

LEMMA ControlReturn ==
    ASSUME WellTyped, NEW m \in Managers, Return(m)
    PROVE  ControlOK'
  <1>1. NoOp \in Op /\ "idle" \in Pcs
    BY Constructors DEF Pcs
  <1>2. QED
    BY <1>1, ControlStep DEF Return

LEMMA ControlGoto ==
    ASSUME WellTyped, NEW m \in Managers, NEW label \in Pcs \ {"record"},
           pc[m] # "idle", Goto(m, label), UNCHANGED op \/ Forget(m)
    PROVE  ControlOK'
  <1>1. NoRow \in Row /\ op \in [Managers -> Op] /\ op[m].svc \in Services
    BY Constructors DEF WellTyped, ControlOK
  <1>2. [op[m] EXCEPT !.row = NoRow] \in Op
    BY <1>1, OpFields
  <1>3. CASE UNCHANGED op
    BY <1>1, <1>3 DEF WellTyped, ControlOK, Goto
  <1>4. CASE Forget(m)
    <2>1. op' = [op EXCEPT ![m] = [op[m] EXCEPT !.row = NoRow]]
      BY <1>4 DEF Forget
    <2>2. [op[m] EXCEPT !.row = NoRow].svc = op[m].svc
      BY <1>1 DEF Op
    <2>3. QED
      BY <1>1, <1>2, <2>1, <2>2, ControlStep DEF Goto
  <1>5. QED
    BY <1>3, <1>4

LEMMA ControlOnToSpawn ==
    ASSUME WellTyped, NEW m \in Managers, pc[m] # "idle", OnToSpawn(m)
    PROVE  ControlOK'
  <1>1. op[m].svc \in Services /\ op[m] \in Op /\ "precheck" \in Pcs \ {"record"}
    BY DEF WellTyped, ControlOK, Pcs
  <1>2. /\ [NoOp EXCEPT !.svc = op[m].svc] \in Op
        /\ [NoOp EXCEPT !.svc = op[m].svc].svc = op[m].svc
    BY <1>1, OpFields DEF NoOp
  <1>3. QED
    BY <1>1, <1>2, ControlStep DEF OnToSpawn, Goto

LEMMA ControlTakeRow ==
    ASSUME WellTyped, NEW m \in Managers, NEW label \in Pcs \ {"record"},
           pc[m] # "idle", TakeRow(m, label)
    PROVE  ControlOK'
  <1>1. op[m].svc \in Services /\ op[m] \in Op /\ db[op[m].svc] \in Row
    BY DEF WellTyped, ControlOK, DataOK
  <1>2. /\ [op[m] EXCEPT !.row = db[op[m].svc]] \in Op
        /\ [op[m] EXCEPT !.row = db[op[m].svc]].svc = op[m].svc
    BY <1>1, OpFields DEF Op
  <1>3. op' = [op EXCEPT ![m] = [op[m] EXCEPT !.row = db[op[m].svc]]]
    BY DEF TakeRow
  <1>4. QED
    BY <1>1, <1>2, <1>3, ControlStep DEF TakeRow, Goto

(* Writing the row of a service, and what becomes of a process.            *)
LEMMA DataStep ==
    ASSUME WellTyped
    PROVE  /\ \A s \in Services, row \in Row : Write(s, row) => db' \in [Services -> Row]
           /\ \A m \in Managers, s \in Services : DropChild(m, s)
                 => children' \in [Managers -> [Services -> Ids \cup {NULL}]]
           /\ \A i \in Ids, st \in Exited : Dies(i, st) => proc' \in [Ids -> Process]
           /\ \A i \in Ids, s \in Services \cup {Foreign}, p \in Pids :
                 Born(i, s, p) => proc' \in [Ids -> Process]
  <1>1. \A s \in Services, row \in Row : Write(s, row) => db' \in [Services -> Row]
    BY DEF WellTyped, DataOK, Write
  <1>2. \A m \in Managers, s \in Services : DropChild(m, s)
           => children' \in [Managers -> [Services -> Ids \cup {NULL}]]
    BY DEF WellTyped, DataOK, DropChild
  <1>3. \A i \in Ids, st \in Exited : Dies(i, st) => proc' \in [Ids -> Process]
    BY SMTT(30) DEF WellTyped, DataOK, Dies, Process
  <1>4. \A i \in Ids, s \in Services \cup {Foreign}, p \in Pids :
           Born(i, s, p) => proc' \in [Ids -> Process]
    BY DEF WellTyped, DataOK, Born, Process
  <1>5. QED
    BY <1>1, <1>2, <1>3, <1>4

(* The rows a manager writes: with the status of its case.                 *)
LEMMA RowsWritten ==
    ASSUME WellTyped, NEW s \in Services
    PROVE  /\ \A st \in Statuses, e \in ExitCodes \cup {NULL} :
                 clear_pid(db[s], st, e) \in Row
           /\ \A st \in Statuses : upsert(db[s], StatusUpdate(st)) \in Row
           /\ \A i \in Ids : upsert(db[s], [pid |-> proc[i].pid, status |-> "starting",
                                            hash |-> i, exit |-> NULL]) \in Row
  <1>1. db[s] \in Row
    BY DEF WellTyped, DataOK
  <1>2. ASSUME NEW i \in Ids
        PROVE  [pid |-> proc[i].pid, status |-> "starting", hash |-> i, exit |-> NULL]
                   \in ServiceUpdate
    BY DEF WellTyped, DataOK, Process, ServiceUpdate, Statuses
  <1>3. \A st \in Statuses : StatusUpdate(st) \in ServiceUpdate
    BY Constructors
  <1>4. \A i \in Ids : upsert(db[s], [pid |-> proc[i].pid, status |-> "starting",
                                      hash |-> i, exit |-> NULL]) \in Row
    BY <1>1, <1>2, UpsertRow
  <1>5. \A st \in Statuses : upsert(db[s], StatusUpdate(st)) \in Row
    BY <1>1, <1>3, UpsertRow
  <1>6. \A st \in Statuses, e \in ExitCodes \cup {NULL} : clear_pid(db[s], st, e) \in Row
    BY <1>1, ClearPidRow
  <1>7. QED
    BY <1>4, <1>5, <1>6

LEMMA ControlAnswer ==
    ASSUME WellTyped, NEW m \in Managers, pc[m] # "idle",
           NEW ok \in BOOLEAN, Answer(m, ok)
    PROVE  ControlOK'
  <1>1. PICK next \in AfterHealth(m, ok) :
             IF next = "idle" THEN Return(m) ELSE Goto(m, next) /\ Forget(m)
    BY DEF Answer
  <1>2. next \in Pcs \ {"record"}
    BY DEF AfterHealth, Pcs
  <1>3. QED
    BY <1>1, <1>2, ControlReturn, ControlGoto

(* Every step keeps the types: one step of the proof for each action.      *)
LEMMA CallsType ==
    ASSUME WellTyped, NEW m \in Managers, Call(m)
    PROVE  WellTyped'
  <1>1. ASSUME NEW s \in Services, NEW force \in BOOLEAN,
               NEW label \in Pcs \ {"record"}, Begin(m, s, force, label)
        PROVE  WellTyped'
    <2>1. /\ [NoOp EXCEPT !.svc = s, !.force = force] \in Op
          /\ [NoOp EXCEPT !.svc = s, !.force = force].svc = s
      BY Constructors, OpFields DEF NoOp
    <2>2. ControlOK'
      BY <1>1, <2>1, ControlStep DEF Begin, Goto
    <2>3. QED
      BY <1>1, <2>2 DEF Begin, WellTyped, DataOK
  <1>2. "deps" \in Pcs \ {"record"} /\ "s_read" \in Pcs \ {"record"}
          /\ "health" \in Pcs \ {"record"}
    BY DEF Pcs
  <1>3. QED
    BY <1>1, <1>2 DEF Call, CallStart, CallStop, CallHealthOk

LEMMA StartType ==
    ASSUME WellTyped, NEW m \in Managers, Start(m)
    PROVE  WellTyped'
  <1>a. /\ op[m] \in Op /\ op \in [Managers -> Op] /\ pc \in [Managers -> Pcs]
        /\ pc[m] # "idle" => op[m].svc \in Services
    BY DEF WellTyped, ControlOK
  <1>b. {"lookup", "probe", "precheck", "settle", "health", "s_read"} \subseteq Pcs
    BY DEF Pcs
  <1>1. CASE wait_for_dependencies(m)
    <2>1. ControlOK'
      BY <1>1, <1>b, ControlReturn, ControlGoto DEF wait_for_dependencies
    <2>2. QED
      BY <1>1, <2>1 DEF wait_for_dependencies, WellTyped, DataOK
  <1>2. CASE StartLookup(m)
    <2>1. ControlOK'
      BY <1>2, <1>b, ControlTakeRow, ControlOnToSpawn DEF StartLookup
    <2>2. QED
      BY <1>2, <2>1 DEF StartLookup, WellTyped, DataOK
  <1>3. CASE StartClearsStalePid(m)
    <2>1. ControlOK'
      BY <1>3, ControlOnToSpawn DEF StartClearsStalePid
    <2>2. clear_pid(db[op[m].svc], "stopped", NULL) \in Row
      BY <1>3, <1>a, RowsWritten DEF StartClearsStalePid, Statuses
    <2>3. db' \in [Services -> Row]
      BY <1>3, <1>a, <2>2, DataStep DEF StartClearsStalePid
    <2>4. QED
      BY <1>3, <2>1, <2>3 DEF StartClearsStalePid, WellTyped, DataOK
  <1>4. CASE StartRefusesPid(m) \/ PrecheckFails(m)
    BY <1>4, ControlReturn DEF StartRefusesPid, PrecheckFails, WellTyped, DataOK
  <1>5. CASE StartFindsRunning(m)
    <2>1. ASSUME NEW ret \in {"spawn", "already"}
          PROVE  /\ [op[m] EXCEPT !.ret = ret, !.row = NoRow] \in Op
                 /\ [op[m] EXCEPT !.ret = ret, !.row = NoRow].svc = op[m].svc
      BY <1>a, Constructors DEF Op, Returns
    <2>2. PICK ret \in {"spawn", "already"}, label \in Pcs \ {"record"} :
               /\ op' = [op EXCEPT ![m] = [op[m] EXCEPT !.ret = ret, !.row = NoRow]]
               /\ Goto(m, label)
      BY <1>5, <1>b DEF StartFindsRunning
    <2>3. ControlOK'
      BY <1>5, <1>a, <2>1, <2>2, ControlStep DEF StartFindsRunning, Goto
    <2>4. QED
      BY <1>5, <2>3 DEF StartFindsRunning, WellTyped, DataOK
  <1>6. CASE Spawn(m)
    <2>1. PICK i \in Ids, p \in Pids :
               Born(i, op[m].svc, p) /\ op' = [op EXCEPT ![m].child = i]
      BY <1>6 DEF Spawn
    <2>2. proc' \in [Ids -> Process]
      BY <1>6, <1>a, <2>1, DataStep DEF Spawn
    <2>3. /\ [op[m] EXCEPT !.child = i] \in Op
          /\ [op[m] EXCEPT !.child = i].svc = op[m].svc
          /\ [op[m] EXCEPT !.child = i].child = i
      BY <1>a, OpFields DEF Op
    <2>4. op' = [op EXCEPT ![m] = [op[m] EXCEPT !.child = i]]
      BY <2>1
    <2>5. ControlOK'
      BY <1>6, <1>a, <2>3, <2>4 DEF Spawn, Goto, WellTyped, ControlOK, Pcs
    <2>6. QED
      BY <1>6, <2>2, <2>5 DEF Spawn, WellTyped, DataOK
  <1>7. CASE IdentityFails(m)
    <2>1. ControlOK' /\ op[m].child \in Ids
      BY <1>7, ControlReturn DEF IdentityFails, WellTyped, ControlOK
    <2>2. proc' \in [Ids -> Process]
      BY <1>7, <2>1, DataStep DEF IdentityFails, Exited, WellTyped, DataOK
    <2>3. QED
      BY <1>7, <2>1, <2>2 DEF IdentityFails, WellTyped, DataOK
  <1>8. CASE Record(m)
    <2>1. op[m].svc \in Services /\ op[m].child \in Ids
      BY <1>8 DEF Record, WellTyped, ControlOK
    <2>2. upsert(db[op[m].svc],
                 [pid |-> proc[op[m].child].pid, status |-> "starting",
                  hash |-> op[m].child, exit |-> NULL]) \in Row
      BY <2>1, RowsWritten
    <2>3. db' \in [Services -> Row]
      BY <1>8, <2>1, <2>2, DataStep DEF Record
    <2>4. /\ [op[m] EXCEPT !.child = NULL] \in Op
          /\ [op[m] EXCEPT !.child = NULL].svc = op[m].svc
          /\ op' = [op EXCEPT ![m] = [op[m] EXCEPT !.child = NULL]]
      BY <1>8, <1>a, OpFields DEF Op, Record
    <2>5. ControlOK'
      BY <1>8, <1>b, <2>1, <2>4, ControlStep DEF Record, Goto
    <2>6. children' \in [Managers -> [Services -> Ids \cup {NULL}]]
      BY <1>8, <2>1 DEF Record, WellTyped, DataOK
    <2>7. QED
      BY <1>8, <2>3, <2>5, <2>6 DEF Record, WellTyped, DataOK
  <1>9. CASE RecordFails(m)
    <2>1. op[m].svc \in Services /\ op[m].child \in Ids
      BY <1>9 DEF RecordFails, WellTyped, ControlOK
    <2>2. children' \in [Managers -> [Services -> Ids \cup {NULL}]]
      BY <1>9, <2>1 DEF RecordFails, WellTyped, DataOK
    <2>3. QED
      BY <1>9, <2>1, <2>2, ControlReturn DEF RecordFails, WellTyped, DataOK
  <1>10. CASE SettleExited(m)
    <2>1. op[m].svc \in Services
      BY <1>10, <1>a DEF SettleExited
    <2>2. PICK st \in Statuses, e \in ExitCodes :
               Write(op[m].svc, clear_pid(db[op[m].svc], st, e))
      BY <1>10 DEF SettleExited, Statuses, ExitCodes
    <2>3. db' \in [Services -> Row]
      BY <2>1, <2>2, DataStep, RowsWritten
    <2>4. children' \in [Managers -> [Services -> Ids \cup {NULL}]]
      BY <1>10, <2>1, DataStep DEF SettleExited
    <2>5. QED
      BY <1>10, <2>3, <2>4, ControlReturn DEF SettleExited, WellTyped, DataOK
  <1>11. CASE SettleLimitsFail(m)
    <2>1. /\ op[m].svc \in Services
          /\ Alive(children[m][op[m].svc]) => children[m][op[m].svc] \in Ids
      BY <1>11, <1>a DEF SettleLimitsFail, Alive, WellTyped, DataOK
    <2>2. clear_pid(db[op[m].svc], "failed", NULL) \in Row
      BY <2>1, RowsWritten DEF Statuses
    <2>3. db' \in [Services -> Row]
      BY <1>11, <2>1, <2>2, DataStep DEF SettleLimitsFail, WellTyped, DataOK
    <2>4. children' \in [Managers -> [Services -> Ids \cup {NULL}]]
      BY <1>11, <2>1, DataStep DEF SettleLimitsFail
    <2>5. proc' \in [Ids -> Process]
      <3>1. "killed" \in Exited
        BY DEF Exited
      <3>2. QED
        BY <1>11, <2>1, <3>1, DataStep DEF SettleLimitsFail, WellTyped, DataOK
    <2>6. QED
      BY <1>11, <2>3, <2>4, <2>5, ControlReturn DEF SettleLimitsFail, WellTyped, DataOK
  <1>12. CASE SettleAlive(m)
    <2>1. /\ [op[m] EXCEPT !.ret = "await"] \in Op
          /\ [op[m] EXCEPT !.ret = "await"].svc = op[m].svc
          /\ op' = [op EXCEPT ![m] = [op[m] EXCEPT !.ret = "await"]]
      <3>1. "await" \in Returns
        BY DEF Returns
      <3>2. /\ [op[m] EXCEPT !.ret = "await"] \in Op
            /\ [op[m] EXCEPT !.ret = "await"].svc = op[m].svc
        BY <1>a, <3>1, OpFields DEF Op
      <3>3. QED
        BY <1>12, <3>2 DEF SettleAlive
    <2>2. ControlOK'
      BY <1>12, <1>a, <1>b, <2>1, ControlStep DEF SettleAlive, Goto
    <2>3. QED
      BY <1>12, <2>2 DEF SettleAlive, WellTyped, DataOK
  <1>13. QED
    BY <1>1, <1>2, <1>3, <1>4, <1>5, <1>6, <1>7, <1>8, <1>9, <1>10, <1>11, <1>12
       DEF Start

LEMMA HealthType ==
    ASSUME WellTyped, NEW m \in Managers, Health(m)
    PROVE  WellTyped'
  <1>a. /\ op[m] \in Op /\ op \in [Managers -> Op] /\ pc \in [Managers -> Pcs]
        /\ pc[m] # "idle" => op[m].svc \in Services
    BY DEF WellTyped, ControlOK
  <1>b. {"h_probe", "unhealthy"} \subseteq Pcs
    BY DEF Pcs
  <1>1. CASE HealthFindsNoPid(m) \/ HealthChecks(m)
    <2>1. ControlOK'
      BY <1>1, ControlAnswer DEF HealthFindsNoPid, HealthChecks
    <2>2. QED
      BY <1>1, <2>1 DEF HealthFindsNoPid, HealthChecks, WellTyped, DataOK
  <1>2. CASE HealthFindsPid(m)
    <2>1. ControlOK'
      BY <1>2, <1>b, ControlTakeRow DEF HealthFindsPid
    <2>2. QED
      BY <1>2, <2>1 DEF HealthFindsPid, WellTyped, DataOK
  <1>3. CASE HealthClearsStalePid(m)
    <2>1. ControlOK'
      BY <1>3, ControlAnswer DEF HealthClearsStalePid
    <2>2. clear_pid(db[op[m].svc], "stopped", NULL) \in Row
      BY <1>3, <1>a, RowsWritten DEF HealthClearsStalePid, Statuses
    <2>3. db' \in [Services -> Row]
      BY <1>3, <1>a, <2>2, DataStep DEF HealthClearsStalePid
    <2>4. QED
      BY <1>3, <2>1, <2>3 DEF HealthClearsStalePid, WellTyped, DataOK
  <1>4. CASE AwaitDeadline(m)
    <2>1. ControlOK'
      BY <1>4, <1>b, ControlGoto DEF AwaitDeadline
    <2>2. QED
      BY <1>4, <2>1 DEF AwaitDeadline, WellTyped, DataOK
  <1>5. CASE MarkHealthy(m) \/ MarkUnhealthy(m)
    <2>1. PICK st \in Statuses : Write(op[m].svc, upsert(db[op[m].svc], StatusUpdate(st)))
      BY <1>5 DEF MarkHealthy, MarkUnhealthy, Statuses
    <2>2. op[m].svc \in Services
      BY <1>5, <1>a DEF MarkHealthy, MarkUnhealthy
    <2>3. db' \in [Services -> Row]
      BY <2>1, <2>2, DataStep, RowsWritten
    <2>4. QED
      BY <1>5, <2>3, ControlReturn DEF MarkHealthy, MarkUnhealthy, WellTyped, DataOK
  <1>6. QED
    BY <1>1, <1>2, <1>3, <1>4, <1>5 DEF Health

LEMMA StopType ==
    ASSUME WellTyped, NEW m \in Managers, Stop(m)
    PROVE  WellTyped'
  <1>a. pc[m] # "idle" => op[m].svc \in Services
    BY DEF WellTyped, ControlOK
  <1>b. {"s_clear", "s_probe", "grace", "recheck", "taskkill", "confirm"}
            \subseteq Pcs \ {"record"}
    BY DEF Pcs
  <1>1. CASE StopRead(m)
    <2>1. ControlOK'
      BY <1>1, <1>b, ControlTakeRow, ControlGoto DEF StopRead
    <2>2. QED
      BY <1>1, <2>1 DEF StopRead, WellTyped, DataOK
  <1>2. CASE StopClears(m) \/ StopConfirms(m)
    <2>1. /\ pc[m] # "idle" /\ StopReturns(m) /\ UNCHANGED <<proc, unrecorded>>
          /\ Write(op[m].svc, clear_pid(db[op[m].svc], "stopped", NULL))
          /\ DropChild(m, op[m].svc) \/ UNCHANGED children
      BY <1>2 DEF StopClears, StopConfirms
    <2>2. ControlOK'
      BY <2>1, ControlReturn, ControlOnToSpawn DEF StopReturns
    <2>3. clear_pid(db[op[m].svc], "stopped", NULL) \in Row
      BY <2>1, <1>a, RowsWritten DEF Statuses
    <2>4. db' \in [Services -> Row]
      BY <2>1, <1>a, <2>3, DataStep
    <2>5. children' \in [Managers -> [Services -> Ids \cup {NULL}]]
      BY <2>1, <1>a, DataStep DEF WellTyped, DataOK
    <2>6. QED
      BY <2>1, <2>2, <2>4, <2>5 DEF WellTyped, DataOK
  <1>3. CASE StopFindsDead(m) \/ StopSignals(m) \/ GraceEnds(m) \/ RecheckMatches(m)
    <2>1. ControlOK'
      BY <1>3, <1>b, ControlGoto
         DEF StopFindsDead, StopSignals, GraceEnds, RecheckMatches
    <2>2. QED
      BY <1>3, <2>1
         DEF StopFindsDead, StopSignals, GraceEnds, RecheckMatches, WellTyped, DataOK
  <1>4. CASE \/ StopRefusesPid(m) \/ RecheckRefuses(m)
             \/ TaskKillFails(m) \/ StopGivesUp(m)
    BY <1>4, ControlReturn
       DEF StopRefusesPid, RecheckRefuses, TaskKillFails, StopGivesUp, WellTyped, DataOK
  <1>5. CASE TaskKill(m)
    <2>1. ControlOK'
      BY <1>5, <1>b, ControlGoto DEF TaskKill
    <2>2. proc' \in [Ids -> Process]
      BY <1>5, DataStep DEF TaskKill, Exited, WellTyped, DataOK
    <2>3. QED
      BY <1>5, <2>1, <2>2 DEF TaskKill, WellTyped, DataOK
  <1>6. QED
    BY <1>1, <1>2, <1>3, <1>4, <1>5 DEF Stop

LEMMA NextType ==
    ASSUME WellTyped, [Next]_vars
    PROVE  WellTyped'
  <1>1. ASSUME NEW m \in Managers, StatementFails(m)
        PROVE  WellTyped'
    BY <1>1, ControlReturn DEF StatementFails, WellTyped, DataOK
  <1>2. ASSUME NEW m \in Managers, LastStatementFails(m)
        PROVE  WellTyped'
    <2>1. op[m].svc \in Services
      BY <1>2 DEF LastStatementFails, WellTyped, ControlOK
    <2>2. children' \in [Managers -> [Services -> Ids \cup {NULL}]]
      BY <1>2, <2>1, DataStep DEF LastStatementFails
    <2>3. QED
      BY <1>2, <2>2, ControlReturn DEF LastStatementFails, WellTyped, DataOK
  <1>3. ASSUME NEW m \in Managers, Exit(m)
        PROVE  WellTyped'
    <2>1. children' \in [Managers -> [Services -> Ids \cup {NULL}]]
      BY <1>3, Constructors DEF Exit, WellTyped, DataOK
    <2>2. unrecorded' \subseteq Ids
      BY <1>3 DEF Exit, WellTyped, DataOK, ControlOK
    <2>3. QED
      BY <1>3, <2>1, <2>2, ControlReturn DEF Exit, WellTyped, DataOK
  <1>4. ASSUME NEW i \in Ids, ProcessExits(i)
        PROVE  WellTyped'
    <2>1. proc' \in [Ids -> Process]
      BY <1>4, DataStep DEF ProcessExits, Exited
    <2>2. QED
      BY <1>4, <2>1 DEF ProcessExits, WellTyped, DataOK, ControlOK
  <1>5. ASSUME NEW i \in Ids, NEW p \in Pids, ForeignStarts(i, p)
        PROVE  WellTyped'
    <2>1. proc' \in [Ids -> Process]
      BY <1>5, DataStep DEF ForeignStarts
    <2>2. QED
      BY <1>5, <2>1 DEF ForeignStarts, WellTyped, DataOK, ControlOK
  <1>6. CASE UNCHANGED vars
    BY <1>6 DEF vars, WellTyped, DataOK, ControlOK
  <1>7. QED
    BY <1>1, <1>2, <1>3, <1>4, <1>5, <1>6, CallsType, StartType, HealthType, StopType
       DEF Next

LEMMA InitType == Init => WellTyped
  BY Constructors DEF Init, WellTyped, DataOK, ControlOK, Pcs

LEMMA WellTypedInvariant == Spec => []WellTyped
  BY InitType, NextType, PTL DEF Spec

(* Every variable keeps its type, whatever the managers, services and      *)
(* processes: no operation leaves a status, a program counter or a handle  *)
(* outside the ones the source names.                                      *)
THEOREM TypeCorrect == Spec => []TypeOK
  <1>1. WellTyped => TypeOK
    BY DEF WellTyped, DataOK, ControlOK, TypeOK
  <1>2. QED
    BY <1>1, WellTypedInvariant, PTL

(***************************************************************************)
(* Identity.  What a step may do to each variable, as far as the pairing   *)
(* of pids and identities is concerned.                                    *)
(***************************************************************************)

(* A process that was born keeps its pid and its service.                  *)
ProcGrows ==
    \A i \in Ids : proc[i].st # "unborn" =>
        /\ proc'[i].svc = proc[i].svc
        /\ proc'[i].pid = proc[i].pid
        /\ proc'[i].st # "unborn"

(* A process is born alone, under a pid nothing runs under.                *)
BirthIsFree ==
    \A i \in Ids : proc[i].st # "running" /\ proc'[i].st = "running" =>
        /\ proc'[i].pid \in Pids
        /\ \A j \in Ids \ {i} : proc'[j] = proc[j]
        /\ \A j \in Ids : proc[j].st = "running" => proc[j].pid # proc'[i].pid
        /\ ~PromptReuse =>
              \A m \in Managers : pc[m] = "taskkill" => op[m].row.pid # proc'[i].pid

(* The pid and the identity of a row are kept, the pid is cleared, or both *)
(* are those of a live child.                                              *)
RowShape ==
    \A s \in Services :
        \/ db'[s].pid = NULL
        \/ db'[s].pid = db[s].pid /\ db'[s].hash = db[s].hash
        \/ \E m \in Managers :
              /\ pc[m] = "record" /\ op[m].svc = s /\ Alive(op[m].child)
              /\ db'[s].hash = op[m].child
              /\ db'[s].pid = Coalesce(proc[op[m].child].pid, db[s].pid)

(* The row in hand is dropped, kept, or just read.                         *)
LocalsShape(m) ==
    \/ op'[m].row = NoRow
    \/ op'[m].svc = op[m].svc /\ op'[m].row = op[m].row
    \/ /\ op'[m].svc = op[m].svc
       /\ op'[m].row = db[op[m].svc]
       /\ op[m].svc \in Services
       /\ db[op[m].svc].pid # NULL

(* A child to record is kept, or was just spawned for the service.         *)
SpawnShape(m) ==
    pc'[m] = "record" =>
        \/ pc[m] = "record" /\ op'[m].svc = op[m].svc /\ op'[m].child = op[m].child
        \/ proc'[op'[m].child].svc = op'[m].svc /\ proc'[op'[m].child].st = "running"

ChildShape(m) ==
    \A s \in Services :
        \/ children'[m][s] \in {NULL, children[m][s]}
        \/ pc[m] = "record" /\ op[m].svc = s /\ children'[m][s] = op[m].child

(* taskkill is reached only through the second identity check.             *)
KillShape(m) ==
    pc'[m] = "taskkill" =>
        /\ op'[m] = op[m]
        /\ \/ pc[m] = "taskkill"
           \/ persisted_process_identity_matches(op[m].row) /\ UNCHANGED proc

ManagerShape(m) == LocalsShape(m) /\ SpawnShape(m) /\ ChildShape(m) /\ KillShape(m)

(* Only the manager that moves is concerned.                               *)
OthersRest(m) ==
    \A n \in Managers \ {m} :
        pc'[n] = pc[n] /\ op'[n] = op[n] /\ children'[n] = children[n]

LEMMA OthersKeepTheirShape ==
    ASSUME WellTyped, NEW m \in Managers, OthersRest(m), ManagerShape(m)
    PROVE  \A n \in Managers : ManagerShape(n)
  BY DEF OthersRest, ManagerShape, LocalsShape, SpawnShape, ChildShape, KillShape

LEMMA StartShape ==
    ASSUME WellTyped, NEW m \in Managers, Start(m)
    PROVE  ManagerShape(m) /\ OthersRest(m)
  <1>a. /\ op \in [Managers -> Op] /\ pc \in [Managers -> Pcs]
        /\ children \in [Managers -> [Services -> Ids \cup {NULL}]]
        /\ pc[m] # "idle" => op[m].svc \in Services
    BY DEF WellTyped, ControlOK, DataOK
  <1>1. OthersRest(m)
    BY <1>a DEF Start, OthersRest, wait_for_dependencies, StartLookup, StartClearsStalePid,
       StartRefusesPid, StartFindsRunning, PrecheckFails, Spawn, IdentityFails, Record,
       RecordFails, SettleExited, SettleLimitsFail, SettleAlive, Return, Goto, OnToSpawn,
       TakeRow, DropChild
  <1>2. LocalsShape(m)
    BY <1>a DEF Start, LocalsShape, wait_for_dependencies, StartLookup, StartClearsStalePid,
       StartRefusesPid, StartFindsRunning, PrecheckFails, Spawn, IdentityFails, Record,
       RecordFails, SettleExited, SettleLimitsFail, SettleAlive, Return, Goto, OnToSpawn,
       TakeRow, Op, NoOp
  <1>3. SpawnShape(m)
    BY <1>a DEF Start, SpawnShape, wait_for_dependencies, StartLookup, StartClearsStalePid,
       StartRefusesPid, StartFindsRunning, PrecheckFails, Spawn, IdentityFails, Record,
       RecordFails, SettleExited, SettleLimitsFail, SettleAlive, Return, Goto, OnToSpawn,
       TakeRow, Op, Born, WellTyped, DataOK
  <1>4. ChildShape(m)
    BY <1>a DEF Start, ChildShape, wait_for_dependencies, StartLookup, StartClearsStalePid,
       StartRefusesPid, StartFindsRunning, PrecheckFails, Spawn, IdentityFails, Record,
       RecordFails, SettleExited, SettleLimitsFail, SettleAlive, DropChild
  <1>5. KillShape(m)
    BY <1>a DEF Start, KillShape, wait_for_dependencies, StartLookup, StartClearsStalePid,
       StartRefusesPid, StartFindsRunning, PrecheckFails, Spawn, IdentityFails, Record,
       RecordFails, SettleExited, SettleLimitsFail, SettleAlive, Return, Goto, OnToSpawn,
       TakeRow
  <1>6. QED
    BY <1>1, <1>2, <1>3, <1>4, <1>5 DEF ManagerShape

LEMMA CallShape ==
    ASSUME WellTyped, NEW m \in Managers, Call(m)
    PROVE  ManagerShape(m) /\ OthersRest(m)
  <1>a. /\ op \in [Managers -> Op] /\ pc \in [Managers -> Pcs]
        /\ children \in [Managers -> [Services -> Ids \cup {NULL}]]
        /\ pc[m] # "idle" => op[m].svc \in Services
    BY DEF WellTyped, ControlOK, DataOK
  <1>b. PICK s \in Services, force \in BOOLEAN, label \in {"deps", "s_read", "health"} :
           Begin(m, s, force, label)
    BY DEF Call, CallStart, CallStop, CallHealthOk
  <1>c. /\ pc[m] = "idle" /\ pc'[m] = label
        /\ UNCHANGED <<db, proc, children, unrecorded>>
    BY <1>a, <1>b DEF Begin, Goto
  <1>1. OthersRest(m)
    BY <1>a, <1>b DEF Begin, Goto, OthersRest
  <1>2. LocalsShape(m)
    BY <1>a, <1>b, <1>c DEF Begin, LocalsShape, NoOp
  <1>3. SpawnShape(m)
    BY <1>c DEF SpawnShape
  <1>4. ChildShape(m)
    BY <1>a, <1>c DEF ChildShape
  <1>5. KillShape(m)
    BY <1>c DEF KillShape
  <1>6. QED
    BY <1>1, <1>2, <1>3, <1>4, <1>5 DEF ManagerShape

LEMMA HealthShape ==
    ASSUME WellTyped, NEW m \in Managers, Health(m)
    PROVE  ManagerShape(m) /\ OthersRest(m)
  <1>a. /\ op \in [Managers -> Op] /\ pc \in [Managers -> Pcs]
        /\ children \in [Managers -> [Services -> Ids \cup {NULL}]]
        /\ pc[m] # "idle" => op[m].svc \in Services
    BY DEF WellTyped, ControlOK, DataOK
  <1>1. OthersRest(m)
    BY <1>a DEF Health, HealthFindsNoPid, HealthFindsPid, HealthClearsStalePid,
       HealthChecks, AwaitDeadline, MarkHealthy, MarkUnhealthy, Answer, AfterHealth, OthersRest, Return, Goto, Forget, OnToSpawn, TakeRow, DropChild
  <1>2. LocalsShape(m)
    BY <1>a DEF Health, HealthFindsNoPid, HealthFindsPid, HealthClearsStalePid,
       HealthChecks, AwaitDeadline, MarkHealthy, MarkUnhealthy, Answer, AfterHealth, LocalsShape, Return, Goto, Forget, OnToSpawn, TakeRow, Op, NoOp
  <1>3. SpawnShape(m)
    BY <1>a DEF Health, HealthFindsNoPid, HealthFindsPid, HealthClearsStalePid,
       HealthChecks, AwaitDeadline, MarkHealthy, MarkUnhealthy, Answer, AfterHealth, SpawnShape, Return, Goto, Forget, OnToSpawn, TakeRow, Op
  <1>4. ChildShape(m)
    BY <1>a DEF Health, HealthFindsNoPid, HealthFindsPid, HealthClearsStalePid,
       HealthChecks, AwaitDeadline, MarkHealthy, MarkUnhealthy, Answer, AfterHealth, ChildShape, DropChild
  <1>5. KillShape(m)
    BY <1>a DEF Health, HealthFindsNoPid, HealthFindsPid, HealthClearsStalePid,
       HealthChecks, AwaitDeadline, MarkHealthy, MarkUnhealthy, Answer, AfterHealth, KillShape, Return, Goto, Forget, OnToSpawn, TakeRow
  <1>6. QED
    BY <1>1, <1>2, <1>3, <1>4, <1>5 DEF ManagerShape

LEMMA StopShape ==
    ASSUME WellTyped, NEW m \in Managers, Stop(m)
    PROVE  ManagerShape(m) /\ OthersRest(m)
  <1>a. /\ op \in [Managers -> Op] /\ pc \in [Managers -> Pcs]
        /\ children \in [Managers -> [Services -> Ids \cup {NULL}]]
        /\ pc[m] # "idle" => op[m].svc \in Services
    BY DEF WellTyped, ControlOK, DataOK
  <1>1. OthersRest(m)
    BY <1>a DEF Stop, StopRead, StopClears, StopFindsDead, StopRefusesPid,
       StopSignals, GraceEnds, RecheckMatches, RecheckRefuses, TaskKill, TaskKillFails,
       StopConfirms, StopGivesUp, StopReturns, OthersRest, Return, Goto, Forget, OnToSpawn, TakeRow, DropChild
  <1>2. LocalsShape(m)
    BY <1>a DEF Stop, StopRead, StopClears, StopFindsDead, StopRefusesPid,
       StopSignals, GraceEnds, RecheckMatches, RecheckRefuses, TaskKill, TaskKillFails,
       StopConfirms, StopGivesUp, StopReturns, LocalsShape, Return, Goto, Forget, OnToSpawn, TakeRow, Op, NoOp
  <1>3. SpawnShape(m)
    BY <1>a DEF Stop, StopRead, StopClears, StopFindsDead, StopRefusesPid,
       StopSignals, GraceEnds, RecheckMatches, RecheckRefuses, TaskKill, TaskKillFails,
       StopConfirms, StopGivesUp, StopReturns, SpawnShape, Return, Goto, Forget, OnToSpawn, TakeRow, Op
  <1>4. ChildShape(m)
    BY <1>a DEF Stop, StopRead, StopClears, StopFindsDead, StopRefusesPid,
       StopSignals, GraceEnds, RecheckMatches, RecheckRefuses, TaskKill, TaskKillFails,
       StopConfirms, StopGivesUp, StopReturns, ChildShape, DropChild
  <1>5. KillShape(m)
    BY <1>a DEF Stop, StopRead, StopClears, StopFindsDead, StopRefusesPid,
       StopSignals, GraceEnds, RecheckMatches, RecheckRefuses, TaskKill, TaskKillFails,
       StopConfirms, StopGivesUp, StopReturns, KillShape, Return, Goto, Forget, OnToSpawn, TakeRow
  <1>6. QED
    BY <1>1, <1>2, <1>3, <1>4, <1>5 DEF ManagerShape

LEMMA EndShape ==
    ASSUME WellTyped, NEW m \in Managers,
           StatementFails(m) \/ LastStatementFails(m) \/ Exit(m)
    PROVE  ManagerShape(m) /\ OthersRest(m)
  BY DEF StatementFails, LastStatementFails, Exit, Return, DropChild, NoOp, NoChildren,
         ManagerShape, OthersRest, LocalsShape, SpawnShape, ChildShape, KillShape,
         WellTyped, ControlOK, DataOK

(* The shape of a step that a manager takes, and of one that none takes.   *)
LEMMA NextShape ==
    ASSUME WellTyped, [Next]_vars
    PROVE  \A m \in Managers : ManagerShape(m)
  <1>1. ASSUME NEW m \in Managers,
               \/ Call(m) \/ Start(m) \/ Health(m) \/ Stop(m)
               \/ StatementFails(m) \/ LastStatementFails(m) \/ Exit(m)
        PROVE  \A n \in Managers : ManagerShape(n)
    BY <1>1, CallShape, StartShape, HealthShape, StopShape, EndShape, OthersKeepTheirShape
  <1>2. ASSUME UNCHANGED <<children, pc, op>>, UNCHANGED proc \/
                  (\E i \in Ids : ProcessExits(i) \/ \E p \in Pids : ForeignStarts(i, p))
        PROVE  \A n \in Managers : ManagerShape(n)
    BY <1>2 DEF ManagerShape, LocalsShape, SpawnShape, ChildShape, KillShape
  <1>3. QED
    BY <1>1, <1>2 DEF Next, vars, ProcessExits, ForeignStarts

LEMMA RowSteps ==
    ASSUME WellTyped, [Next]_vars
    PROVE  RowShape
  <1>a. /\ db \in [Services -> Row]
        /\ \A m \in Managers : pc[m] # "idle" => op[m].svc \in Services
    BY DEF WellTyped, ControlOK, DataOK
  <1>1. CASE UNCHANGED db
    BY <1>1 DEF RowShape
  <1>2. ASSUME NEW s \in Services, NEW st \in Statuses, NEW e \in ExitCodes \cup {NULL},
               Write(s, clear_pid(db[s], st, e))
        PROVE  RowShape
    <2>1. clear_pid(db[s], st, e).pid = NULL
      BY <1>a, ClearPidRow
    <2>2. QED
      BY <1>a, <1>2, <2>1 DEF RowShape, Write
  <1>3. ASSUME NEW s \in Services, NEW st \in Statuses,
               Write(s, upsert(db[s], StatusUpdate(st)))
        PROVE  RowShape
    BY <1>a, <1>3 DEF RowShape, Write, upsert, StatusUpdate, Coalesce
  <1>4. ASSUME NEW m \in Managers, Record(m)
        PROVE  RowShape
    <2>1. op[m].svc \in Services /\ op[m].child \in Ids /\ op[m].child # NULL
      BY <1>4, NullIsNoValue DEF Record, WellTyped, ControlOK
    <2>2. QED
      BY <1>a, <1>4, <2>1 DEF Record, RowShape, Write, upsert, Coalesce
  <1>5. {"stopped", "running", "unhealthy", "completed", "failed"} \subseteq Statuses
        /\ {"zero", "nonzero"} \subseteq ExitCodes
    BY DEF Statuses, ExitCodes
  <1>6. ASSUME NEW m \in Managers, Start(m)
        PROVE  RowShape
    BY <1>a, <1>1, <1>2, <1>4, <1>5, <1>6 DEF Start, wait_for_dependencies, StartLookup,
       StartClearsStalePid, StartRefusesPid, StartFindsRunning, PrecheckFails, Spawn,
       IdentityFails, RecordFails, SettleExited, SettleLimitsFail, SettleAlive
  <1>7. ASSUME NEW m \in Managers, Health(m)
        PROVE  RowShape
    BY <1>a, <1>1, <1>2, <1>3, <1>5, <1>7 DEF Health, HealthFindsNoPid, HealthFindsPid,
       HealthClearsStalePid, HealthChecks, AwaitDeadline, MarkHealthy, MarkUnhealthy
  <1>8. ASSUME NEW m \in Managers, Stop(m)
        PROVE  RowShape
    BY <1>a, <1>1, <1>2, <1>5, <1>8 DEF Stop, StopRead, StopClears, StopFindsDead,
       StopRefusesPid, StopSignals, GraceEnds, RecheckMatches, RecheckRefuses, TaskKill,
       TaskKillFails, StopConfirms, StopGivesUp
  <1>9. QED
    BY <1>1, <1>6, <1>7, <1>8 DEF Next, vars, Call, CallStart, CallStop, CallHealthOk,
       Begin, StatementFails, LastStatementFails, Exit, ProcessExits, ForeignStarts

(* Processes are born by Spawn and ForeignStarts only, and die by exiting  *)
(* or being killed.                                                        *)
ProcShape ==
    \/ UNCHANGED proc
    \/ \E i \in Ids, st \in Exited : Alive(i) /\ Dies(i, st)
    \/ \E i \in Ids, s \in Services \cup {Foreign}, p \in Pids :
          proc[i].st = "unborn" /\ Free(p) /\ Born(i, s, p)

LEMMA ProcSteps ==
    ASSUME WellTyped, [Next]_vars
    PROVE  ProcShape
  <1>a. \A m \in Managers :
           /\ pc[m] # "idle" => op[m].svc \in Services
           /\ pc[m] = "record" => op[m].child \in Ids
           /\ \A s \in Services : Alive(children[m][s]) => children[m][s] \in Ids
    BY DEF WellTyped, ControlOK, DataOK, Alive
  <1>1. ASSUME NEW m \in Managers, Start(m)
        PROVE  ProcShape
    BY <1>a, <1>1 DEF ProcShape, Start, wait_for_dependencies, StartLookup,
       StartClearsStalePid, StartRefusesPid, StartFindsRunning, PrecheckFails, Spawn,
       IdentityFails, Record, RecordFails, SettleExited, SettleLimitsFail, SettleAlive,
       Exited
  <1>2. ASSUME NEW m \in Managers, Stop(m)
        PROVE  ProcShape
    BY <1>2 DEF ProcShape, Stop, StopRead, StopClears, StopFindsDead,
       StopRefusesPid, StopSignals, GraceEnds, RecheckMatches, RecheckRefuses, TaskKill,
       TaskKillFails, StopConfirms, StopGivesUp, Exited
  <1>3. ASSUME NEW m \in Managers, Health(m)
        PROVE  ProcShape
    BY <1>3 DEF ProcShape, Health, HealthFindsNoPid, HealthFindsPid,
       HealthClearsStalePid, HealthChecks, AwaitDeadline, MarkHealthy, MarkUnhealthy
  <1>4. ASSUME NEW i \in Ids, ProcessExits(i) \/ \E p \in Pids : ForeignStarts(i, p)
        PROVE  ProcShape
    BY <1>4 DEF ProcShape, ProcessExits, ForeignStarts, Exited
  <1>5. QED
    BY <1>1, <1>2, <1>3, <1>4 DEF Next, vars, Call, CallStart, CallStop, CallHealthOk,
       Begin, StatementFails, LastStatementFails, Exit, ProcShape

LEMMA ProcGrowth ==
    ASSUME WellTyped, [Next]_vars
    PROVE  ProcGrows /\ BirthIsFree
  <1>a. proc \in [Ids -> Process] /\ NULL \notin Ids
    BY NullIsNoValue DEF WellTyped, DataOK
  <1>1. CASE UNCHANGED proc
    BY <1>1 DEF ProcGrows, BirthIsFree
  <1>2. CASE \E i \in Ids, st \in Exited : Alive(i) /\ Dies(i, st)
    BY <1>a, <1>2 DEF ProcGrows, BirthIsFree, Dies, Process, Exited
  <1>3. ASSUME NEW i \in Ids, NEW s \in Services \cup {Foreign}, NEW p \in Pids,
               proc[i].st = "unborn", Free(p), Born(i, s, p)
        PROVE  ProcGrows /\ BirthIsFree
    <2>1. /\ proc'[i] = [svc |-> s, pid |-> p, st |-> "running"]
          /\ \A j \in Ids \ {i} : proc'[j] = proc[j]
      BY <1>a, <1>3 DEF Born
    <2>2. \A j \in Ids : proc[j].st = "running" => proc[j].pid # p
      BY <1>a, <1>3 DEF Free, is_pid_running, Alive
    <2>3. ~PromptReuse => \A m \in Managers : pc[m] = "taskkill" => op[m].row.pid # p
      BY <1>3 DEF Free
    <2>4. QED
      BY <1>3, <2>1, <2>2, <2>3 DEF ProcGrows, BirthIsFree
  <1>4. QED
    BY <1>1, <1>2, <1>3, ProcSteps DEF ProcShape

(* A row with a pid names a process of the service that was born.          *)
Names(row, s) ==
    /\ row.pid # NULL /\ row.hash \in Ids
    /\ proc[row.hash].svc = s
    /\ proc[row.hash].pid = row.pid
    /\ proc[row.hash].st # "unborn"

BornHavePids == \A i \in Ids : proc[i].st # "unborn" => proc[i].pid \in Pids

PidsAreUnique ==
    \A i, j \in Ids :
        proc[i].st = "running" /\ proc[j].st = "running" /\ proc[i].pid = proc[j].pid
            => i = j

RowsName == \A s \in Services : db[s].pid # NULL => Names(db[s], s)

LocalsName ==
    \A m \in Managers : op[m].row # NoRow => Names(op[m].row, op[m].svc)

SpawnedName ==
    \A m \in Managers : pc[m] = "record" =>
        proc[op[m].child].svc = op[m].svc /\ proc[op[m].child].st # "unborn"

ChildrenName ==
    \A m \in Managers, s \in Services : children[m][s] # NULL =>
        proc[children[m][s]].svc = s /\ proc[children[m][s]].st # "unborn"

TaskKillAims ==
    ~PromptReuse => \A m \in Managers : pc[m] = "taskkill" =>
        /\ op[m].row # NoRow
        /\ \A i \in Ids : proc[i].st = "running" /\ proc[i].pid = op[m].row.pid
                             => i = op[m].row.hash

IdentityInv ==
    /\ WellTyped /\ BornHavePids /\ PidsAreUnique /\ RowsName /\ LocalsName
    /\ SpawnedName /\ ChildrenName /\ TaskKillAims

LEMMA IdentityInit == Init => IdentityInv
  <1>1. Init => WellTyped
    BY InitType
  <1>2. QED
    BY <1>1 DEF Init, IdentityInv, BornHavePids, PidsAreUnique, RowsName, LocalsName,
       SpawnedName, ChildrenName, TaskKillAims, Unborn, NoRow, NoOp, NoChildren

(* What a row named, it names after the step.                              *)
LEMMA NamesStay ==
    ASSUME ProcGrows, NEW row, NEW s, Names(row, s)
    PROVE  Names(row, s)'
  BY DEF ProcGrows, Names

LEMMA IdentityNext ==
    ASSUME IdentityInv, [Next]_vars
    PROVE  IdentityInv'
  <1>a. /\ WellTyped /\ WellTyped' /\ ProcGrows /\ BirthIsFree /\ RowShape
        /\ \A m \in Managers : ManagerShape(m)
    BY NextType, ProcGrowth, RowSteps, NextShape DEF IdentityInv
  <1>b. NULL \notin Ids \cup Pids
    BY NullIsNoValue
  <1>1. BornHavePids'
    <2>1. ASSUME NEW i \in Ids, proc'[i].st # "unborn"
          PROVE  proc'[i].pid \in Pids
      <3>1. CASE proc[i].st # "unborn"
        BY <1>a, <3>1 DEF IdentityInv, BornHavePids, ProcGrows
      <3>2. CASE proc[i].st = "unborn"
        <4>1. ProcShape
          BY <1>a, ProcSteps
        <4>2. QED
          BY <1>a, <2>1, <3>2, <4>1
             DEF ProcShape, Born, Dies, Alive, WellTyped, DataOK
      <3>3. QED
        BY <3>1, <3>2
    <2>2. QED
      BY <2>1 DEF BornHavePids
  <1>2. PidsAreUnique'
    <2>1. ASSUME NEW i \in Ids, NEW j \in Ids,
                 proc'[i].st = "running", proc'[j].st = "running",
                 proc'[i].pid = proc'[j].pid
          PROVE  i = j
      <3>1. CASE proc[i].st = "running" /\ proc[j].st = "running"
        BY <1>a, <2>1, <3>1 DEF IdentityInv, PidsAreUnique, ProcGrows
      <3>2. CASE proc[i].st # "running"
        BY <1>a, <2>1, <3>2 DEF BirthIsFree
      <3>3. CASE proc[j].st # "running"
        BY <1>a, <2>1, <3>3 DEF BirthIsFree
      <3>4. QED
        BY <3>1, <3>2, <3>3
    <2>2. QED
      BY <2>1 DEF PidsAreUnique
  <1>3. RowsName'
    <2>1. ASSUME NEW s \in Services, db'[s].pid # NULL
          PROVE  Names(db[s], s)'
      <3>1. CASE db'[s].pid = db[s].pid /\ db'[s].hash = db[s].hash
        BY <1>a, <2>1, <3>1 DEF IdentityInv, RowsName, Names, ProcGrows
      <3>2. ASSUME NEW m \in Managers,
                   pc[m] = "record", op[m].svc = s, Alive(op[m].child),
                   db'[s].hash = op[m].child,
                   db'[s].pid = Coalesce(proc[op[m].child].pid, db[s].pid)
            PROVE  Names(db[s], s)'
        <4>1. op[m].child \in Ids /\ proc[op[m].child].st = "running"
          BY <1>a, <3>2 DEF WellTyped, ControlOK, Alive
        <4>2. /\ proc[op[m].child].pid \in Pids /\ proc[op[m].child].svc = s
          BY <3>2, <4>1 DEF IdentityInv, BornHavePids, SpawnedName
        <4>3. QED
          BY <1>a, <1>b, <2>1, <3>2, <4>1, <4>2 DEF Names, ProcGrows, Coalesce
      <3>3. QED
        BY <1>a, <2>1, <3>1, <3>2 DEF RowShape
    <2>2. QED
      BY <2>1 DEF RowsName
  <1>4. LocalsName'
    <2>1. ASSUME NEW m \in Managers, op'[m].row # NoRow
          PROVE  Names(op[m].row, op[m].svc)'
      <3>1. CASE op'[m].svc = op[m].svc /\ op'[m].row = op[m].row
        BY <1>a, <2>1, <3>1 DEF IdentityInv, LocalsName, Names, ProcGrows
      <3>2. CASE /\ op'[m].svc = op[m].svc /\ op'[m].row = db[op[m].svc]
                 /\ op[m].svc \in Services /\ db[op[m].svc].pid # NULL
        BY <1>a, <2>1, <3>2 DEF IdentityInv, RowsName, Names, ProcGrows
      <3>3. QED
        BY <1>a, <2>1, <3>1, <3>2 DEF ManagerShape, LocalsShape
    <2>2. QED
      BY <2>1 DEF LocalsName, Names
  <1>5. SpawnedName'
    <2>1. ASSUME NEW m \in Managers, pc'[m] = "record"
          PROVE  /\ proc'[op'[m].child].svc = op'[m].svc
                 /\ proc'[op'[m].child].st # "unborn"
      <3>1. CASE pc[m] = "record" /\ op'[m].svc = op[m].svc /\ op'[m].child = op[m].child
        BY <1>a, <3>1 DEF IdentityInv, SpawnedName, ProcGrows, WellTyped, ControlOK
      <3>2. QED
        BY <1>a, <2>1, <3>1 DEF ManagerShape, SpawnShape
    <2>2. QED
      BY <2>1 DEF SpawnedName
  <1>6. ChildrenName'
    <2>1. ASSUME NEW m \in Managers, NEW s \in Services, children'[m][s] # NULL
          PROVE  /\ proc'[children'[m][s]].svc = s
                 /\ proc'[children'[m][s]].st # "unborn"
      <3>1. CASE children'[m][s] = children[m][s]
        BY <1>a, <2>1, <3>1 DEF IdentityInv, ChildrenName, ProcGrows, WellTyped, DataOK
      <3>2. CASE pc[m] = "record" /\ op[m].svc = s /\ children'[m][s] = op[m].child
        BY <1>a, <3>2 DEF IdentityInv, SpawnedName, ProcGrows, WellTyped, ControlOK
      <3>3. QED
        BY <1>a, <2>1, <3>1, <3>2 DEF ManagerShape, ChildShape
    <2>2. QED
      BY <2>1 DEF ChildrenName
  <1>7. TaskKillAims'
    <2>1. ASSUME ~PromptReuse, NEW m \in Managers, pc'[m] = "taskkill"
          PROVE  /\ op'[m].row # NoRow
                 /\ \A i \in Ids : proc'[i].st = "running" /\ proc'[i].pid = op'[m].row.pid
                                      => i = op'[m].row.hash
      <3>1. op'[m] = op[m]
        BY <1>a, <2>1 DEF ManagerShape, KillShape
      <3>2. CASE pc[m] = "taskkill"
        <4>1. /\ op[m].row # NoRow
              /\ \A i \in Ids : proc[i].st = "running" /\ proc[i].pid = op[m].row.pid
                                   => i = op[m].row.hash
          BY <2>1, <3>2 DEF IdentityInv, TaskKillAims
        <4>2. \A i \in Ids : proc'[i].st = "running" /\ proc'[i].pid = op[m].row.pid
                               => proc[i].st = "running" /\ proc[i].pid = op[m].row.pid
          BY <1>a, <2>1, <3>2 DEF BirthIsFree, ProcGrows
        <4>3. QED
          BY <3>1, <4>1, <4>2
      <3>3. CASE persisted_process_identity_matches(op[m].row) /\ UNCHANGED proc
        <4>1. op[m].row \in Row
          BY <1>a DEF WellTyped, ControlOK, Op
        <4>2. op[m].row.hash \in Ids /\ op[m].row # NoRow
          BY <3>3, <4>1 DEF persisted_process_identity_matches, Alive, Row, NoRow
        <4>3. QED
          BY <3>1, <3>3, <4>2
             DEF persisted_process_identity_matches, Alive, IdentityInv, PidsAreUnique
      <3>4. QED
        BY <1>a, <2>1, <3>2, <3>3 DEF ManagerShape, KillShape
    <2>2. QED
      BY <2>1 DEF TaskKillAims
  <1>8. QED
    BY <1>a, <1>1, <1>2, <1>3, <1>4, <1>5, <1>6, <1>7 DEF IdentityInv

LEMMA IdentityInvariant == Spec => []IdentityInv
  BY IdentityInit, IdentityNext, PTL DEF Spec

(* Whatever managers work on a project at once, and wherever one of them   *)
(* is killed, a row with a pid carries the identity of the process that    *)
(* had the pid, and it is a process of that service.                       *)
THEOREM RowsCarryTheirIdentity == Spec => []RecordedIdentity
  <1>1. IdentityInv => RecordedIdentity
    BY NullIsNoValue DEF IdentityInv, RowsName, Names, RecordedIdentity
  <1>2. QED
    BY <1>1, IdentityInvariant, PTL

(* A kill takes a child of the service being started, or what runs under   *)
(* the pid that the second identity check has just confirmed.              *)
LEMMA KillStep ==
    ASSUME IdentityInv, ~PromptReuse, [Next]_vars,
           NEW i \in Ids, proc[i].st = "running", proc'[i].st = "killed"
    PROVE  \E m \in Managers : op[m].svc = proc[i].svc
  <1>a. /\ WellTyped /\ proc \in [Ids -> Process] /\ NULL \notin Ids
        /\ \A m \in Managers :
              /\ pc[m] # "idle" => op[m].svc \in Services
              /\ pc[m] = "record" => op[m].child \in Ids
    BY NullIsNoValue DEF IdentityInv, WellTyped, DataOK, ControlOK
  <1>1. UNCHANGED proc => FALSE
    OBVIOUS
  <1>2. ASSUME NEW j \in Ids, NEW st \in Exited, Dies(j, st)
        PROVE  i = j
    BY <1>a, <1>2 DEF Dies
  <1>3. ASSUME NEW j \in Ids, NEW s, NEW q, Born(j, s, q)
        PROVE  FALSE
    BY <1>a, <1>3 DEF Born
  <1>4. ASSUME NEW m \in Managers, IdentityFails(m)
        PROVE  op[m].svc = proc[i].svc
    <2>1. i = op[m].child
      BY <1>a, <1>1, <1>2, <1>4 DEF IdentityFails, Exited
    <2>2. QED
      BY <1>4, <2>1 DEF IdentityFails, IdentityInv, SpawnedName
  <1>5. ASSUME NEW m \in Managers, SettleLimitsFail(m)
        PROVE  op[m].svc = proc[i].svc
    <2>1. children[m][op[m].svc] \in Ids /\ op[m].svc \in Services
      BY <1>a, <1>5 DEF SettleLimitsFail, Alive, WellTyped, DataOK
    <2>2. i = children[m][op[m].svc]
      BY <1>2, <1>5, <2>1 DEF SettleLimitsFail, Exited
    <2>3. QED
      BY <1>a, <2>1, <2>2 DEF IdentityInv, ChildrenName
  <1>6. ASSUME NEW m \in Managers, TaskKill(m)
        PROVE  op[m].svc = proc[i].svc
    <2>1. PICK j \in Ids : /\ Alive(j) /\ proc[j].pid = op[m].row.pid
                           /\ Dies(j, "killed")
      BY <1>1, <1>6 DEF TaskKill
    <2>2. i = j
      BY <1>2, <2>1 DEF Exited
    <2>3. i = op[m].row.hash /\ op[m].row # NoRow
      BY <1>6, <2>1, <2>2 DEF TaskKill, Alive, IdentityInv, TaskKillAims
    <2>4. QED
      BY <2>3 DEF IdentityInv, LocalsName, Names
  <1>7. ASSUME NEW m \in Managers, Start(m)
        PROVE  op[m].svc = proc[i].svc
    BY <1>1, <1>3, <1>4, <1>5, <1>7 DEF Start, wait_for_dependencies, StartLookup,
       StartClearsStalePid, StartRefusesPid, StartFindsRunning, PrecheckFails, Spawn,
       Record, RecordFails, SettleExited, SettleAlive
  <1>8. ASSUME NEW m \in Managers, Stop(m)
        PROVE  op[m].svc = proc[i].svc
    BY <1>1, <1>6, <1>8 DEF Stop, StopRead, StopClears, StopFindsDead,
       StopRefusesPid, StopSignals, GraceEnds, RecheckMatches, RecheckRefuses,
       TaskKillFails, StopConfirms, StopGivesUp
  <1>9. ASSUME NEW m \in Managers, Health(m)
        PROVE  FALSE
    BY <1>1, <1>9 DEF Health, HealthFindsNoPid, HealthFindsPid, HealthClearsStalePid,
       HealthChecks, AwaitDeadline, MarkHealthy, MarkUnhealthy
  <1>10. ASSUME NEW j \in Ids, ProcessExits(j) \/ \E q \in Pids : ForeignStarts(j, q)
         PROVE  FALSE
    <2>1. \A st \in {"exit0", "exit1"} : ~Dies(j, st)
      BY <1>a DEF Dies, Process
    <2>2. QED
      BY <1>3, <1>10, <2>1 DEF ProcessExits, ForeignStarts
  <1>11. QED
    BY <1>1, <1>7, <1>8, <1>9, <1>10 DEF Next, vars, Call, CallStart, CallStop,
       CallHealthOk, Begin, StatementFails, LastStatementFails, Exit

(* As long as no pid is given away between an identity query and the       *)
(* taskkill it allows, nothing is ever killed but a process of a service   *)
(* that some manager is starting or stopping, for any number of managers.  *)
THEOREM OnlyItsOwnKilled ==
    ASSUME ~PromptReuse
    PROVE  Spec => KillsOnlyItsOwn
  <1>1. IdentityInv /\ [Next]_vars =>
          [\A i \in Ids : Alive(i) /\ proc'[i].st = "killed" =>
              \E m \in Managers : op[m].svc = proc[i].svc]_vars
    BY KillStep DEF Alive
  <1>2. QED
    BY <1>1, IdentityInvariant, PTL DEF Spec, KillsOnlyItsOwn

(***************************************************************************)
(* No process is lost, as long as one manager at a time works on the       *)
(* project.  Nobody else writes its rows then, so the row an operation has *)
(* in hand is the one in the database, and the Child it holds for a        *)
(* service is the process recorded for it.                                 *)
(***************************************************************************)
RowInHand == {"probe", "h_probe", "s_probe", "grace", "recheck", "taskkill", "confirm"}

RowIsCurrent(m) == pc[m] \in RowInHand =>
    op[m].row = db[op[m].svc] /\ db[op[m].svc].pid # NULL

ChildIsRecorded(m) == \A s \in Services :
    db[s].pid # NULL => children[m][s] \in {NULL, db[s].hash}

NothingRuns(m) == pc[m] = "s_clear" =>
    db[op[m].svc].pid = NULL \/ ~Alive(db[op[m].svc].hash)

PidIsClear(m) == pc[m] \in {"precheck", "record"} => db[op[m].svc].pid = NULL

ChildSettles(m) == pc[m] = "settle" =>
    /\ db[op[m].svc].pid # NULL
    /\ children[m][op[m].svc] = db[op[m].svc].hash

LoneInv(m) ==
    /\ IdentityInv /\ RowIsCurrent(m) /\ ChildIsRecorded(m) /\ NothingRuns(m)
    /\ PidIsClear(m) /\ ChildSettles(m) /\ NoLostProcess

(* What the statements do to the pid and the identity of a row.            *)
LEMMA RowPids ==
    ASSUME WellTyped, NEW s \in Services
    PROVE  /\ \A st \in Statuses, e \in ExitCodes \cup {NULL} :
                 clear_pid(db[s], st, e).pid = NULL
           /\ \A st \in Statuses :
                 /\ upsert(db[s], StatusUpdate(st)).pid = db[s].pid
                 /\ upsert(db[s], StatusUpdate(st)).hash = db[s].hash
           /\ \A i \in Ids, p \in Pids :
                 LET row == upsert(db[s], [pid |-> p, status |-> "starting",
                                           hash |-> i, exit |-> NULL])
                 IN  row.pid = p /\ row.hash = i
  <1>1. db[s] \in Row
    BY DEF WellTyped, DataOK
  <1>2. \A st \in Statuses, e \in ExitCodes \cup {NULL} : clear_pid(db[s], st, e).pid = NULL
    BY <1>1, ClearPidRow
  <1>3. \A st \in Statuses :
          /\ upsert(db[s], StatusUpdate(st)).pid = db[s].pid
          /\ upsert(db[s], StatusUpdate(st)).hash = db[s].hash
    BY DEF upsert, StatusUpdate, Coalesce
  <1>4. \A i \in Ids, p \in Pids :
          LET row == upsert(db[s], [pid |-> p, status |-> "starting",
                                    hash |-> i, exit |-> NULL])
          IN  row.pid = p /\ row.hash = i
    BY NullIsNoValue DEF upsert, Coalesce
  <1>5. QED
    BY <1>2, <1>3, <1>4

(* A pid under which nothing runs is not that of a live recorded process.  *)
LEMMA DeadRow ==
    ASSUME IdentityInv, NEW row, NEW s, Names(row, s), ~is_pid_running(row.pid)
    PROVE  ~Alive(row.hash)
  BY DEF Names, is_pid_running

(* What a step of the lone manager may do to the row of a service.         *)
LoneRow(m) ==
    \A s \in Services :
        \/ db'[s].pid = db[s].pid /\ db'[s].hash = db[s].hash
        \/ /\ db'[s].pid = NULL
           /\ \A i \in Ids : proc[i].st = "running" /\ proc'[i].st = "running"
                             => db[s].pid # proc[i].pid \/ db[s].hash # i
        \/ /\ Record(m) /\ op[m].svc = s
           /\ db'[s].hash = op[m].child /\ db'[s].pid = proc[op[m].child].pid

LEMMA LoneRowSteps ==
    ASSUME NEW m \in Managers, Managers = {m}, LoneInv(m), [Next]_vars
    PROVE  LoneRow(m)
  <1>a. /\ WellTyped /\ db \in [Services -> Row] /\ proc \in [Ids -> Process]
        /\ NULL \notin Ids
        /\ pc[m] # "idle" => op[m].svc \in Services
        /\ {"stopped", "running", "unhealthy", "completed", "failed"} \subseteq Statuses
        /\ {"zero", "nonzero"} \subseteq ExitCodes
    BY NullIsNoValue
       DEF LoneInv, IdentityInv, WellTyped, ControlOK, DataOK, Statuses, ExitCodes
  <1>1. UNCHANGED db => LoneRow(m)
    BY DEF LoneRow
  <1>2. ASSUME NEW s \in Services, NEW st \in Statuses, NEW e \in ExitCodes \cup {NULL},
               Write(s, clear_pid(db[s], st, e)),
               \/ db[s].pid = NULL
               \/ ~Alive(db[s].hash)
               \/ proc'[db[s].hash].st # "running"
        PROVE  LoneRow(m)
    <2>1. db'[s].pid = NULL /\ \A r \in Services \ {s} : db'[r] = db[r]
      BY <1>a, <1>2, RowPids DEF Write
    <2>2. ASSUME NEW i \in Ids, proc[i].st = "running", proc'[i].st = "running"
          PROVE  db[s].pid # proc[i].pid \/ db[s].hash # i
      <3>1. proc[i].pid \in Pids
        BY <2>2 DEF LoneInv, IdentityInv, BornHavePids
      <3>2. QED
        BY <1>a, <1>2, <2>2, <3>1, NullIsNoValue DEF Alive
    <2>3. QED
      BY <2>1, <2>2 DEF LoneRow
  <1>3. ASSUME NEW s \in Services, NEW st \in Statuses,
               Write(s, upsert(db[s], StatusUpdate(st)))
        PROVE  LoneRow(m)
    BY <1>a, <1>3, RowPids DEF LoneRow, Write
  <1>4. ASSUME Record(m)
        PROVE  LoneRow(m)
    <2>1. op[m].svc \in Services /\ op[m].child \in Ids
      BY <1>4, <1>a DEF Record, WellTyped, ControlOK
    <2>2. proc[op[m].child].pid \in Pids
      BY <1>4, <2>1 DEF Record, LoneInv, IdentityInv, BornHavePids, SpawnedName
    <2>3. /\ db'[op[m].svc].hash = op[m].child
          /\ db'[op[m].svc].pid = proc[op[m].child].pid
          /\ \A r \in Services \ {op[m].svc} : db'[r] = db[r]
      BY <1>a, <1>4, <2>1, <2>2, RowPids DEF Record, Write
    <2>4. QED
      BY <1>4, <2>3 DEF LoneRow
  (* The row in hand is current, so its dead pid is that of the row cleared. *)
  <1>5. ASSUME pc[m] \in RowInHand, ~is_pid_running(op[m].row.pid)
        PROVE  ~Alive(db[op[m].svc].hash)
    <2>1. op[m].svc \in Services
      BY <1>a, <1>5 DEF RowInHand
    <2>2. op[m].row = db[op[m].svc] /\ Names(db[op[m].svc], op[m].svc)
      BY <1>5, <2>1 DEF LoneInv, RowIsCurrent, IdentityInv, RowsName
    <2>3. QED
      BY <1>5, <2>2, DeadRow DEF LoneInv
  <1>6. ASSUME Start(m)
        PROVE  LoneRow(m)
    <2>1. CASE StartClearsStalePid(m)
      BY <2>1, <1>a, <1>2, <1>5 DEF StartClearsStalePid, RowInHand
    <2>2. CASE SettleExited(m)
      <3>1. ~Alive(db[op[m].svc].hash)
        BY <2>2 DEF SettleExited, LoneInv, ChildSettles
      <3>2. PICK st \in Statuses, e \in ExitCodes :
                 Write(op[m].svc, clear_pid(db[op[m].svc], st, e))
        BY <2>2, <1>a DEF SettleExited
      <3>3. QED
        BY <2>2, <1>a, <1>2, <3>1, <3>2 DEF SettleExited
    <2>3. CASE SettleLimitsFail(m)
      <3>1. CASE UNCHANGED db
        BY <1>1, <3>1
      <3>2. CASE Write(op[m].svc, clear_pid(db[op[m].svc], "failed", NULL))
        <4>1. op[m].svc \in Services /\ db[op[m].svc].hash = children[m][op[m].svc]
          BY <1>a, <2>3 DEF SettleLimitsFail, LoneInv, ChildSettles
        <4>2. children[m][op[m].svc] \in Ids \cup {NULL}
          BY <4>1 DEF LoneInv, IdentityInv, WellTyped, DataOK
        <4>3. \/ ~Alive(children[m][op[m].svc])
              \/ proc'[children[m][op[m].svc]].st # "running"
          BY <1>a, <2>3, <4>2 DEF SettleLimitsFail, Dies, Process, Alive
        <4>4. QED
          BY <1>a, <1>2, <3>2, <4>1, <4>3
      <3>3. QED
        BY <2>3, <3>1, <3>2 DEF SettleLimitsFail
    <2>4. QED
      BY <1>1, <1>4, <1>6, <2>1, <2>2, <2>3 DEF Start, wait_for_dependencies, StartLookup,
         StartRefusesPid, StartFindsRunning, PrecheckFails, Spawn, IdentityFails,
         RecordFails, SettleAlive
  <1>7. ASSUME Health(m)
        PROVE  LoneRow(m)
    <2>1. CASE HealthClearsStalePid(m)
      BY <2>1, <1>a, <1>2, <1>5 DEF HealthClearsStalePid, RowInHand
    <2>2. CASE MarkHealthy(m) \/ MarkUnhealthy(m)
      BY <2>2, <1>a, <1>3 DEF MarkHealthy, MarkUnhealthy
    <2>3. QED
      BY <1>1, <1>7, <2>1, <2>2 DEF Health, HealthFindsNoPid, HealthFindsPid,
         HealthChecks, AwaitDeadline
  <1>8. ASSUME Stop(m)
        PROVE  LoneRow(m)
    <2>1. CASE StopClears(m)
      BY <2>1, <1>a, <1>2 DEF StopClears, LoneInv, NothingRuns
    <2>2. CASE StopConfirms(m)
      <3>1. ~Alive(db[op[m].svc].hash)
        <4>1. CASE children[m][op[m].svc] = NULL
          BY <2>2, <4>1, <1>5 DEF StopConfirms, SeenAlive, RowInHand
        <4>2. CASE children[m][op[m].svc] # NULL
          <5>1. children[m][op[m].svc] = db[op[m].svc].hash
            BY <2>2, <4>2, <1>a
               DEF StopConfirms, LoneInv, ChildIsRecorded, RowIsCurrent, RowInHand
          <5>2. QED
            BY <2>2, <4>2, <5>1 DEF StopConfirms, SeenAlive
        <4>3. QED
          BY <4>1, <4>2
      <3>2. QED
        BY <2>2, <1>a, <1>2, <3>1 DEF StopConfirms
    <2>3. QED
      BY <1>1, <1>8, <2>1, <2>2 DEF Stop, StopRead, StopFindsDead, StopRefusesPid,
         StopSignals, GraceEnds, RecheckMatches, RecheckRefuses, TaskKill, TaskKillFails,
         StopGivesUp
  <1>9. QED
    BY <1>1, <1>6, <1>7, <1>8 DEF Next, vars, Call, CallStart, CallStop, CallHealthOk,
       Begin, StatementFails, LastStatementFails, Exit, ProcessExits, ForeignStarts
(* What the lone manager has established about the row, by where it is.    *)
LoneControl(m) == RowIsCurrent(m) /\ NothingRuns(m) /\ PidIsClear(m) /\ ChildSettles(m)

LEMMA DeadStaysDead ==
    ASSUME WellTyped, [Next]_vars,
           NEW i \in Ids, proc[i].st # "unborn", ~Alive(i)
    PROVE  ~Alive(i)'
  <1>1. ProcShape /\ proc \in [Ids -> Process] /\ NULL \notin Ids
    BY ProcSteps, NullIsNoValue DEF WellTyped, DataOK
  <1>2. QED
    BY <1>1 DEF ProcShape, Alive, Born, Dies, Exited

LEMMA LoneControlStart ==
    ASSUME NEW m \in Managers, LoneInv(m), Start(m)
    PROVE  LoneControl(m)'
  <1>a. /\ op \in [Managers -> Op] /\ pc \in [Managers -> Pcs] /\ db \in [Services -> Row]
        /\ children \in [Managers -> [Services -> Ids \cup {NULL}]]
        /\ pc[m] # "idle" => op[m].svc \in Services
        /\ pc[m] = "record" => op[m].child \in Ids
    BY DEF LoneInv, IdentityInv, WellTyped, ControlOK, DataOK
  <1>1. RowIsCurrent(m)'
    <2>1. CASE StartLookup(m)
      <3>1. CASE db[op[m].svc].pid = NULL
        BY <1>a, <2>1, <3>1 DEF StartLookup, RowIsCurrent, RowInHand, OnToSpawn, Goto
      <3>2. CASE db[op[m].svc].pid # NULL
        BY <1>a, <2>1, <3>2 DEF StartLookup, RowIsCurrent, TakeRow, Op
      <3>3. QED
        BY <3>1, <3>2
    <2>2. CASE ~StartLookup(m)
      <3>1. pc'[m] \notin RowInHand
        BY <1>a, <2>2 DEF RowInHand, Start, wait_for_dependencies, StartClearsStalePid, StartRefusesPid, StartFindsRunning, PrecheckFails, Spawn,
       IdentityFails, Record, RecordFails, SettleExited, SettleLimitsFail, SettleAlive,
       Return, Goto, OnToSpawn
      <3>2. QED
        BY <3>1 DEF RowIsCurrent
    <2>3. QED
      BY <2>1, <2>2
  <1>2. NothingRuns(m)'
    BY <1>a DEF NothingRuns, Start, wait_for_dependencies, StartLookup,
       StartClearsStalePid, StartRefusesPid, StartFindsRunning, PrecheckFails, Spawn,
       IdentityFails, Record, RecordFails, SettleExited, SettleLimitsFail, SettleAlive,
       Return, Goto, Forget, OnToSpawn,
       TakeRow
  <1>3. PidIsClear(m)'
    <2>1. CASE StartClearsStalePid(m)
      <3>1. clear_pid(db[op[m].svc], "stopped", NULL).pid = NULL
        BY <2>1, <1>a, RowPids
           DEF StartClearsStalePid, Statuses, LoneInv, IdentityInv
      <3>2. QED
        BY <2>1, <3>1, <1>a
           DEF StartClearsStalePid, PidIsClear, OnToSpawn, Goto, Write, NoOp
    <2>2. CASE ~StartClearsStalePid(m)
      BY <1>a, <2>2, ZenonT(60) DEF LoneInv, PidIsClear, Start, wait_for_dependencies, StartLookup,
       StartClearsStalePid, StartRefusesPid, StartFindsRunning, PrecheckFails, Spawn,
       IdentityFails, Record, RecordFails, SettleExited, SettleLimitsFail, SettleAlive,
       Return, Goto, Forget, OnToSpawn,
       TakeRow, Op, NoOp
    <2>3. QED
      BY <2>1, <2>2
  <1>4. ChildSettles(m)'
    <2>1. CASE Record(m)
      <3>1. op[m].svc \in Services /\ op[m].child \in Ids /\ op'[m].svc = op[m].svc
        BY <2>1, <1>a DEF Record, Op
      <3>2. proc[op[m].child].pid \in Pids
        BY <2>1, <3>1 DEF Record, LoneInv, IdentityInv, BornHavePids, SpawnedName
      <3>3. /\ db'[op[m].svc].hash = op[m].child
            /\ db'[op[m].svc].pid = proc[op[m].child].pid
        BY <2>1, <1>a, <3>1, <3>2, RowPids DEF Record, Write, LoneInv, IdentityInv
      <3>4. children'[m][op[m].svc] = op[m].child
        BY <2>1, <1>a, <3>1 DEF Record
      <3>5. QED
        BY <3>1, <3>2, <3>3, <3>4, NullIsNoValue DEF ChildSettles
    <2>2. CASE ~Record(m)
      BY <1>a, <2>2 DEF ChildSettles, Start, wait_for_dependencies, StartLookup,
       StartClearsStalePid, StartRefusesPid, StartFindsRunning, PrecheckFails, Spawn,
       IdentityFails, Record, RecordFails, SettleExited, SettleLimitsFail, SettleAlive,
       Return, Goto, Forget, OnToSpawn,
       TakeRow
    <2>3. QED
      BY <2>1, <2>2
  <1>5. QED
    BY <1>1, <1>2, <1>3, <1>4 DEF LoneControl

LEMMA LoneControlHealth ==
    ASSUME NEW m \in Managers, LoneInv(m), Health(m)
    PROVE  LoneControl(m)'
  <1>a. /\ op \in [Managers -> Op] /\ pc \in [Managers -> Pcs] /\ db \in [Services -> Row]
        /\ pc[m] # "idle" => op[m].svc \in Services
    BY DEF LoneInv, IdentityInv, WellTyped, ControlOK, DataOK
  <1>1. RowIsCurrent(m)'
    BY <1>a DEF RowIsCurrent, RowInHand, Health, HealthFindsNoPid, HealthFindsPid,
       HealthClearsStalePid, HealthChecks, AwaitDeadline, MarkHealthy, MarkUnhealthy,
       Answer, AfterHealth,
       Return, Goto, Forget, OnToSpawn,
       TakeRow, Op
  <1>2. NothingRuns(m)' /\ PidIsClear(m)' /\ ChildSettles(m)'
    BY <1>a DEF NothingRuns, PidIsClear, ChildSettles,
       Health, HealthFindsNoPid, HealthFindsPid,
       HealthClearsStalePid, HealthChecks, AwaitDeadline, MarkHealthy, MarkUnhealthy,
       Answer, AfterHealth, Return, Goto, Forget, OnToSpawn,
       TakeRow
  <1>3. QED
    BY <1>1, <1>2 DEF LoneControl

LEMMA LoneControlStop ==
    ASSUME NEW m \in Managers, LoneInv(m), Stop(m)
    PROVE  LoneControl(m)'
  <1>a. /\ op \in [Managers -> Op] /\ pc \in [Managers -> Pcs] /\ db \in [Services -> Row]
        /\ pc[m] # "idle" => op[m].svc \in Services
    BY DEF LoneInv, IdentityInv, WellTyped, ControlOK, DataOK
  <1>1. RowIsCurrent(m)'
    BY <1>a DEF LoneInv, RowIsCurrent, RowInHand, Stop, StopRead, StopClears, StopFindsDead,
       StopRefusesPid, StopSignals, GraceEnds, RecheckMatches, RecheckRefuses, TaskKill,
       TaskKillFails, StopConfirms, StopGivesUp, StopReturns,
       Return, Goto, Forget, OnToSpawn,
       TakeRow, Op
  <1>2. NothingRuns(m)'
    <2>1. CASE StopFindsDead(m)
      <3>1. op[m].row = db[op[m].svc] /\ Names(db[op[m].svc], op[m].svc)
        BY <2>1, <1>a DEF StopFindsDead, LoneInv, RowIsCurrent, RowInHand,
           IdentityInv, RowsName
      <3>2. ~Alive(db[op[m].svc].hash)
        BY <2>1, <3>1, DeadRow DEF StopFindsDead, LoneInv
      <3>3. QED
        BY <2>1, <3>2, <1>a DEF StopFindsDead, NothingRuns, Forget, Goto, Alive, Op
    <2>2. CASE ~StopFindsDead(m)
      BY <1>a, <2>2 DEF NothingRuns, Stop, StopRead, StopClears, StopFindsDead,
       StopRefusesPid, StopSignals, GraceEnds, RecheckMatches, RecheckRefuses, TaskKill,
       TaskKillFails, StopConfirms, StopGivesUp, StopReturns,
       Return, Goto, Forget, OnToSpawn,
       TakeRow
    <2>3. QED
      BY <2>1, <2>2
  <1>3. PidIsClear(m)'
    <2>1. CASE StopClears(m) \/ StopConfirms(m)
      <3>1. clear_pid(db[op[m].svc], "stopped", NULL).pid = NULL
        BY <2>1, <1>a, RowPids
           DEF StopClears, StopConfirms, Statuses, LoneInv, IdentityInv
      <3>2. QED
        BY <2>1, <3>1, <1>a
           DEF StopClears, StopConfirms, StopReturns, PidIsClear, OnToSpawn, Return,
               Goto, Write, NoOp
    <2>2. CASE ~StopClears(m) /\ ~StopConfirms(m)
      BY <1>a, <2>2 DEF PidIsClear, Stop, StopRead, StopClears, StopFindsDead,
       StopRefusesPid, StopSignals, GraceEnds, RecheckMatches, RecheckRefuses, TaskKill,
       TaskKillFails, StopConfirms, StopGivesUp, StopReturns,
       Return, Goto, Forget, OnToSpawn,
       TakeRow
    <2>3. QED
      BY <2>1, <2>2
  <1>4. ChildSettles(m)'
    BY <1>a DEF ChildSettles, Stop, StopRead, StopClears, StopFindsDead,
       StopRefusesPid, StopSignals, GraceEnds, RecheckMatches, RecheckRefuses, TaskKill,
       TaskKillFails, StopConfirms, StopGivesUp, StopReturns,
       Return, Goto, Forget, OnToSpawn,
       TakeRow
  <1>5. QED
    BY <1>1, <1>2, <1>3, <1>4 DEF LoneControl

LEMMA LoneControlNext ==
    ASSUME NEW m \in Managers, Managers = {m}, LoneInv(m), [Next]_vars
    PROVE  LoneControl(m)'
  <1>a. /\ op \in [Managers -> Op] /\ pc \in [Managers -> Pcs] /\ db \in [Services -> Row]
        /\ pc[m] # "idle" => op[m].svc \in Services
    BY DEF LoneInv, IdentityInv, WellTyped, ControlOK, DataOK
  <1>1. CASE Call(m) \/ StatementFails(m) \/ LastStatementFails(m) \/ Exit(m)
    BY <1>1, <1>a DEF LoneControl, RowIsCurrent, RowInHand, NothingRuns, PidIsClear,
       ChildSettles, Call, CallStart, CallStop, CallHealthOk, Begin, StatementFails,
       LastStatementFails, Exit, Return, Goto
  <1>2. CASE UNCHANGED <<db, children, pc, op>>
    <2>1. NothingRuns(m)'
      <3>1. ASSUME pc[m] = "s_clear", db[op[m].svc].pid # NULL
            PROVE  ~Alive(db[op[m].svc].hash)'
        <4>1. Names(db[op[m].svc], op[m].svc) /\ ~Alive(db[op[m].svc].hash)
          BY <1>a, <3>1 DEF LoneInv, NothingRuns, IdentityInv, RowsName
        <4>2. ~Alive(db[op[m].svc].hash) /\ db[op[m].svc].hash \in Ids
                /\ proc[db[op[m].svc].hash].st # "unborn"
          BY <4>1 DEF Names
        <4>3. QED
          BY <1>2, <4>2, DeadStaysDead DEF LoneInv, IdentityInv, Alive
      <3>2. QED
        BY <1>2, <3>1 DEF NothingRuns
    <2>2. QED
      BY <1>2, <2>1 DEF LoneInv, LoneControl, RowIsCurrent, PidIsClear, ChildSettles
  <1>3. QED
    BY <1>1, <1>2, LoneControlStart, LoneControlHealth, LoneControlStop
       DEF Next, vars, ProcessExits, ForeignStarts

LEMMA LoneChildren ==
    ASSUME NEW m \in Managers, Managers = {m}, LoneInv(m), [Next]_vars
    PROVE  ChildIsRecorded(m)'
  <1>a. LoneRow(m) /\ ManagerShape(m)
    BY LoneRowSteps, NextShape DEF LoneInv, IdentityInv
  <1>1. ASSUME NEW s \in Services, db'[s].pid # NULL
        PROVE  children'[m][s] \in {NULL, db'[s].hash}
    <2>1. CASE Record(m) /\ op[m].svc = s /\ db'[s].hash = op[m].child
      BY <2>1 DEF Record, LoneInv, IdentityInv, WellTyped, DataOK
    <2>2. CASE db'[s].pid = db[s].pid /\ db'[s].hash = db[s].hash
      <3>1. ~(pc[m] = "record" /\ op[m].svc = s)
        BY <1>1, <2>2 DEF LoneInv, PidIsClear
      <3>2. children'[m][s] \in {NULL, children[m][s]}
        BY <1>a, <3>1 DEF ManagerShape, ChildShape
      <3>3. QED
        BY <1>1, <2>2, <3>2 DEF LoneInv, ChildIsRecorded
    <2>3. QED
      BY <1>a, <1>1, <2>1, <2>2 DEF LoneRow
  <1>2. QED
    BY <1>1 DEF ChildIsRecorded

(* A process leaves "about to be recorded" by being recorded, killed, or   *)
(* written off as unrecorded.                                              *)
LEMMA RecordEnds ==
    ASSUME NEW m \in Managers, Managers = {m}, LoneInv(m), [Next]_vars,
           pc[m] = "record", proc'[op[m].child].st = "running"
    PROVE  \/ pc'[m] = "record" /\ op'[m].child = op[m].child
           \/ op[m].child \in unrecorded'
           \/ Record(m)
  <1>a. /\ proc \in [Ids -> Process] /\ op[m].child \in Ids /\ NULL \notin Ids
    BY NullIsNoValue DEF LoneInv, IdentityInv, WellTyped, ControlOK, DataOK
  <1>1. ~IdentityFails(m)
    BY <1>a DEF IdentityFails, Dies, Alive, Process
  <1>2. CASE RecordFails(m) \/ Exit(m)
    BY <1>2 DEF RecordFails, Exit
  <1>3. ~Call(m) /\ ~Stop(m) /\ ~Health(m) /\ ~StatementFails(m) /\ ~LastStatementFails(m)
    BY DEF Call, CallStart, CallStop, CallHealthOk, Begin, StatementFails,
       LastStatementFails,
       Stop, StopRead, StopClears, StopFindsDead,
       StopRefusesPid, StopSignals, GraceEnds, RecheckMatches, RecheckRefuses, TaskKill,
       TaskKillFails, StopConfirms, StopGivesUp,
       Health, HealthFindsNoPid, HealthFindsPid,
       HealthClearsStalePid, HealthChecks, AwaitDeadline, MarkHealthy, MarkUnhealthy
  <1>4. Start(m) => IdentityFails(m) \/ Record(m) \/ RecordFails(m)
    BY DEF Start, wait_for_dependencies, StartLookup,
       StartClearsStalePid, StartRefusesPid, StartFindsRunning, PrecheckFails, Spawn,
       SettleExited, SettleLimitsFail, SettleAlive
  <1>5. CASE UNCHANGED <<pc, op>>
    BY <1>5
  <1>6. QED
    BY <1>1, <1>2, <1>3, <1>4, <1>5 DEF Next, vars, ProcessExits, ForeignStarts

LEMMA UnrecordedGrows ==
    ASSUME WellTyped, [Next]_vars
    PROVE  unrecorded \subseteq unrecorded'
  <1>1. ASSUME NEW m \in Managers, Start(m)
        PROVE  unrecorded \subseteq unrecorded'
    BY <1>1 DEF Start, wait_for_dependencies, StartLookup,
       StartClearsStalePid, StartRefusesPid, StartFindsRunning, PrecheckFails, Spawn,
       IdentityFails, Record, RecordFails, SettleExited, SettleLimitsFail, SettleAlive
  <1>2. ASSUME NEW m \in Managers, Health(m) \/ Stop(m)
        PROVE  unrecorded \subseteq unrecorded'
    BY <1>2 DEF Health, HealthFindsNoPid, HealthFindsPid,
       HealthClearsStalePid, HealthChecks, AwaitDeadline, MarkHealthy, MarkUnhealthy,
       Stop, StopRead, StopClears, StopFindsDead,
       StopRefusesPid, StopSignals, GraceEnds, RecheckMatches, RecheckRefuses, TaskKill,
       TaskKillFails, StopConfirms, StopGivesUp
  <1>3. QED
    BY <1>1, <1>2 DEF Next, vars, Call, CallStart, CallStop, CallHealthOk, Begin,
       StatementFails, LastStatementFails, Exit, ProcessExits, ForeignStarts

(* A process of a service that is new was spawned by the manager.          *)
LEMMA BirthsAreSpawned ==
    ASSUME NEW m \in Managers, Managers = {m}, LoneInv(m), [Next]_vars,
           NEW i \in Ids, ~Alive(i), Alive(i)', proc'[i].svc \in Services
    PROVE  pc'[m] = "record" /\ op'[m].child = i
  <1>a. /\ proc \in [Ids -> Process] /\ WellTyped /\ NULL \notin Ids
        /\ pc[m] # "idle" => op[m].svc \in Services
        /\ pc \in [Managers -> Pcs] /\ op \in [Managers -> Op]
    BY NullIsNoValue DEF LoneInv, IdentityInv, WellTyped, ControlOK, DataOK
  <1>1. ~UNCHANGED proc
    BY DEF Alive
  <1>2. ASSUME NEW j \in Ids, NEW st \in Exited, Dies(j, st)
        PROVE  FALSE
    BY <1>a, <1>2 DEF Dies, Alive, Exited
  <1>3. ASSUME Spawn(m)
        PROVE  pc'[m] = "record" /\ op'[m].child = i
    <2>1. PICK j \in Ids, p \in Pids : Born(j, op[m].svc, p) /\ op' = [op EXCEPT ![m].child = j]
      BY <1>3 DEF Spawn
    <2>2. i = j
      BY <1>a, <2>1 DEF Born, Alive
    <2>3. QED
      BY <1>a, <1>3, <2>1, <2>2 DEF Spawn, Goto, Op
  <1>4. ASSUME NEW j \in Ids, NEW p \in Pids, ForeignStarts(j, p)
        PROVE  FALSE
    <2>1. i = j
      BY <1>a, <1>4 DEF ForeignStarts, Born, Alive
    <2>2. proc'[i].svc = Foreign
      BY <1>a, <1>4, <2>1 DEF ForeignStarts, Born
    <2>3. QED
      BY <2>2, ConfigAssumption
  <1>5. ASSUME NEW c \in Ids \cup {NULL}, NEW st \in Exited, Alive(c), Dies(c, st)
        PROVE  FALSE
    BY <1>2, <1>5 DEF Alive
  <1>6. ASSUME Start(m)
        PROVE  Spawn(m)
    <2>1. ~IdentityFails(m)
      BY <1>a, <1>1, <1>2 DEF IdentityFails, LoneInv, IdentityInv, WellTyped, ControlOK,
         Exited
    <2>2. ~SettleLimitsFail(m)
      <3>1. ASSUME pc[m] = "settle"
            PROVE  children[m][op[m].svc] \in Ids \cup {NULL}
        BY <1>a, <3>1 DEF WellTyped, DataOK
      <3>2. QED
        BY <1>1, <1>5, <3>1 DEF SettleLimitsFail, Exited
    <2>3. QED
      BY <1>1, <1>6, <2>1, <2>2 DEF Start, wait_for_dependencies, StartLookup,
         StartClearsStalePid, StartRefusesPid, StartFindsRunning, PrecheckFails,
         Record, RecordFails, SettleExited, SettleAlive
  <1>7. ~Stop(m)
    BY <1>1, <1>2 DEF Stop, StopRead, StopClears, StopFindsDead, StopRefusesPid,
       StopSignals, GraceEnds, RecheckMatches, RecheckRefuses, TaskKill, TaskKillFails,
       StopConfirms, StopGivesUp, Exited
  <1>8. ~Health(m)
    BY <1>1 DEF Health, HealthFindsNoPid, HealthFindsPid, HealthClearsStalePid,
       HealthChecks, AwaitDeadline, MarkHealthy, MarkUnhealthy
  <1>9. \A j \in Ids : ~ProcessExits(j)
    BY <1>2 DEF ProcessExits, Exited
  <1>10. QED
    BY <1>1, <1>3, <1>4, <1>6, <1>7, <1>8, <1>9 DEF Next, vars, Call, CallStart,
       CallStop, CallHealthOk, Begin, StatementFails, LastStatementFails, Exit

LEMMA LoneNext ==
    ASSUME NEW m \in Managers, Managers = {m}, LoneInv(m), [Next]_vars
    PROVE  LoneInv(m)'
  <1>a. /\ IdentityInv /\ IdentityInv' /\ WellTyped /\ LoneRow(m) /\ ProcGrows
        /\ unrecorded \subseteq unrecorded'
    BY IdentityNext, LoneRowSteps, ProcGrowth, UnrecordedGrows DEF LoneInv, IdentityInv
  <1>1. NoLostProcess'
    <2>1. ASSUME NEW i \in Ids, Alive(i)', proc'[i].svc \in Services
          PROVE  \/ Recorded(i)'
                 \/ pc'[m] = "record" /\ op'[m].child = i
                 \/ i \in unrecorded'
      <3>1. CASE ~Alive(i)
        BY <2>1, <3>1, BirthsAreSpawned
      <3>2. CASE Alive(i)
        <4>1. /\ proc[i].st = "running" /\ proc'[i].st = "running"
              /\ proc'[i].svc = proc[i].svc /\ proc'[i].pid = proc[i].pid
              /\ proc[i].svc \in Services /\ proc[i].pid \in Pids
          BY <1>a, <2>1, <3>2 DEF Alive, ProcGrows, IdentityInv, BornHavePids
        <4>2. CASE Recorded(i)
          <5>1. db[proc[i].svc].pid = proc[i].pid /\ db[proc[i].svc].hash = i
            BY <4>2 DEF Recorded
          <5>2. ~(pc[m] = "record" /\ op[m].svc = proc[i].svc)
            BY <4>1, <5>1, NullIsNoValue DEF LoneInv, PidIsClear
          <5>3. /\ db'[proc[i].svc].pid = db[proc[i].svc].pid
                /\ db'[proc[i].svc].hash = db[proc[i].svc].hash
            BY <1>a, <4>1, <5>1, <5>2 DEF LoneRow, Record
          <5>4. QED
            BY <4>1, <5>1, <5>3 DEF Recorded
        <4>3. CASE pc[m] = "record" /\ op[m].child = i
          <5>1. CASE Record(m)
            <6>1. op[m].svc = proc[i].svc
              BY <4>3, <1>a DEF IdentityInv, SpawnedName
            <6>2. db[proc[i].svc].pid = NULL
              BY <4>3, <6>1 DEF LoneInv, PidIsClear
            <6>3. db' = [db EXCEPT ![op[m].svc] = upsert(db[op[m].svc],
                           [pid |-> proc[i].pid, status |-> "starting",
                            hash |-> i, exit |-> NULL])]
              BY <4>3, <5>1 DEF Record, Write
            <6>4. db'[proc[i].svc].pid = proc[i].pid /\ db'[proc[i].svc].hash = i
              BY <1>a, <4>1, <6>1, <6>3, RowPids DEF WellTyped, DataOK
            <6>5. QED
              BY <4>1, <6>4 DEF Recorded
          <5>2. QED
            BY <4>1, <4>3, <5>1, RecordEnds
        <4>4. QED
          BY <1>a, <3>2, <4>1, <4>2, <4>3 DEF LoneInv, NoLostProcess
      <3>3. QED
        BY <3>1, <3>2
    <2>2. QED
      BY <2>1 DEF NoLostProcess
  <1>2. QED
    BY <1>a, <1>1, LoneControlNext, LoneChildren DEF LoneInv, LoneControl

(* With one manager at a time on a project, however often it is killed and *)
(* replaced and whichever statements fail: every live process of a service *)
(* is the one its row names, unless its start has not recorded it yet, or  *)
(* never could.                                                            *)
THEOREM NoProcessIsLost ==
    ASSUME NEW m \in Managers, Managers = {m}
    PROVE  Spec => []NoLostProcess
  <1>1. Init => LoneInv(m)
    <2>1. Init => IdentityInv
      BY IdentityInit
    <2>2. QED
      BY <2>1 DEF Init, LoneInv, RowIsCurrent, RowInHand, ChildIsRecorded, NothingRuns,
         PidIsClear, ChildSettles, NoLostProcess, NoChildren, NoRow, Unborn, Alive
  <1>2. LoneInv(m) /\ [Next]_vars => LoneInv(m)'
    BY LoneNext
  <1>3. LoneInv(m) => NoLostProcess
    BY DEF LoneInv
  <1>4. QED
    BY <1>1, <1>2, <1>3, PTL DEF Spec

(***************************************************************************)
(* A row taken for ready, again with one manager at a time.  A row without *)
(* a pid does not say running, because the health wait that is about to    *)
(* say so has just seen a pid that nobody else can clear; and an exit code *)
(* zero in it is that of the process the row still names.                  *)
(***************************************************************************)
RowsTell == \A s \in Services : db[s].pid = NULL =>
    /\ db[s].status # "running"
    /\ db[s].exit = "zero" => db[s].hash \in Ids /\ proc[db[s].hash].st = "exit0"

HealthySeesPid(m) == pc[m] = "healthy" => db[op[m].svc].pid # NULL

ReadyInv(m) == LoneInv(m) /\ RowsTell /\ HealthySeesPid(m)

(* A process that has exited keeps its exit status.                        *)
LEMMA ExitStatusStays ==
    ASSUME WellTyped, [Next]_vars, NEW i \in Ids, proc[i].st = "exit0"
    PROVE  proc'[i].st = "exit0"
  <1>1. ProcShape /\ proc \in [Ids -> Process]
    BY ProcSteps DEF WellTyped, DataOK
  <1>2. QED
    BY <1>1 DEF ProcShape, Alive, Born, Dies

(* What the statements do to the status and the exit code of a row.        *)
LEMMA RowStatuses ==
    ASSUME NEW row \in Row
    PROVE  /\ \A st \in Statuses, e \in ExitCodes \cup {NULL} :
                 LET new == clear_pid(row, st, e)
                 IN  /\ new.hash = row.hash
                     /\ (new.status = st /\ new.exit = e) \/ new = NoRow
           /\ \A st \in Statuses :
                 LET new == upsert(row, StatusUpdate(st))
                 IN  new.status = st /\ new.exit = row.exit
  <1>1. \A st \in Statuses, e \in ExitCodes \cup {NULL} :
          LET new == clear_pid(row, st, e)
          IN  /\ new.hash = row.hash
              /\ (new.status = st /\ new.exit = e) \/ new = NoRow
    <2>1. CASE row = NoRow
      BY <2>1 DEF clear_pid
    <2>2. CASE row # NoRow
      BY <2>2 DEF clear_pid, Row
    <2>3. QED
      BY <2>1, <2>2
  <1>2. \A st \in Statuses :
          LET new == upsert(row, StatusUpdate(st))
          IN  new.status = st /\ new.exit = row.exit
    BY NullIsNoValue DEF upsert, StatusUpdate, Coalesce
  <1>3. QED
    BY <1>1, <1>2

(* What a call, a failing statement and the end of the manager do.         *)
LEMMA EndsAndCalls ==
    ASSUME NEW m \in Managers
    PROVE  /\ Call(m) => /\ UNCHANGED db
                         /\ Goto(m, "deps") \/ Goto(m, "s_read") \/ Goto(m, "health")
           /\ StatementFails(m) => UNCHANGED db /\ Return(m)
           /\ LastStatementFails(m) => UNCHANGED db /\ Return(m)
           /\ Exit(m) => UNCHANGED db /\ Return(m)
  <1>1. Call(m) => /\ UNCHANGED db
                   /\ Goto(m, "deps") \/ Goto(m, "s_read") \/ Goto(m, "health")
    <2>1. \A s, force, label :
            Begin(m, s, force, label) => UNCHANGED db /\ Goto(m, label)
      BY DEF Begin
    <2>2. QED
      BY <2>1 DEF Call, CallStart, CallStop, CallHealthOk
  <1>2. StatementFails(m) => UNCHANGED db /\ Return(m)
    BY DEF StatementFails
  <1>3. LastStatementFails(m) => UNCHANGED db /\ Return(m)
    BY DEF LastStatementFails
  <1>4. Exit(m) => UNCHANGED db /\ Return(m)
    BY DEF Exit
  <1>5. QED
    BY <1>1, <1>2, <1>3, <1>4

LEMMA RowsTellNext ==
    ASSUME NEW m \in Managers, Managers = {m}, ReadyInv(m), [Next]_vars
    PROVE  RowsTell'
  <1>a. /\ WellTyped /\ db \in [Services -> Row] /\ NULL \notin Ids
        /\ pc[m] # "idle" => op[m].svc \in Services
        /\ pc[m] = "record" => op[m].child \in Ids
        /\ {"stopped", "unhealthy", "completed", "failed"} \subseteq Statuses \ {"running"}
        /\ "running" \in Statuses /\ {"zero", "nonzero"} \subseteq ExitCodes
        /\ NULL # "zero"
    BY NullIsNoValue DEF ReadyInv, LoneInv, IdentityInv, WellTyped, ControlOK, DataOK,
       Statuses, ExitCodes
  <1>b. \A s \in Services : db'[s] = db[s] =>
          (db'[s].pid = NULL =>
             /\ db'[s].status # "running"
             /\ db'[s].exit = "zero" => db'[s].hash \in Ids /\ proc'[db'[s].hash].st = "exit0")
    BY <1>a, ExitStatusStays DEF ReadyInv, RowsTell
  <1>1. UNCHANGED db => RowsTell'
    BY <1>b DEF RowsTell
  <1>2. ASSUME NEW s \in Services, NEW st \in Statuses \ {"running"},
               NEW e \in ExitCodes \cup {NULL},
               Write(s, clear_pid(db[s], st, e)),
               e = "zero" => db[s].hash \in Ids /\ proc[db[s].hash].st = "exit0"
        PROVE  RowsTell'
    <2>1. /\ db'[s] = clear_pid(db[s], st, e)
          /\ \A r \in Services \ {s} : db'[r] = db[r]
      BY <1>a, <1>2 DEF Write
    <2>2. /\ db'[s].hash = db[s].hash
          /\ (db'[s].status = st /\ db'[s].exit = e) \/ db'[s] = NoRow
      BY <1>a, <2>1, RowStatuses
    <2>3. db'[s].status # "running" /\ (db'[s].exit = "zero" => e = "zero")
      BY <1>a, <2>2 DEF NoRow
    <2>4. e = "zero" => proc'[db[s].hash].st = "exit0"
      BY <1>a, <1>2, ExitStatusStays
    <2>5. QED
      BY <1>b, <1>2, <2>1, <2>2, <2>3, <2>4 DEF RowsTell
  <1>3. ASSUME NEW s \in Services, NEW st \in Statuses,
               Write(s, upsert(db[s], StatusUpdate(st))),
               st = "running" => db[s].pid # NULL
        PROVE  RowsTell'
    <2>1. /\ db'[s] = upsert(db[s], StatusUpdate(st))
          /\ \A r \in Services \ {s} : db'[r] = db[r]
      BY <1>a, <1>3 DEF Write
    <2>2. /\ db'[s].pid = db[s].pid /\ db'[s].hash = db[s].hash
          /\ db'[s].status = st /\ db'[s].exit = db[s].exit
      BY <1>a, <2>1, RowStatuses, RowPids
    <2>3. QED
      BY <1>a, <1>b, <1>3, <2>1, <2>2, ExitStatusStays DEF ReadyInv, RowsTell
  <1>4. ASSUME Record(m)
        PROVE  RowsTell'
    <2>1. proc[op[m].child].pid \in Pids
      BY <1>4, <1>a
         DEF Record, ReadyInv, LoneInv, IdentityInv, BornHavePids, SpawnedName
    <2>2. /\ db'[op[m].svc].pid # NULL
          /\ \A r \in Services \ {op[m].svc} : db'[r] = db[r]
      BY <1>a, <1>4, <2>1, RowPids, NullIsNoValue DEF Record, Write
    <2>3. QED
      BY <1>b, <2>2 DEF RowsTell
  <1>5. ASSUME Start(m)
        PROVE  RowsTell'
    <2>1. CASE StartClearsStalePid(m)
      BY <2>1, <1>a, <1>2 DEF StartClearsStalePid
    <2>2. CASE SettleExited(m)
      <3>1. /\ op[m].svc \in Services
            /\ children[m][op[m].svc] = db[op[m].svc].hash
            /\ db[op[m].svc].hash \in Ids
        BY <2>2, <1>a
           DEF SettleExited, ReadyInv, LoneInv, ChildSettles, IdentityInv, RowsName, Names
      <3>2. CASE proc[children[m][op[m].svc]].st = "exit0"
        <4>1. Write(op[m].svc, clear_pid(db[op[m].svc], "completed", "zero"))
          BY <2>2, <3>2 DEF SettleExited
        <4>2. QED
          BY <1>a, <1>2, <3>1, <3>2, <4>1
      <3>3. CASE proc[children[m][op[m].svc]].st # "exit0"
        <4>1. Write(op[m].svc, clear_pid(db[op[m].svc], "failed", "nonzero"))
          BY <2>2, <3>3 DEF SettleExited
        <4>2. QED
          BY <1>a, <1>2, <3>1, <4>1
      <3>4. QED
        BY <3>2, <3>3
    <2>3. CASE SettleLimitsFail(m)
      BY <2>3, <1>a, <1>1, <1>2 DEF SettleLimitsFail
    <2>4. QED
      BY <1>1, <1>4, <1>5, <2>1, <2>2, <2>3 DEF Start, wait_for_dependencies, StartLookup,
         StartRefusesPid, StartFindsRunning, PrecheckFails, Spawn, IdentityFails,
         RecordFails, SettleAlive
  <1>6. ASSUME Health(m)
        PROVE  RowsTell'
    <2>1. CASE HealthClearsStalePid(m)
      BY <2>1, <1>a, <1>2 DEF HealthClearsStalePid
    <2>2. CASE MarkHealthy(m)
      BY <2>2, <1>a, <1>3 DEF MarkHealthy, ReadyInv, HealthySeesPid
    <2>3. CASE MarkUnhealthy(m)
      BY <2>3, <1>a, <1>3 DEF MarkUnhealthy
    <2>4. QED
      BY <1>1, <1>6, <2>1, <2>2, <2>3 DEF Health, HealthFindsNoPid, HealthFindsPid,
         HealthChecks, AwaitDeadline
  <1>7. ASSUME Stop(m)
        PROVE  RowsTell'
    <2>1. CASE StopClears(m) \/ StopConfirms(m)
      BY <2>1, <1>a, <1>2 DEF StopClears, StopConfirms
    <2>2. QED
      BY <1>1, <1>7, <2>1 DEF Stop, StopRead, StopFindsDead, StopRefusesPid,
         StopSignals, GraceEnds, RecheckMatches, RecheckRefuses, TaskKill, TaskKillFails,
         StopGivesUp
  <1>8. CASE Call(m) \/ StatementFails(m) \/ LastStatementFails(m) \/ Exit(m)
    BY <1>1, <1>8, EndsAndCalls
  <1>9. CASE \/ UNCHANGED vars
            \/ \E i \in Ids : ProcessExits(i) \/ \E p \in Pids : ForeignStarts(i, p)
    BY <1>1, <1>9 DEF vars, ProcessExits, ForeignStarts
  <1>10. QED
    BY <1>5, <1>6, <1>7, <1>8, <1>9 DEF Next

(* Only a health check that found a pid in the row, and answered yes,      *)
(* leads to "healthy".                                                     *)
LEMMA HealthySeesPidNext ==
    ASSUME NEW m \in Managers, Managers = {m}, ReadyInv(m), [Next]_vars
    PROVE  HealthySeesPid(m)'
  <1>a. /\ op \in [Managers -> Op] /\ pc \in [Managers -> Pcs]
        /\ ReadyInv(m) /\ LoneInv(m) /\ HealthySeesPid(m)
    BY DEF ReadyInv, LoneInv, IdentityInv, WellTyped, ControlOK, DataOK
  <1>1. CASE UNCHANGED <<db, pc, op>>
    BY <1>a, <1>1 DEF HealthySeesPid
  <1>2. CASE HealthChecks(m)
    <2>1. db[op[m].svc].pid # NULL /\ db' = db
      BY <1>a, <1>2 DEF HealthChecks, LoneInv, RowIsCurrent, RowInHand
    <2>2. pc'[m] = "healthy" => op'[m].svc = op[m].svc
      <3>1. PICK ok \in BOOLEAN : Answer(m, ok)
        BY <1>2 DEF HealthChecks
      <3>2. PICK next \in AfterHealth(m, ok) :
                 IF next = "idle" THEN Return(m) ELSE Goto(m, next) /\ Forget(m)
        BY <3>1 DEF Answer
      <3>3. CASE next = "idle"
        BY <1>a, <3>2, <3>3 DEF Return
      <3>4. CASE next # "idle"
        BY <1>a, <3>2, <3>4 DEF Forget, Op
      <3>5. QED
        BY <3>3, <3>4
    <2>3. QED
      BY <2>1, <2>2 DEF HealthySeesPid
  <1>3. CASE Health(m) /\ ~HealthChecks(m)
    <2>1. pc'[m] # "healthy"
      BY <1>a, <1>3 DEF Health, HealthFindsNoPid, HealthFindsPid, HealthClearsStalePid,
         AwaitDeadline, MarkHealthy, MarkUnhealthy, Answer, AfterHealth, Return, Goto,
         TakeRow
    <2>2. QED
      BY <2>1 DEF HealthySeesPid
  <1>4. CASE Start(m)
    <2>1. pc'[m] # "healthy"
      BY <1>a, <1>4 DEF Start, wait_for_dependencies, StartLookup, StartClearsStalePid,
         StartRefusesPid, StartFindsRunning, PrecheckFails, Spawn, IdentityFails, Record,
         RecordFails, SettleExited, SettleLimitsFail, SettleAlive, Return, Goto,
         OnToSpawn, TakeRow
    <2>2. QED
      BY <2>1 DEF HealthySeesPid
  <1>5. CASE Stop(m)
    <2>1. pc'[m] # "healthy"
      BY <1>a, <1>5 DEF Stop, StopRead, StopClears, StopFindsDead, StopRefusesPid,
         StopSignals, GraceEnds, RecheckMatches, RecheckRefuses, TaskKill, TaskKillFails,
         StopConfirms, StopGivesUp, StopReturns, Return, Goto, OnToSpawn, TakeRow
    <2>2. QED
      BY <2>1 DEF HealthySeesPid
  <1>6. CASE Call(m) \/ StatementFails(m) \/ LastStatementFails(m) \/ Exit(m)
    <2>1. CASE Call(m)
      <3>1. \/ Goto(m, "deps") \/ Goto(m, "s_read") \/ Goto(m, "health")
        BY <2>1, EndsAndCalls
      <3>2. QED
        BY <1>a, <3>1 DEF Goto, HealthySeesPid
    <2>2. CASE StatementFails(m) \/ LastStatementFails(m) \/ Exit(m)
      <3>1. Return(m)
        BY <2>2, EndsAndCalls
      <3>2. QED
        BY <1>a, <3>1 DEF Return, HealthySeesPid
    <2>3. QED
      BY <1>6, <2>1, <2>2
  <1>7. CASE \/ UNCHANGED vars
            \/ \E i \in Ids : ProcessExits(i) \/ \E p \in Pids : ForeignStarts(i, p)
    BY <1>1, <1>7 DEF vars, ProcessExits, ForeignStarts
  <1>8. QED
    BY <1>2, <1>3, <1>4, <1>5, <1>6, <1>7 DEF Next

(* With one manager at a time, a dependency is never started upon because  *)
(* of a status or an exit code some earlier run left in its row.           *)
THEOREM ReadyRowsAreTruthful ==
    ASSUME NEW m \in Managers, Managers = {m}
    PROVE  Spec => []ReadyRowIsTruthful
  <1>1. Init => ReadyInv(m)
    <2>1. Init => LoneInv(m)
      <3>1. Init => IdentityInv
        BY IdentityInit
      <3>2. QED
        BY <3>1 DEF Init, LoneInv, RowIsCurrent, RowInHand, ChildIsRecorded, NothingRuns,
           PidIsClear, ChildSettles, NoLostProcess, NoChildren, NoRow, Unborn, Alive
    <2>2. QED
      BY <2>1, NullIsNoValue DEF Init, ReadyInv, RowsTell, HealthySeesPid, NoRow, ExitCodes
  <1>2. ReadyInv(m) /\ [Next]_vars => ReadyInv(m)'
    BY LoneNext, RowsTellNext, HealthySeesPidNext DEF ReadyInv
  <1>3. ReadyInv(m) => ReadyRowIsTruthful
    BY NullIsNoValue DEF ReadyInv, RowsTell, ReadyRowIsTruthful, DependencyReady
  <1>4. QED
    BY <1>1, <1>2, <1>3, PTL DEF Spec
=============================================================================
