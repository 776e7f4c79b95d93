-------------------------- MODULE ProcessManager --------------------------
(***************************************************************************)
(* Native services (crates/stackdeck-process): the managers that start,    *)
(* stop and health-check the processes of a project, the state database    *)
(* they share, and the operating system under them.                        *)
(*                                                                         *)
(* A manager is one ProcessManager value: the CLI makes one per command,   *)
(* `up --supervise` and `watch` keep theirs.  A manager runs one operation *)
(* at a time; nothing locks one manager against another.  An operation is  *)
(* cut at every database statement and at every decision taken from the    *)
(* operating system's answer, so steps of other managers, exits of         *)
(* processes and the reuse of a pid come in between.  Two cuts are left    *)
(* out: the rows of the dependencies are read together, and the insertion  *)
(* of a Child is one step with the statement that records it.              *)
(*                                                                         *)
(* The build modelled is the Windows one: a process object, and its pid,   *)
(* outlives the process while somebody holds a handle (a Child) to it.     *)
(* Time is left out: a wait with a deadline may end at any moment.         *)
(***************************************************************************)
EXTENDS StateDb

CONSTANTS
    Managers,
    Services,
    depends_on,      \* svc.depends_on
    ProcessChecked,  \* services whose healthcheck.type is "process"
    Limited,         \* services with a memory or process-count limit
    PromptReuse,     \* may a pid be reused between an identity query and the
                     \* taskkill launched right after it?
    DbFails,         \* may a statement fail?
    Foreign          \* owner of the processes that are nobody's service

ASSUME ConfigAssumption ==
    /\ depends_on \in [Services -> SUBSET Services]
    /\ ProcessChecked \subseteq Services
    /\ Limited \subseteq Services
    /\ PromptReuse \in BOOLEAN
    /\ DbFails \in BOOLEAN
    /\ Foreign \notin Services
    /\ NULL \notin Services

VARIABLES
    db,          \* the row of each service
    proc,        \* every process there ever was, by identity
    children,    \* ProcessManager.children: the Child held for a service name
    pc,          \* where each manager is
    op,          \* the locals of the operation it runs
    unrecorded   \* history: processes whose manager ended, or lost the
                 \* database, before it recorded them

vars == <<db, proc, children, pc, op, unrecorded>>

-----------------------------------------------------------------------------
(* The operating system.                                                   *)

Exited == {"exit0", "exit1", "killed"}

Process == [svc : Services \cup {Foreign, NULL},
            pid : Pids \cup {NULL},
            st  : {"unborn", "running"} \cup Exited]

Unborn == [svc |-> NULL, pid |-> NULL, st |-> "unborn"]

Alive(i) == i # NULL /\ proc[i].st = "running"

is_pid_running(p) == \E i \in Ids : Alive(i) /\ proc[i].pid = p

(* Get-CimInstance finds the running process under the pid; its identity   *)
(* equals the persisted one when it is the very process that was recorded. *)
(* The query can also fail, so a caller that gets TRUE here may still be   *)
(* told "no match": the actions below leave that outcome open.             *)
persisted_process_identity_matches(row) ==
    Alive(row.hash) /\ proc[row.hash].pid = row.pid

(* Child handles: those in the children maps, and the local of a start     *)
(* that has not inserted its child yet.                                    *)
Held == {i \in Ids : \/ \E m \in Managers, s \in Services : children[m][s] = i
                     \/ \E m \in Managers : op[m].child = i}

Free(p) ==
    /\ ~is_pid_running(p)
    /\ \A i \in Held : proc[i].pid # p
    /\ PromptReuse \/ \A m \in Managers : pc[m] = "taskkill" => op[m].row.pid # p

Born(i, s, p) == proc' = [proc EXCEPT ![i] = [svc |-> s, pid |-> p, st |-> "running"]]

Dies(i, st) == proc' = [proc EXCEPT ![i].st = st]

-----------------------------------------------------------------------------
(* The managers' control state.                                            *)

Pcs == {"idle", "deps", "lookup", "probe", "precheck", "record", "settle",
        "health", "h_probe", "healthy", "unhealthy",
        "s_read", "s_clear", "s_probe", "grace", "recheck", "taskkill", "confirm"}

(* What follows an inner call.  health_ok returns to its caller ("call"),  *)
(* to a start that found the service running ("already") or to the loop of *)
(* wait_for_health ("await"); stop returns to its caller or to a forced    *)
(* start, which goes on to spawn ("spawn").                                *)
Returns == {"call", "already", "await", "spawn"}

Op == [svc   : Services \cup {NULL},
       force : BOOLEAN,
       row   : Row,
       child : Ids \cup {NULL},
       ret   : Returns]

NoOp == [svc |-> NULL, force |-> FALSE, row |-> NoRow, child |-> NULL, ret |-> "call"]

NoChildren == [s \in Services |-> NULL]

Init ==
    /\ db = [s \in Services |-> NoRow]
    /\ proc = [i \in Ids |-> Unborn]
    /\ children = [m \in Managers |-> NoChildren]
    /\ pc = [m \in Managers |-> "idle"]
    /\ op = [m \in Managers |-> NoOp]
    /\ unrecorded = {}

Goto(m, label) == pc' = [pc EXCEPT ![m] = label]

(* The operation is over, whatever it answers.                             *)
Return(m) == pc' = [pc EXCEPT ![m] = "idle"] /\ op' = [op EXCEPT ![m] = NoOp]

Write(s, row) == db' = [db EXCEPT ![s] = row]

DropChild(m, s) == children' = [children EXCEPT ![m][s] = NULL]

(* On with the row of the service in hand.                                 *)
TakeRow(m, label) ==
    /\ op' = [op EXCEPT ![m].row = db[op[m].svc]]
    /\ Goto(m, label)

(* The row read is out of scope.                                           *)
Forget(m) == op' = [op EXCEPT ![m].row = NoRow]

(* start is past its lookup: only the service name is still needed.        *)
OnToSpawn(m) ==
    /\ op' = [op EXCEPT ![m] = [NoOp EXCEPT !.svc = op[m].svc]]
    /\ Goto(m, "precheck")

-----------------------------------------------------------------------------
(* Calls.  cmd_up and the supervise and watch loops call start, the        *)
(* commands down and restart call stop, the dependency waits and the       *)
(* supervision loops call health_ok.                                       *)

Begin(m, s, force, label) ==
    /\ pc[m] = "idle"
    /\ op' = [op EXCEPT ![m] = [NoOp EXCEPT !.svc = s, !.force = force]]
    /\ Goto(m, label)
    /\ UNCHANGED <<db, proc, children, unrecorded>>

CallStart(m, s, force) == Begin(m, s, force, "deps")
CallStop(m, s) == Begin(m, s, FALSE, "s_read")
CallHealthOk(m, s) == Begin(m, s, FALSE, "health")

-----------------------------------------------------------------------------
(* start, up to the decision to spawn.                                     *)

DependencyReady(row) ==
    \/ row.status = "running"
    \/ row.pid = NULL /\ row.exit = "zero"

wait_for_dependencies(m) ==
    /\ pc[m] = "deps"
    /\ IF \A d \in depends_on[op[m].svc] : DependencyReady(db[d])
         THEN Goto(m, "lookup") /\ UNCHANGED op
         ELSE Return(m)
    /\ UNCHANGED <<db, proc, children, unrecorded>>

StartLookup(m) ==
    /\ pc[m] = "lookup"
    /\ IF db[op[m].svc].pid = NULL
         THEN OnToSpawn(m)
         ELSE TakeRow(m, "probe")
    /\ UNCHANGED <<db, proc, children, unrecorded>>

(* The recorded pid is gone: the row is cleared and the start goes on.     *)
StartClearsStalePid(m) ==
    /\ pc[m] = "probe"
    /\ ~is_pid_running(op[m].row.pid)
    /\ Write(op[m].svc, clear_pid(db[op[m].svc], "stopped", NULL))
    /\ OnToSpawn(m)
    /\ UNCHANGED <<proc, children, unrecorded>>

(* A process runs under the pid, and it is not known to be the recorded    *)
(* one: refusing to control it, an error.                                  *)
StartRefusesPid(m) ==
    /\ pc[m] = "probe"
    /\ is_pid_running(op[m].row.pid)
    /\ Return(m)
    /\ UNCHANGED <<db, proc, children, unrecorded>>

(* The recorded process runs: a forced start stops it first, another start *)
(* only asks whether it is healthy.                                        *)
StartFindsRunning(m) ==
    /\ pc[m] = "probe"
    /\ persisted_process_identity_matches(op[m].row)
    /\ \/ /\ op[m].force
          /\ op' = [op EXCEPT ![m].ret = "spawn", ![m].row = NoRow]
          /\ Goto(m, "s_read")
       \/ /\ ~op[m].force
          /\ op' = [op EXCEPT ![m].ret = "already", ![m].row = NoRow]
          /\ Goto(m, "health")
    /\ UNCHANGED <<db, proc, children, unrecorded>>

-----------------------------------------------------------------------------
(* start, from the last checks to the health wait.                         *)

(* No working directory, a published port in use, an empty command, or the *)
(* spawn itself fails.                                                     *)
PrecheckFails(m) ==
    /\ pc[m] = "precheck"
    /\ Return(m)
    /\ UNCHANGED <<db, proc, children, unrecorded>>

Spawn(m) ==
    /\ pc[m] = "precheck"
    /\ \E i \in Ids, p \in Pids :
         /\ proc[i].st = "unborn"
         /\ Free(p)
         /\ Born(i, op[m].svc, p)
         /\ op' = [op EXCEPT ![m].child = i]
    /\ Goto(m, "record")
    /\ UNCHANGED <<db, children, unrecorded>>

(* The identity of the child cannot be captured, because it has exited or  *)
(* the query keeps failing: it is killed and the start fails.              *)
IdentityFails(m) ==
    /\ pc[m] = "record"
    /\ IF Alive(op[m].child) THEN Dies(op[m].child, "killed") ELSE UNCHANGED proc
    /\ Return(m)
    /\ UNCHANGED <<db, children, unrecorded>>

(* The child is entered in the children map and recorded.  The identity    *)
(* read, the insertion and the statement are one step: a live child can    *)
(* only exit, which commutes with the two that follow.                     *)
Record(m) ==
    /\ pc[m] = "record"
    /\ Alive(op[m].child)
    /\ children' = [children EXCEPT ![m][op[m].svc] = op[m].child]
    /\ Write(op[m].svc,
             upsert(db[op[m].svc],
                    [pid |-> proc[op[m].child].pid, status |-> "starting",
                     hash |-> op[m].child, exit |-> NULL]))
    /\ op' = [op EXCEPT ![m].child = NULL]
    /\ Goto(m, "settle")
    /\ UNCHANGED <<proc, unrecorded>>

(* The statement fails after the child was entered in the map.             *)
RecordFails(m) ==
    /\ DbFails
    /\ pc[m] = "record"
    /\ Alive(op[m].child)
    /\ children' = [children EXCEPT ![m][op[m].svc] = op[m].child]
    /\ unrecorded' = unrecorded \cup {op[m].child}
    /\ Return(m)
    /\ UNCHANGED <<db, proc>>

(* 250 ms later the child has exited: completed or failed by its code.     *)
SettleExited(m) ==
    LET s == op[m].svc
        ok == proc[children[m][s]].st = "exit0"
    IN  /\ pc[m] = "settle"
        /\ ~Alive(children[m][s])
        /\ DropChild(m, s)
        /\ Write(s, clear_pid(db[s], IF ok THEN "completed" ELSE "failed",
                                    IF ok THEN "zero" ELSE "nonzero"))
        /\ Return(m)
        /\ UNCHANGED <<proc, unrecorded>>

(* The resource limits cannot be applied, for one because the child has    *)
(* exited meanwhile: it is killed, and then the row cleared, unless that   *)
(* statement fails.                                                        *)
SettleLimitsFail(m) ==
    LET s == op[m].svc
        child == children[m][s]
    IN  /\ pc[m] = "settle"
        /\ s \in Limited
        /\ IF Alive(child) THEN Dies(child, "killed") ELSE UNCHANGED proc
        /\ DropChild(m, s)
        /\ \/ Write(s, clear_pid(db[s], "failed", NULL))
           \/ DbFails /\ UNCHANGED db
        /\ Return(m)
        /\ UNCHANGED unrecorded

SettleAlive(m) ==
    /\ pc[m] = "settle"
    /\ Alive(children[m][op[m].svc])
    /\ op' = [op EXCEPT ![m].ret = "await"]
    /\ Goto(m, "health")
    /\ UNCHANGED <<db, proc, children, unrecorded>>

-----------------------------------------------------------------------------
(* health_ok, alone or inside start and wait_for_health.                   *)

(* Where an answer of health_ok leads.  In wait_for_health a process       *)
(* healthcheck must stay good for the start period, and one bad answer     *)
(* ends the wait; the other healthchecks are tried until the deadline.     *)
AfterHealth(m, ok) ==
    CASE op[m].ret = "call" -> {"idle"}
      [] op[m].ret = "already" -> {IF ok THEN "healthy" ELSE "idle"}
      [] OTHER -> IF op[m].svc \in ProcessChecked
                    THEN IF ok THEN {"healthy", "health"} ELSE {"unhealthy"}
                    ELSE IF ok THEN {"healthy"} ELSE {"health"}

Answer(m, ok) ==
    \E next \in AfterHealth(m, ok) :
        IF next = "idle" THEN Return(m) ELSE Goto(m, next) /\ Forget(m)

HealthFindsNoPid(m) ==
    /\ pc[m] = "health"
    /\ db[op[m].svc].pid = NULL
    /\ Answer(m, FALSE)
    /\ UNCHANGED <<db, proc, children, unrecorded>>

HealthFindsPid(m) ==
    /\ pc[m] = "health"
    /\ db[op[m].svc].pid # NULL
    /\ TakeRow(m, "h_probe")
    /\ UNCHANGED <<db, proc, children, unrecorded>>

HealthClearsStalePid(m) ==
    /\ pc[m] = "h_probe"
    /\ ~is_pid_running(op[m].row.pid)
    /\ Write(op[m].svc, clear_pid(db[op[m].svc], "stopped", NULL))
    /\ Answer(m, FALSE)
    /\ UNCHANGED <<proc, children, unrecorded>>

(* A process runs under the pid: the answer is the healthcheck's when it   *)
(* is the recorded one, FALSE when it is not or cannot be identified.      *)
HealthChecks(m) ==
    /\ pc[m] = "h_probe"
    /\ is_pid_running(op[m].row.pid)
    /\ \/ Answer(m, FALSE)
       \/ persisted_process_identity_matches(op[m].row) /\ Answer(m, TRUE)
    /\ UNCHANGED <<db, proc, children, unrecorded>>

AwaitDeadline(m) ==
    /\ pc[m] = "health"
    /\ op[m].ret = "await"
    /\ Goto(m, "unhealthy")
    /\ UNCHANGED <<db, proc, children, op, unrecorded>>

MarkHealthy(m) ==
    /\ pc[m] = "healthy"
    /\ Write(op[m].svc, upsert(db[op[m].svc], StatusUpdate("running")))
    /\ Return(m)
    /\ UNCHANGED <<proc, children, unrecorded>>

MarkUnhealthy(m) ==
    /\ pc[m] = "unhealthy"
    /\ Write(op[m].svc, upsert(db[op[m].svc], StatusUpdate("unhealthy")))
    /\ Return(m)
    /\ UNCHANGED <<proc, children, unrecorded>>

-----------------------------------------------------------------------------
(* stop.                                                                   *)

(* Success: back to the caller, or on to the spawn of a forced start.  An  *)
(* error ends the forced start too: Return.                                *)
StopReturns(m) ==
    IF op[m].ret = "spawn" THEN OnToSpawn(m) ELSE Return(m)

StopRead(m) ==
    /\ pc[m] = "s_read"
    /\ IF db[op[m].svc].pid = NULL
         THEN Goto(m, "s_clear") /\ UNCHANGED op
         ELSE TakeRow(m, "s_probe")
    /\ UNCHANGED <<db, proc, children, unrecorded>>

(* "not running" and "already stopped": the Child, if any, stays.          *)
StopClears(m) ==
    /\ pc[m] = "s_clear"
    /\ Write(op[m].svc, clear_pid(db[op[m].svc], "stopped", NULL))
    /\ StopReturns(m)
    /\ UNCHANGED <<proc, children, unrecorded>>

StopFindsDead(m) ==
    /\ pc[m] = "s_probe"
    /\ ~is_pid_running(op[m].row.pid)
    /\ Goto(m, "s_clear")
    /\ Forget(m)
    /\ UNCHANGED <<db, proc, children, unrecorded>>

StopRefusesPid(m) ==
    /\ pc[m] = "s_probe"
    /\ is_pid_running(op[m].row.pid)
    /\ Return(m)
    /\ UNCHANGED <<db, proc, children, unrecorded>>

(* CTRL_BREAK is sent.  Whether it arrives and what the process makes of   *)
(* it is the process's own: it may exit at any moment from now on.         *)
StopSignals(m) ==
    /\ pc[m] = "s_probe"
    /\ persisted_process_identity_matches(op[m].row)
    /\ Goto(m, "grace")
    /\ UNCHANGED <<db, proc, children, op, unrecorded>>

(* How stop decides that its process is still there: by the Child of the   *)
(* service name if this manager holds one, by the pid otherwise.           *)
SeenAlive(m) ==
    LET child == children[m][op[m].svc]
    IN  IF child # NULL THEN Alive(child) ELSE is_pid_running(op[m].row.pid)

GraceEnds(m) ==
    /\ pc[m] = "grace"
    /\ Goto(m, IF SeenAlive(m) THEN "recheck" ELSE "confirm")
    /\ UNCHANGED <<db, proc, children, op, unrecorded>>

(* Mutant: no second identity check, whatever has the pid now is killed.   *)
RecheckSkipped(m) ==
    /\ pc[m] = "recheck"
    /\ is_pid_running(op[m].row.pid)
    /\ Goto(m, "taskkill")
    /\ UNCHANGED <<db, proc, children, op, unrecorded>>

(* The identity is read again after the wait, against the row read before  *)
(* it, and a mismatch retains the state.                                   *)
RecheckMatches(m) ==
    /\ pc[m] = "recheck"
    /\ persisted_process_identity_matches(op[m].row)
    /\ Goto(m, "taskkill")
    /\ UNCHANGED <<db, proc, children, op, unrecorded>>

RecheckRefuses(m) ==
    /\ pc[m] = "recheck"
    /\ Return(m)
    /\ UNCHANGED <<db, proc, children, unrecorded>>

(* taskkill /F takes whatever runs under the pid.  It may report success   *)
(* for a process that does not go away.                                    *)
TaskKill(m) ==
    /\ pc[m] = "taskkill"
    /\ \E i \in Ids :
         /\ Alive(i) /\ proc[i].pid = op[m].row.pid
         /\ Dies(i, "killed") \/ UNCHANGED proc
    /\ Goto(m, "confirm")
    /\ UNCHANGED <<db, children, op, unrecorded>>

TaskKillFails(m) ==
    /\ pc[m] = "taskkill"
    /\ Return(m)
    /\ UNCHANGED <<db, proc, children, unrecorded>>

(* Mutant: the row is cleared once taskkill has been launched.             *)
StopAssumed(m) ==
    /\ pc[m] = "confirm"
    /\ DropChild(m, op[m].svc)
    /\ Write(op[m].svc, clear_pid(db[op[m].svc], "stopped", NULL))
    /\ StopReturns(m)
    /\ UNCHANGED <<proc, unrecorded>>

(* The five seconds after it: gone, so the Child and the pid are dropped.  *)
StopConfirms(m) ==
    /\ pc[m] = "confirm"
    /\ ~SeenAlive(m)
    /\ DropChild(m, op[m].svc)
    /\ Write(op[m].svc, clear_pid(db[op[m].svc], "stopped", NULL))
    /\ StopReturns(m)
    /\ UNCHANGED <<proc, unrecorded>>

(* Still there at the deadline: an error, and the state is retained.       *)
StopGivesUp(m) ==
    /\ pc[m] = "confirm"
    /\ SeenAlive(m)
    /\ Return(m)
    /\ UNCHANGED <<db, proc, children, unrecorded>>

-----------------------------------------------------------------------------
(* Failures, the end of a manager, and the rest of the machine.            *)

(* The statement an operation is about to issue fails (the database stays  *)
(* locked past its busy timeout): the operation ends with the error.       *)
StatementFails(m) ==
    /\ DbFails
    /\ \/ pc[m] \in {"deps", "lookup", "health", "healthy", "unhealthy",
                     "s_read", "s_clear"}
       \/ pc[m] \in {"probe", "h_probe"} /\ ~is_pid_running(op[m].row.pid)
    /\ Return(m)
    /\ UNCHANGED <<db, proc, children, unrecorded>>

(* The same after the Child was dropped from the map.                      *)
LastStatementFails(m) ==
    /\ DbFails
    /\ \/ pc[m] = "settle" /\ ~Alive(children[m][op[m].svc])
       \/ pc[m] = "confirm" /\ ~SeenAlive(m)
    /\ DropChild(m, op[m].svc)
    /\ Return(m)
    /\ UNCHANGED <<db, proc, unrecorded>>

(* The command is over, or its process is killed in the middle of an       *)
(* operation: the Child handles go with it, the services it started do not.*)
Exit(m) ==
    /\ pc[m] # "idle" \/ children[m] # NoChildren
    /\ children' = [children EXCEPT ![m] = NoChildren]
    /\ unrecorded' = unrecorded \cup
           (IF pc[m] = "record" THEN {op[m].child} ELSE {})
    /\ Return(m)
    /\ UNCHANGED <<db, proc>>

ProcessExits(i) ==
    /\ Alive(i)
    /\ \E st \in {"exit0", "exit1"} : Dies(i, st)
    /\ UNCHANGED <<db, children, pc, op, unrecorded>>

(* Some other program of the machine gets a free pid.                      *)
ForeignStarts(i, p) ==
    /\ proc[i].st = "unborn"
    /\ Free(p)
    /\ Born(i, Foreign, p)
    /\ UNCHANGED <<db, children, pc, op, unrecorded>>

-----------------------------------------------------------------------------
Start(m) == \/ wait_for_dependencies(m) \/ StartLookup(m)
            \/ StartClearsStalePid(m) \/ StartRefusesPid(m) \/ StartFindsRunning(m)
            \/ PrecheckFails(m) \/ Spawn(m)
            \/ IdentityFails(m) \/ Record(m) \/ RecordFails(m)
            \/ SettleExited(m) \/ SettleLimitsFail(m) \/ SettleAlive(m)

Health(m) == \/ HealthFindsNoPid(m) \/ HealthFindsPid(m)
             \/ HealthClearsStalePid(m) \/ HealthChecks(m)
             \/ AwaitDeadline(m) \/ MarkHealthy(m) \/ MarkUnhealthy(m)

Stop(m) == \/ StopRead(m) \/ StopClears(m)
           \/ StopFindsDead(m) \/ StopRefusesPid(m) \/ StopSignals(m)
           \/ GraceEnds(m) \/ RecheckMatches(m) \/ RecheckRefuses(m)
           \/ TaskKill(m) \/ TaskKillFails(m) \/ StopConfirms(m) \/ StopGivesUp(m)

Call(m) == \E s \in Services : \/ \E force \in BOOLEAN : CallStart(m, s, force)
                               \/ CallStop(m, s)
                               \/ CallHealthOk(m, s)

Next == \/ \E m \in Managers : \/ Call(m) \/ Start(m) \/ Health(m) \/ Stop(m)
                               \/ StatementFails(m) \/ LastStatementFails(m) \/ Exit(m)
        \/ \E i \in Ids : ProcessExits(i) \/ \E p \in Pids : ForeignStarts(i, p)

Spec == Init /\ [][Next]_vars

-----------------------------------------------------------------------------
TypeOK ==
    /\ db \in [Services -> Row]
    /\ proc \in [Ids -> Process]
    /\ children \in [Managers -> [Services -> Ids \cup {NULL}]]
    /\ pc \in [Managers -> Pcs]
    /\ op \in [Managers -> Op]
    /\ unrecorded \subseteq Ids

-----------------------------------------------------------------------------
(* What the managers promise.                                              *)

Recorded(i) ==
    LET row == db[proc[i].svc] IN row.pid = proc[i].pid /\ row.hash = i

(* No live process of a service is lost: its pid and identity are in the   *)
(* row of its service, where a later start, stop or health check finds it; *)
(* or its start is about to record it; or its manager ended, or lost the   *)
(* database, in the gap between spawn and record.  It is what a forced     *)
(* start must not break (it stops the old process before it spawns), nor a *)
(* stop (it clears the row only when the process is gone).  Holds for one  *)
(* manager at a time, however often it is ended and replaced.              *)
NoLostProcess ==
    \A i \in Ids :
        Alive(i) /\ proc[i].svc \in Services =>
            \/ Recorded(i)
            \/ \E m \in Managers : pc[m] = "record" /\ op[m].child = i
            \/ i \in unrecorded

(* What wait_for_dependencies goes by: a row it takes for ready names a    *)
(* pid, or is that of a service whose last recorded process exited zero.   *)
(* clear_pid and upsert must keep status, pid, hash and exit code in step  *)
(* over every sequence of starts, stops, failures and health checks.       *)
ReadyRowIsTruthful ==
    \A s \in Services :
        DependencyReady(db[s]) =>
            \/ db[s].pid # NULL
            \/ db[s].hash # NULL /\ proc[db[s].hash].st = "exit0"

(* The pid and the identity of a row come from one process of the service. *)
RecordedIdentity ==
    \A s \in Services :
        db[s].pid # NULL =>
            /\ db[s].hash # NULL
            /\ proc[db[s].hash].pid = db[s].pid
            /\ proc[db[s].hash].svc = s

(* taskkill and kill take down only processes of a service some manager is *)
(* working on: never another program that got the pid during the grace     *)
(* period, nor another service's process.                                  *)
KillsOnlyItsOwn ==
    [][\A i \in Ids :
         Alive(i) /\ proc'[i].st = "killed" =>
             \E m \in Managers : op[m].svc = proc[i].svc]_vars

(* stop clears the row and answers "stopped" only when the process it set  *)
(* out to stop has exited.                                                 *)
StopIsConfirmed ==
    [][\A m \in Managers : StopConfirms(m) => ~Alive(op[m].row.hash)]_vars
=============================================================================
