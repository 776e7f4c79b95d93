------------------------------ MODULE StackRun ------------------------------
(***************************************************************************)
(* One command of stackdeck-cli on a loaded stack: `up` with the waits for *)
(* dependencies and, if asked, the supervision that never ends; `down`,    *)
(* `restart` and `watch`.                                                  *)
(*                                                                         *)
(* The services' containers and processes live on their own: they become   *)
(* healthy, exit or vanish (the program, the guest's runtime, a command in *)
(* another terminal) between any two steps of the command.  What a start   *)
(* or a stop does to one is modelled in HyperVService and ProcessManager;  *)
(* here it has an answer and leaves a status.                              *)
(***************************************************************************)
EXTENDS Integers, FiniteSets, SequencesExt

CONSTANTS
    Services,   \* names of services, those that no stack has included
    Cases,      \* stack, a function from its services to their settings;
                \* command; and status, in which the services are found
    Polls,      \* how often an unready dependency is asked again: 120 s / 2 s
    Elapsed,    \* seconds that may pass in one sleep of the supervisor
    Invalid     \* Err(..)

Conditions == {"service_started", "service_healthy", "service_completed_successfully"}
Statuses == {"missing", "running", "healthy", "exited0", "exited1"}

Dependency == [service : Services, condition : Conditions, required : BOOLEAN]

\* The settings of a ServiceConfig that these commands read.
Service ==
    [backend : {"hyperv", "native"}, probed : BOOLEAN,
     depends_on : Seq(Services), depends_on_conditions : Seq(Dependency),
     restart : STRING, max_restarts : Nat, restart_backoff_seconds : Nat]

Command ==
    [name : {"up", "down", "restart", "watch"}, targets : Seq(Services),
     force : BOOLEAN, supervise : BOOLEAN, volumes : BOOLEAN]

ASSUME StackRunAssumption ==
    /\ IsFiniteSet(Services)
    /\ \A case \in Cases :
            /\ DOMAIN case.stack \subseteq Services
            /\ \A s \in DOMAIN case.stack : case.stack[s] \in Service
            /\ case.command \in Command
            /\ case.status \in [Services -> Statuses]
    /\ Polls \in Nat
    /\ Elapsed \subseteq Nat \ {0}
    /\ Invalid \notin Seq(Services)

VARIABLES
    stack,          \* the StackConfig
    command,        \* the command and its flags
    status,         \* what really runs
    pc,             \* the point the command has reached
    order,          \* ordered_targets
    todo,           \* those of the loop at hand that are still to come
    waiting,        \* dependencies the first of todo still waits for
    polls,          \* unready answers for the first of these
    failed,         \* whether `failed` holds a message
    volumes,        \* the volumes of the stack
    attempts,       \* restart_attempts, 0 where there is none
    restart_after,  \* seconds to the deadline, 0 where there is none
    held,           \* history: conditions that held since the command began
    started,        \* history: services whose start succeeded
    stopped,        \* history: services whose stop succeeded
    streak,         \* history: restarts since the service was last seen good
    quiet           \* history: seconds since the last of them

world == <<status, held>>
loop == <<order, todo, waiting, polls>>
supervision == <<attempts, restart_after, streak, quiet>>
vars == <<stack, command, world, pc, loop, failed, volumes, supervision, started, stopped>>

-----------------------------------------------------------------------------
(* Dependencies. *)

\* The conditions of a service, or the plain list where there are none.
dependency_specs(svc) ==
    IF svc.depends_on_conditions # <<>> THEN svc.depends_on_conditions
    ELSE [i \in DOMAIN svc.depends_on |->
            [service |-> svc.depends_on[i], condition |-> "service_started", required |-> TRUE]]

Call(name, seen, visiting) == [name |-> name, seen |-> seen, visiting |-> visiting]
Calls == [name : Services, seen : Seq(Services) \cup {Invalid}, visiting : SUBSET Services]

\* Mutant: a dependency that is not required has no say in the order.
VisitRequired(st) ==
    LET visit[call \in Calls] ==
            LET Below(acc, dep) ==
                    IF acc = Invalid THEN Invalid
                    ELSE IF dep.service \in DOMAIN st
                    THEN IF dep.required
                         THEN visit[Call(dep.service, acc, call.visiting \cup {call.name})] ELSE acc
                    ELSE IF dep.required THEN Invalid ELSE acc
                deps   == IF call.name \in DOMAIN st THEN dependency_specs(st[call.name]) ELSE <<>>
                result == FoldLeft(Below, call.seen, deps)
            IN  IF call.seen = Invalid THEN Invalid
                ELSE IF call.name \in ToSet(call.seen) THEN call.seen
                ELSE IF call.name \in call.visiting \/ result = Invalid THEN Invalid
                ELSE Append(result, call.name)
    IN  visit

\* Depth first; seen holds the services already placed, in their order.
Visit(st) ==
    LET visit[call \in Calls] ==
            LET Below(acc, dep) ==
                    IF acc = Invalid THEN Invalid
                    ELSE IF dep.service \in DOMAIN st
                    THEN visit[Call(dep.service, acc, call.visiting \cup {call.name})]
                    ELSE IF dep.required THEN Invalid ELSE acc
                deps   == IF call.name \in DOMAIN st THEN dependency_specs(st[call.name]) ELSE <<>>
                result == FoldLeft(Below, call.seen, deps)
            IN  IF call.seen = Invalid THEN Invalid
                ELSE IF call.name \in ToSet(call.seen) THEN call.seen
                ELSE IF call.name \in call.visiting \/ result = Invalid THEN Invalid
                ELSE Append(result, call.name)
    IN  visit

\* ordered_targets, or the error of a cycle or of a missing service.
OrderOf(st, targets) ==
    FoldLeft(LAMBDA acc, name : Visit(st)[Call(name, acc, {})], <<>>, targets)

\* health_ok and the supervisor's test: a probe, where there is one, passed.
Good(svc, state) ==
    IF svc.probed THEN state = "healthy" ELSE state \in {"running", "healthy"}

\* What wait_for_dependency asks; the two backends differ for service_started.
Met(svc, state, condition) ==
    CASE condition = "service_healthy" -> Good(svc, state)
      [] condition = "service_completed_successfully" -> state = "exited0"
      [] OTHER -> IF svc.backend = "hyperv" THEN state \in {"running", "healthy"}
                  ELSE Good(svc, state) \/ state = "exited0"

Needs(st, s) == {dep \in ToSet(dependency_specs(st[s])) : dep.service \in DOMAIN st}

\* The conditions some service waits for that hold in a state of the world.
Holding(st, state) ==
    {<<dep.service, dep.condition>> : dep \in
        {d \in UNION {Needs(st, s) : s \in DOMAIN st} :
            Met(st[d.service], state[d.service], d.condition)}}

-----------------------------------------------------------------------------
Init ==
    /\ \E case \in Cases :
            stack = case.stack /\ command = case.command /\ status = case.status
    /\ pc = "begin"
    /\ order = <<>> /\ todo = <<>> /\ waiting = <<>> /\ polls = 0
    /\ failed = FALSE
    /\ volumes = "kept"
    /\ attempts = [s \in Services |-> 0] /\ restart_after = [s \in Services |-> 0]
    /\ held = Holding(stack, status)
    /\ started = {} /\ stopped = {}
    /\ streak = [s \in Services |-> 0] /\ quiet = [s \in Services |-> 0]

-----------------------------------------------------------------------------
(* The world. *)

Becomes(s, state) ==
    /\ status' = [status EXCEPT ![s] = state]
    /\ held' = held \cup Holding(stack, status')

Turn(s) ==
    /\ \/ status[s] = "running" /\ stack[s].probed /\ Becomes(s, "healthy")
       \/ status[s] \in {"running", "healthy"} /\ \E state \in {"exited0", "exited1"} : Becomes(s, state)
       \/ status[s] = "healthy" /\ stack[s].probed /\ Becomes(s, "running")
       \/ status[s] # "missing" /\ Becomes(s, "missing")
    /\ UNCHANGED <<stack, command, pc, loop, failed, volumes, supervision, started, stopped>>

\* What a successful start leaves: it waits for the probe; a native process
\* may have done its work already.
Started(s, state) ==
    \/ state = IF stack[s].probed THEN "healthy" ELSE "running"
    \/ stack[s].backend = "native" /\ state = "exited0"

-----------------------------------------------------------------------------
(* up *)

Current == Head(todo)
NextService(rest) == todo' = rest /\ pc' = "service" /\ waiting' = <<>> /\ polls' = 0

SortTargets ==
    /\ pc = "sort" \/ (pc = "begin" /\ command.name = "up")
    /\ LET sorted == OrderOf(stack, command.targets)
       IN  IF sorted = Invalid
           THEN pc' = "refused" /\ UNCHANGED loop
           ELSE order' = sorted /\ NextService(sorted)
    /\ UNCHANGED <<stack, command, world, failed, volumes, supervision, started, stopped>>

\* Mutant: a target the stack does not have is passed over in silence.
TakeServiceSkipsUnknown ==
    /\ pc = "service"
    /\ todo # <<>>
    /\ IF Current \in DOMAIN stack
       THEN /\ waiting' = dependency_specs(stack[Current])
            /\ pc' = "await"
            /\ UNCHANGED <<order, todo, polls, failed>>
       ELSE NextService(Tail(todo)) /\ UNCHANGED <<order, failed>>
    /\ UNCHANGED <<stack, command, world, volumes, supervision, started, stopped>>

\* The next target: unknown, or with its dependencies to wait for.
TakeService ==
    /\ pc = "service"
    /\ todo # <<>>
    /\ IF Current \in DOMAIN stack
       THEN /\ waiting' = dependency_specs(stack[Current])
            /\ pc' = "await"
            /\ UNCHANGED <<order, todo, polls, failed>>
       ELSE failed' = TRUE /\ NextService(Tail(todo)) /\ UNCHANGED order
    /\ UNCHANGED <<stack, command, world, volumes, supervision, started, stopped>>

\* A dependency that is not in the stack is passed over.
SkipAbsent ==
    /\ pc = "await"
    /\ waiting # <<>>
    /\ Head(waiting).service \notin DOMAIN stack
    /\ waiting' = Tail(waiting)
    /\ UNCHANGED <<stack, command, world, pc, order, todo, polls, failed, volumes,
                   supervision, started, stopped>>

\* Mutant: a service is started although a dependency failed, to report both.
WaitForDependencyForgives ==
    /\ pc = "await"
    /\ waiting # <<>>
    /\ LET dep == Head(waiting)
       IN  /\ dep.service \in DOMAIN stack
           /\ \/ /\ Met(stack[dep.service], status[dep.service], dep.condition)
                 /\ waiting' = Tail(waiting) /\ polls' = 0
                 /\ UNCHANGED <<pc, order, todo, failed>>
              \/ /\ polls < Polls
                 /\ polls' = polls + 1
                 /\ UNCHANGED <<pc, order, todo, waiting, failed>>
              \/ /\ polls = Polls
                 /\ waiting' = Tail(waiting) /\ polls' = 0
                 /\ failed' = dep.required
                 /\ UNCHANGED <<pc, order, todo>>
    /\ UNCHANGED <<stack, command, world, volumes, supervision, started, stopped>>

\* Mutant: the time a dependency has is counted anew.
WaitForDependencyForever ==
    /\ pc = "await"
    /\ waiting # <<>>
    /\ LET dep == Head(waiting)
       IN  /\ dep.service \in DOMAIN stack
           /\ \/ /\ Met(stack[dep.service], status[dep.service], dep.condition)
                 /\ waiting' = Tail(waiting) /\ polls' = 0
                 /\ UNCHANGED <<pc, order, todo, failed>>
              \/ /\ polls < Polls
                 /\ polls' = 1 - polls
                 /\ UNCHANGED <<pc, order, todo, waiting, failed>>
              \/ /\ polls = Polls
                 /\ IF dep.required
                    THEN failed' = TRUE /\ NextService(Tail(todo)) /\ UNCHANGED order
                    ELSE /\ waiting' = Tail(waiting) /\ polls' = 0
                         /\ UNCHANGED <<pc, order, todo, failed>>
    /\ UNCHANGED <<stack, command, world, volumes, supervision, started, stopped>>

\* One poll of wait_for_dependency; an unanswered one counts as not ready.
WaitForDependency ==
    /\ pc = "await"
    /\ waiting # <<>>
    /\ LET dep == Head(waiting)
       IN  /\ dep.service \in DOMAIN stack
           /\ \/ /\ Met(stack[dep.service], status[dep.service], dep.condition)
                 /\ waiting' = Tail(waiting) /\ polls' = 0
                 /\ UNCHANGED <<pc, order, todo, failed>>
              \/ /\ polls < Polls
                 /\ polls' = polls + 1
                 /\ UNCHANGED <<pc, order, todo, waiting, failed>>
              \/ /\ polls = Polls
                 /\ IF dep.required
                    THEN failed' = TRUE /\ NextService(Tail(todo)) /\ UNCHANGED order
                    ELSE /\ waiting' = Tail(waiting) /\ polls' = 0
                         /\ UNCHANGED <<pc, order, todo, failed>>
    /\ UNCHANGED <<stack, command, world, volumes, supervision, started, stopped>>

\* start_service, after stop_service if forced, or ProcessManager::start.
StartService ==
    /\ pc = "await"
    /\ waiting = <<>>
    /\ \/ /\ \E state \in Statuses : Started(Current, state) /\ Becomes(Current, state)
          /\ started' = started \cup {Current}
          /\ UNCHANGED failed
       \/ /\ \E state \in {status[Current], "missing", "exited1"} : Becomes(Current, state)
          /\ failed' = TRUE
          /\ UNCHANGED started
    /\ NextService(Tail(todo))
    /\ UNCHANGED <<stack, command, order, volumes, supervision, stopped>>

EndUp ==
    /\ pc = "service"
    /\ todo = <<>>
    /\ pc' = IF failed THEN "failed" ELSE IF command.supervise THEN "sleep" ELSE "done"
    /\ UNCHANGED <<stack, command, world, loop, failed, volumes, supervision, started, stopped>>

-----------------------------------------------------------------------------
(* up --supervise, and watch. *)

\* The first wait is the backoff itself, the ninth and later ones 256 times it.
Shift == <<1, 2, 4, 8, 16, 32, 64, 128, 256>>
AtMost(n, limit) == IF n < limit THEN n ELSE limit

\* Mutant: no upper limit.
RestartDelayUncapped(svc, attempt) == svc.restart_backoff_seconds * Shift[AtMost(attempt, 9)]

\* Mutant: the second attempt waits no longer than the first.
RestartDelayByRetries(svc, attempt) ==
    AtMost(svc.restart_backoff_seconds * Shift[AtMost(IF attempt = 1 THEN 1 ELSE attempt - 1, 9)], 300)

RestartDelay(svc, attempt) ==
    AtMost(svc.restart_backoff_seconds * Shift[AtMost(attempt, 9)], 300)

\* Mutant: one attempt more than allowed.
restart_is_due_once_more(s) == restart_after[s] = 0 /\ attempts[s] <= stack[s].max_restarts

\* Mutant: a deadline that has passed is never removed.
restart_is_due_once(s) == attempts[s] = 0 /\ 0 < stack[s].max_restarts

restart_is_due(s) == restart_after[s] = 0 /\ attempts[s] < stack[s].max_restarts

\* The attempt counts before anything of it has succeeded.
CountAttempt(s) ==
    /\ attempts' = [attempts EXCEPT ![s] = @ + 1]
    /\ restart_after' = [restart_after EXCEPT ![s] = RestartDelay(stack[s], attempts[s] + 1)]

\* What the n-th wait in a row has to be at least.
Owed(s) ==
    IF s \notin DOMAIN stack \/ streak[s] = 0 THEN 0
    ELSE AtMost(300, stack[s].restart_backoff_seconds * Shift[AtMost(9, streak[s])])

\* Watch goes through all services, in the order of a HashMap.
BeginWatch ==
    /\ pc = "begin"
    /\ command.name = "watch"
    /\ \E o \in {o \in [1 .. Cardinality(DOMAIN stack) -> DOMAIN stack] : IsInjective(o)} :
            order' = o /\ todo' = o
    /\ pc' = "poll"
    /\ UNCHANGED <<stack, command, world, waiting, polls, failed, volumes, supervision,
                   started, stopped>>

Sleep ==
    /\ pc = "sleep"
    /\ \E n \in Elapsed :
            /\ restart_after' = [s \in Services |->
                    IF n < restart_after[s] THEN restart_after[s] - n ELSE 0]
            /\ quiet' = [s \in Services |-> AtMost(quiet[s] + n, Owed(s))]
    /\ todo' = order
    /\ pc' = "poll"
    /\ UNCHANGED <<stack, command, world, order, waiting, polls, failed, volumes, attempts,
                   streak, started, stopped>>

SeenGood ==
    /\ pc = "poll"
    /\ todo # <<>>
    /\ Current \in DOMAIN stack /\ Good(stack[Current], status[Current])
    /\ attempts' = [attempts EXCEPT ![Current] = 0]
    /\ restart_after' = [restart_after EXCEPT ![Current] = 0]
    /\ streak' = [streak EXCEPT ![Current] = 0]
    /\ quiet' = [quiet EXCEPT ![Current] = 0]
    /\ todo' = Tail(todo)
    /\ UNCHANGED <<stack, command, world, pc, order, waiting, polls, failed, volumes,
                   started, stopped>>

\* A service that is not good, or of which nothing could be learned.
SeenBad ==
    /\ pc = "poll"
    /\ todo # <<>>
    /\ IF Current \in DOMAIN stack /\ stack[Current].restart # "no" /\ restart_is_due(Current)
       THEN CountAttempt(Current) /\ pc' = "revive" /\ UNCHANGED todo
       ELSE todo' = Tail(todo) /\ UNCHANGED <<pc, attempts, restart_after>>
    /\ UNCHANGED <<stack, command, world, order, waiting, polls, failed, volumes, streak,
                   quiet, started, stopped>>

\* stop_service, whatever its answer; the stop of a forced start.
ReviveStops ==
    /\ pc = "revive"
    /\ \E state \in {"missing", status[Current]} : Becomes(Current, state)
    /\ streak' = [streak EXCEPT ![Current] = @ + 1]
    /\ quiet' = [quiet EXCEPT ![Current] = 0]
    /\ pc' = "relaunch"
    /\ UNCHANGED <<stack, command, loop, failed, volumes, attempts, restart_after, started, stopped>>

\* start_service; its failure is only reported.
Relaunch ==
    /\ pc = "relaunch"
    /\ \E state \in Statuses :
            /\ Started(Current, state) \/ state \in {status[Current], "missing", "exited1"}
            /\ Becomes(Current, state)
    /\ todo' = Tail(todo)
    /\ pc' = "poll"
    /\ UNCHANGED <<stack, command, order, waiting, polls, failed, volumes, supervision,
                   started, stopped>>

EndRound ==
    /\ pc = "poll"
    /\ todo = <<>>
    /\ pc' = "sleep"
    /\ UNCHANGED <<stack, command, world, loop, failed, volumes, supervision, started, stopped>>

-----------------------------------------------------------------------------
(* down, and the first half of restart. *)

BeginDown ==
    /\ pc = "begin"
    /\ command.name \in {"down", "restart"}
    /\ todo' = command.targets
    /\ pc' = "stop"
    /\ UNCHANGED <<stack, command, world, order, waiting, polls, failed, volumes, supervision,
                   started, stopped>>

\* stop_service answers success for a guest that is down; both stops do for
\* what has ended already.
StopService ==
    /\ pc = "stop"
    /\ todo # <<>>
    /\ \/ /\ Current \in DOMAIN stack
          /\ \/ Becomes(Current, "missing")
             \/ /\ stack[Current].backend = "hyperv" \/ status[Current] \in {"exited0", "exited1"}
                /\ UNCHANGED world
          /\ stopped' = stopped \cup {Current}
          /\ UNCHANGED failed
       \/ /\ failed' = TRUE
          /\ UNCHANGED <<world, stopped>>
    /\ todo' = Tail(todo)
    /\ UNCHANGED <<stack, command, pc, order, waiting, polls, volumes, supervision, started>>

\* --volumes removes them whether or not every service has stopped.
EndDown ==
    /\ pc = "stop"
    /\ todo = <<>>
    /\ \/ volumes' = (IF command.volumes THEN "gone" ELSE "kept") /\ UNCHANGED failed
       \/ command.volumes /\ failed' = TRUE /\ UNCHANGED volumes
    /\ pc' = IF failed' THEN "failed" ELSE IF command.name = "restart" THEN "sort" ELSE "done"
    /\ UNCHANGED <<stack, command, world, loop, supervision, started, stopped>>

-----------------------------------------------------------------------------
Ended == {"done", "failed", "refused", "killed"}

\* Ctrl+C, or the end of a parent that waited no longer.
Killed ==
    /\ pc \notin Ended
    /\ pc' = "killed"
    /\ UNCHANGED <<stack, command, world, loop, failed, volumes, supervision, started, stopped>>

Step ==
    \/ SortTargets \/ TakeService \/ SkipAbsent \/ WaitForDependency \/ StartService \/ EndUp
    \/ BeginWatch \/ Sleep \/ SeenGood \/ SeenBad \/ ReviveStops \/ Relaunch \/ EndRound
    \/ BeginDown \/ StopService \/ EndDown

Next == Step \/ Killed \/ \E s \in DOMAIN stack : Turn(s)

Spec == Init /\ [][Next]_vars

\* A command that is not killed goes on: every call it makes has a timeout.
FairSpec == Spec /\ WF_vars(Step)

-----------------------------------------------------------------------------
(* Properties. *)

Stacks == {case.stack : case \in Cases}
Commands == {case.command : case \in Cases}

\* Types of the commands' state.
TypeOK ==
    /\ stack \in Stacks /\ command \in Commands
    /\ status \in [Services -> Statuses]
    /\ pc \in Ended \cup {"begin", "sort", "service", "await", "sleep", "poll", "revive",
                         "relaunch", "stop"}
    /\ order \in Seq(Services) /\ todo \in Seq(Services) /\ waiting \in Seq(Dependency)
    /\ polls \in 0 .. Polls
    /\ failed \in BOOLEAN /\ volumes \in {"kept", "gone"}
    /\ attempts \in [Services -> Nat] /\ restart_after \in [Services -> 0 .. 300]
    /\ held \subseteq Services \X Conditions
    /\ started \subseteq Services /\ stopped \subseteq Services
    /\ streak \in [Services -> Nat] /\ quiet \in [Services -> 0 .. 300]

Closed(st, S) == \A s \in S \cap DOMAIN st : \A dep \in Needs(st, s) : dep.service \in S

\* The targets and all they depend on.
Reachable(st, T) ==
    {s \in Services : \A S \in SUBSET Services : T \subseteq S /\ Closed(st, S) => s \in S}

\* No order exists: of some services each waits for another, or for none that is there.
Unsortable(st, T) ==
    LET all == Reachable(st, T) \cap DOMAIN st
    IN  \/ \E S \in (SUBSET all) \ {{}} : \A s \in S : \E dep \in Needs(st, s) : dep.service \in S
        \/ \E s \in all : \E dep \in ToSet(dependency_specs(st[s])) :
                dep.required /\ dep.service \notin DOMAIN st

\* `up` (cli, 1628-1671) starts the targets and what they depend on, each once
\* and after all it depends on, be it required or not; it refuses, before
\* anything is started, exactly the stacks of which that cannot be said.
OrderIsSound ==
    command.name # "watch" =>
        /\ pc = "refused" => Unsortable(stack, ToSet(command.targets))
        /\ pc \in {"service", "await"} =>
            /\ ~Unsortable(stack, ToSet(command.targets))
            /\ ToSet(order) = Reachable(stack, ToSet(command.targets))
            /\ IsInjective(order)
            /\ \A i \in DOMAIN order : order[i] \in DOMAIN stack =>
                    \A dep \in Needs(stack, order[i]) : \E j \in 1 .. i - 1 : order[j] = dep.service

\* A service is started only after the condition of each required dependency
\* of it held at some time since the command began (cli, 1673-1714, 1875-1940).
DependenciesFirst ==
    \A s \in started : \A dep \in Needs(stack, s) :
        dep.required => <<dep.service, dep.condition>> \in held

\* Success is the success of everything (cli, 1716-1737, 1471-1535, 1942-1988):
\* of `up` that every service of the order started, of `down` that every
\* target stopped and the volumes are gone if that was asked; a `restart`
\* starts nothing before all it was given has stopped.
SuccessIsComplete ==
    /\ command.name \in {"up", "restart"} /\ pc \in {"done", "sleep", "poll", "revive", "relaunch"}
        => ToSet(order) \subseteq started
    /\ command.name = "down" /\ pc = "done"
        => ToSet(command.targets) \subseteq stopped /\ (command.volumes => volumes = "gone")
    /\ command.name = "restart" /\ started # {} => ToSet(command.targets) \subseteq stopped

\* Between two polls that find it good, a service is restarted at most
\* max_restarts times (cli, 1806-1833), and never if its policy is "no".
RestartsAreBounded ==
    \A s \in DOMAIN stack :
        streak[s] <= IF stack[s].restart = "no" THEN 0 ELSE stack[s].max_restarts

\* The restarts in a row of a service are apart by its backoff, doubled each
\* time up to 256 times it, or by five minutes where that is less.
RestartsAreSpaced == [][\A s \in DOMAIN stack : streak'[s] > streak[s] => quiet[s] >= Owed(s)]_vars

\* A command ends, if it is not to supervise; `up` reaches its supervision
\* whatever the services do (every dependency is given up in the end).
CommandEnds == <>(pc \in Ended \cup {"sleep"})

\* A service that is not good and has attempts left, in a command that supervises it.
Neglected(s) ==
    /\ pc \in {"sleep", "poll", "revive", "relaunch"}
    /\ s \in ToSet(order) \cap DOMAIN stack
    /\ stack[s].restart # "no" /\ ~Good(stack[s], status[s])
    /\ attempts[s] < stack[s].max_restarts

\* A supervised service that is not good is restarted until it has been good
\* again, or its attempts are used up (cli, 1738-1833, 2241-2303).
BadIsRestarted == \A s \in Services : []<>(~Neglected(s))
=============================================================================
