--------------------------- MODULE HyperVService ---------------------------
(***************************************************************************)
(* One service of the Hyper-V manager (crates/stackdeck-hyperv): starting  *)
(* it, which replaces a container of another configuration and undoes the  *)
(* replacement when the new one does not come up, and stopping it.         *)
(*                                                                         *)
(* The manager keeps nothing: what there is, it asks the guest.  Every     *)
(* command over SSH is a step.  A command that is not answered may or may  *)
(* not have been carried out; one cut off by its deadline is not carried   *)
(* out later.  The guest is reached under an address of its own that       *)
(* changes when it restarts, and nothing else answers under the old one.   *)
(*                                                                         *)
(* The service is started from the CLI, where start_service makes the      *)
(* portproxy rules, or from the Docker API, where the caller makes them    *)
(* after start_service_deferred_portproxy; portproxy is switched on.       *)
(***************************************************************************)
CONSTANTS
    Managers,    \* processes that start and stop the service
    Containers,  \* containers, by the identity of their writable layer
    Configs,     \* configurations the stack file may hold
    Probed,      \* those with a healthcheck
    Ports,       \* host ports
    PortsOf,     \* configuration -> the ports it publishes
    Addrs,       \* addresses of the guest
    NULL,
    Faults,      \* may commands outside the launch fail?
    VmMoves      \* may the guest restart, and under another address?

ASSUME HyperVAssumption ==
    /\ NULL \notin Containers \cup Configs \cup Addrs
    /\ Probed \subseteq Configs
    /\ PortsOf \in [Configs -> SUBSET Ports]
    /\ Faults \in BOOLEAN
    /\ VmMoves \in BOOLEAN

VARIABLES
    slot,      \* the container under the service's name
    backups,   \* those under rollback names
    config,    \* container -> its label stackdeck.config-hash; NULL: not yet
    running,   \* the containers that run
    vm, addr,  \* the guest: "on" or "off", and where it is
    ssh_host,  \* the address in the configuration file
    rules,     \* port -> the address its portproxy rule connects to
    pc, op,    \* where each manager is, and its locals
    proven,    \* history: the container a start succeeded with last
    smooth     \* history: no command of the operation was disturbed

guest == <<slot, backups, config, running>>
machine == <<vm, addr>>
vars == <<guest, machine, ssh_host, rules, pc, op, proven, smooth>>

Layers == backups \cup ({slot} \ {NULL})

Pcs == {"idle", "reach", "inspect", "prepare", "start", "stop", "rename", "run",
        "health", "forward", "commit", "forward_later",
        "discard", "restore", "revive", "forward_again", "remove"}

Op == [caller : {"cli", "api"},
       want : Configs \cup {NULL},
       loaded : Addrs \cup {NULL},     \* config.ssh_host of the caller's manager
       host : Addrs \cup {NULL},       \* config.ssh_host of the one that works
       exists : BOOLEAN,               \* what the inspection showed
       was_running : BOOLEAN,
       backup : Containers \cup {NULL}]

NoOp == [caller |-> "cli", want |-> NULL, loaded |-> NULL, host |-> NULL,
         exists |-> FALSE, was_running |-> FALSE, backup |-> NULL]

Init ==
    /\ slot = NULL /\ backups = {} /\ running = {}
    /\ config = [c \in Containers |-> NULL]
    /\ vm = "on" /\ addr \in Addrs /\ ssh_host = addr
    /\ rules = [p \in Ports |-> NULL]
    /\ pc = [m \in Managers |-> "idle"]
    /\ op = [m \in Managers |-> NoOp]
    /\ proven = NULL
    /\ smooth = [m \in Managers |-> TRUE]

-----------------------------------------------------------------------------
Goto(m, label) == pc' = [pc EXCEPT ![m] = label] /\ UNCHANGED op

GotoWith(m, label, locals) ==
    /\ pc' = [pc EXCEPT ![m] = label]
    /\ op' = [op EXCEPT ![m] = locals]

Return(m) == GotoWith(m, "idle", NoOp)

Disturbed(m) == smooth' = [smooth EXCEPT ![m] = FALSE]

Reachable(m) == vm = "on" /\ op[m].host = addr

(* ssh(_, true): the effect and an answer, or an error that says nothing   *)
(* about the effect.                                                       *)
Answered(m) == Reachable(m) /\ UNCHANGED smooth

Unanswered(m, effect) ==
    /\ Faults \/ ~Reachable(m)
    /\ \/ Reachable(m) /\ effect
       \/ UNCHANGED guest
    /\ Disturbed(m)

(* nerdctl commands on the service's container.                            *)
StartSlot == running' = running \cup {slot} /\ UNCHANGED <<slot, backups, config>>
StopSlot == running' = running \ {slot} /\ UNCHANGED <<slot, backups, config>>
RemoveSlot == slot' = NULL /\ running' = running \ {slot} /\ UNCHANGED <<backups, config>>
RenameSlot == backups' = backups \cup {slot} /\ slot' = NULL /\ UNCHANGED <<config, running>>
RemoveBackup(c) ==
    backups' = backups \ {c} /\ running' = running \ {c} /\ UNCHANGED <<slot, config>>
RenameBack(c) == slot' = c /\ backups' = backups \ {c} /\ UNCHANGED <<config, running>>

(* A start that ends well vouches for what is under the name.              *)
Succeed == proven' = slot

-----------------------------------------------------------------------------
(* start_service_inner.                                                    *)

CallStart(m, caller, want) ==
    /\ pc[m] = "idle"
    /\ GotoWith(m, "reach", [NoOp EXCEPT !.caller = caller, !.want = want,
                                         !.loaded = ssh_host, !.host = ssh_host])
    /\ smooth' = [smooth EXCEPT ![m] = TRUE]
    /\ UNCHANGED <<guest, machine, ssh_host, rules, proven>>

Reached(m) ==
    /\ pc[m] = "reach"
    /\ Reachable(m)
    /\ Goto(m, "inspect")
    /\ UNCHANGED <<guest, machine, ssh_host, rules, proven, smooth>>

(* The guest comes up, under whatever address, and starts again what its   *)
(* restart policies say.                                                   *)
PowerOn == /\ vm' = "on"
           /\ addr' \in Addrs
           /\ running' \in SUBSET Layers
           /\ UNCHANGED <<slot, backups, config>>

(* The guest is started if it is off.  A changed address is saved, and the *)
(* start goes on with a new manager of its own: the caller's keeps what it *)
(* loaded.                                                                 *)
Recover(m) ==
    /\ pc[m] = "reach"
    /\ ~Reachable(m)
    /\ IF vm = "off" THEN PowerOn ELSE UNCHANGED <<guest, machine>>
    /\ ssh_host' = IF addr' # op[m].host THEN addr' ELSE ssh_host
    /\ GotoWith(m, "inspect", [op[m] EXCEPT !.host = addr'])
    /\ UNCHANGED <<rules, proven, smooth>>

CannotRecover(m) ==
    /\ pc[m] = "reach"
    /\ Faults
    /\ \/ vm = "off" /\ PowerOn
       \/ UNCHANGED <<guest, machine>>
    /\ ssh_host' \in {ssh_host} \cup (IF vm' = "on" THEN {addr'} ELSE {})
    /\ Return(m)
    /\ UNCHANGED <<rules, proven, smooth>>

(* Mutant: a container is taken for current whatever its label says.       *)
InspectsIgnoringLabel(m) ==
    /\ pc[m] = "inspect"
    /\ Reachable(m)
    /\ IF slot # NULL
         THEN IF slot \in running
                THEN IF op[m].caller = "cli"
                       THEN Goto(m, "forward") /\ UNCHANGED proven
                       ELSE Goto(m, "forward_later") /\ Succeed
                ELSE Goto(m, "start") /\ UNCHANGED proven
         ELSE GotoWith(m, "prepare", op[m]) /\ UNCHANGED proven
    /\ UNCHANGED <<guest, machine, ssh_host, rules, smooth>>

(* The container found is kept when its label is that of the wanted        *)
(* configuration, unless a build is asked for.                             *)
Inspects(m) ==
    /\ pc[m] = "inspect"
    /\ Reachable(m)
    /\ \/ /\ slot # NULL /\ config[slot] = op[m].want
          /\ IF slot \in running
               THEN IF op[m].caller = "cli"
                      THEN Goto(m, "forward") /\ UNCHANGED proven
                      ELSE Goto(m, "forward_later") /\ Succeed
               ELSE Goto(m, "start") /\ UNCHANGED proven
       \/ /\ GotoWith(m, "prepare", [op[m] EXCEPT !.exists = slot # NULL,
                                                  !.was_running = slot \in running])
          /\ UNCHANGED proven
    /\ UNCHANGED <<guest, machine, ssh_host, rules, smooth>>

(* An inspection without an answer shows no container.                     *)
InspectionUnanswered(m) ==
    /\ pc[m] = "inspect"
    /\ Unanswered(m, UNCHANGED guest)
    /\ Goto(m, "prepare")
    /\ UNCHANGED <<guest, machine, ssh_host, rules, proven>>

StartExisting(m) ==
    /\ pc[m] = "start"
    /\ \/ /\ Answered(m) /\ slot # NULL /\ StartSlot
          /\ IF op[m].caller = "cli"
               THEN Goto(m, "forward") /\ UNCHANGED proven
               ELSE Goto(m, "forward_later") /\ Succeed
       \/ /\ Unanswered(m, slot # NULL /\ StartSlot)
          /\ Return(m) /\ UNCHANGED proven
       \/ /\ UNCHANGED <<guest, smooth, proven>>   \* it does not start
          /\ Return(m)
    /\ UNCHANGED <<machine, ssh_host, rules>>

(* Image, networks, volumes, resources: nothing of the service changes.    *)
Prepare(m) ==
    /\ pc[m] = "prepare"
    /\ \/ /\ Reachable(m)
          /\ Goto(m, IF op[m].exists THEN IF op[m].was_running THEN "stop" ELSE "rename"
                                     ELSE "run")
       \/ Return(m)
    /\ UNCHANGED <<guest, machine, ssh_host, rules, proven, smooth>>

StopOld(m) ==
    /\ pc[m] = "stop"
    /\ \/ Answered(m) /\ slot # NULL /\ StopSlot /\ Goto(m, "rename")
       \/ Answered(m) /\ slot = NULL /\ UNCHANGED guest /\ Return(m)
       \/ Unanswered(m, slot # NULL /\ StopSlot) /\ Return(m)
    /\ UNCHANGED <<machine, ssh_host, rules, proven>>

RenameOld(m) ==
    /\ pc[m] = "rename"
    /\ \/ /\ Answered(m) /\ slot # NULL /\ RenameSlot
          /\ GotoWith(m, "run", [op[m] EXCEPT !.backup = slot])
       \/ Answered(m) /\ slot = NULL /\ UNCHANGED guest /\ Return(m)
       \/ Unanswered(m, slot # NULL /\ RenameSlot) /\ Return(m)
    /\ UNCHANGED <<machine, ssh_host, rules, proven>>

(* Without a container to go back to, whatever was launched stays.         *)
LaunchFails(m) ==
    IF op[m].backup = NULL THEN Return(m) ELSE Goto(m, "discard")

(* nerdctl run may fail before or after it created the container, or when  *)
(* a further network is connected.                                         *)
Run(m) ==
    /\ pc[m] = "run"
    /\ \/ /\ Reachable(m) /\ slot = NULL
          /\ \E c \in Containers :
               /\ config[c] = NULL
               /\ config' = [config EXCEPT ![c] = op[m].want]
               /\ slot' = c
               /\ UNCHANGED backups
               /\ \/ running' = running \cup {c} /\ Goto(m, "health")
                  \/ running' \in {running, running \cup {c}} /\ LaunchFails(m)
       \/ UNCHANGED guest /\ LaunchFails(m)
    /\ UNCHANGED <<machine, ssh_host, rules, proven, smooth>>

(* Mutant: the backup is gone when the new container proves unhealthy.     *)
WaitForHealthCommitsEarly(m) ==
    /\ pc[m] = "health"
    /\ \/ /\ op[m].want \notin Probed \/ (Reachable(m) /\ slot \in running)
          /\ Goto(m, IF op[m].caller = "cli" THEN "forward" ELSE "commit")
          /\ proven' = IF op[m].caller = "cli" THEN proven ELSE slot
          /\ UNCHANGED guest
       \/ /\ op[m].want \in Probed /\ op[m].backup # NULL
          /\ RemoveBackup(op[m].backup)
          /\ LaunchFails(m)
          /\ UNCHANGED proven
    /\ UNCHANGED <<machine, ssh_host, rules, smooth>>

(* wait_for_native_health, wait_for_exec_health: the container may turn    *)
(* out unhealthy or not be ready in time.  No healthcheck, no wait.        *)
WaitForHealth(m) ==
    /\ pc[m] = "health"
    /\ \/ /\ op[m].want \notin Probed \/ (Reachable(m) /\ slot \in running)
          /\ Goto(m, IF op[m].caller = "cli" THEN "forward" ELSE "commit")
          /\ proven' = IF op[m].caller = "cli" THEN proven ELSE slot
       \/ /\ op[m].want \in Probed
          /\ LaunchFails(m)
          /\ UNCHANGED proven
    /\ UNCHANGED <<guest, machine, ssh_host, rules, smooth>>

(* ensure_portproxy for the wanted configuration, port by port: up to the  *)
(* one that cannot be made.                                                *)
Wanted(m) == PortsOf[op[m].want]

ForwardsTo(m, a) ==
    rules' = [p \in Ports |-> IF p \in Wanted(m) THEN a ELSE rules[p]]

ForwardsPartly(m, a) ==
    \E bad \in Wanted(m), done \in SUBSET Wanted(m) :
        rules' = [p \in Ports |-> IF p = bad THEN NULL
                                  ELSE IF p \in done THEN a ELSE rules[p]]

Forward(m) ==
    /\ pc[m] = "forward"
    /\ \/ ForwardsTo(m, op[m].host) /\ Goto(m, "commit") /\ Succeed
       \/ ForwardsPartly(m, op[m].host) /\ LaunchFails(m) /\ UNCHANGED proven
    /\ UNCHANGED <<guest, machine, ssh_host, smooth>>

(* A backup that cannot be removed is only reported.                       *)
Commit(m) ==
    /\ pc[m] = "commit"
    /\ IF op[m].backup = NULL
         THEN UNCHANGED <<guest, smooth>>
         ELSE \/ Answered(m) /\ RemoveBackup(op[m].backup)
              \/ Unanswered(m, RemoveBackup(op[m].backup))
    /\ IF op[m].caller = "cli" THEN Return(m) ELSE Goto(m, "forward_later")
    /\ UNCHANGED <<machine, ssh_host, rules, proven>>

(* The Docker API's own call, by the manager it loaded.                    *)
ForwardLater(m) ==
    /\ pc[m] = "forward_later"
    /\ ForwardsTo(m, op[m].loaded) \/ ForwardsPartly(m, op[m].loaded)
    /\ Return(m)
    /\ UNCHANGED <<guest, machine, ssh_host, proven, smooth>>

-----------------------------------------------------------------------------
(* The rollback.                                                           *)

DiscardNew(m) ==
    /\ pc[m] = "discard"
    /\ \/ Answered(m) /\ RemoveSlot
       \/ Unanswered(m, RemoveSlot)
    /\ Goto(m, "restore")
    /\ UNCHANGED <<machine, ssh_host, rules, proven>>

(* Mutant: the old container gets its name back whoever has it.            *)
RestoreOverwrites(m) ==
    /\ pc[m] = "restore"
    /\ Answered(m) /\ op[m].backup \in backups /\ RenameBack(op[m].backup)
    /\ IF op[m].was_running THEN Goto(m, "revive") ELSE Return(m)
    /\ UNCHANGED <<machine, ssh_host, rules, proven>>

RestoreOld(m) ==
    /\ pc[m] = "restore"
    /\ LET c == op[m].backup
           possible == slot = NULL /\ c \in backups
       IN  \/ Answered(m) /\ possible /\ RenameBack(c)
              /\ IF op[m].was_running THEN Goto(m, "revive") ELSE Return(m)
           \/ Answered(m) /\ ~possible /\ UNCHANGED guest /\ Return(m)
           \/ Unanswered(m, possible /\ RenameBack(c)) /\ Return(m)
    /\ UNCHANGED <<machine, ssh_host, rules, proven>>

(* Mutant: the old container is back but not started.                      *)
ReviveForgotten(m) ==
    /\ pc[m] = "revive"
    /\ IF op[m].caller = "cli" THEN Goto(m, "forward_again") ELSE Return(m)
    /\ UNCHANGED <<guest, machine, ssh_host, rules, proven, smooth>>

ReviveOld(m) ==
    /\ pc[m] = "revive"
    /\ \/ Answered(m) /\ slot # NULL /\ StartSlot
       \/ Answered(m) /\ slot = NULL /\ UNCHANGED guest
       \/ Unanswered(m, slot # NULL /\ StartSlot)
    /\ IF op[m].caller = "cli" THEN Goto(m, "forward_again") ELSE Return(m)
    /\ UNCHANGED <<machine, ssh_host, rules, proven>>

ForwardAgain(m) ==
    /\ pc[m] = "forward_again"
    /\ ForwardsTo(m, op[m].host) \/ ForwardsPartly(m, op[m].host)
    /\ Return(m)
    /\ UNCHANGED <<guest, machine, ssh_host, proven, smooth>>

-----------------------------------------------------------------------------
(* stop_service.                                                           *)

(* The rules of the configuration given go whether or not the guest is     *)
(* there.  Without it that is all and the stop has succeeded.              *)
CallStop(m, known) ==
    /\ pc[m] = "idle"
    /\ rules' = [p \in Ports |-> IF p \in PortsOf[known] THEN NULL ELSE rules[p]]
    /\ IF vm = "on" /\ ssh_host = addr
         THEN GotoWith(m, "remove", [NoOp EXCEPT !.loaded = ssh_host, !.host = ssh_host])
         ELSE UNCHANGED <<pc, op>>
    /\ smooth' = [smooth EXCEPT ![m] = TRUE]
    /\ UNCHANGED <<guest, machine, ssh_host, proven>>

RemoveContainer(m) ==
    /\ pc[m] = "remove"
    /\ \/ Answered(m) /\ RemoveSlot
       \/ Unanswered(m, RemoveSlot)
    /\ proven' = IF proven # NULL /\ proven = slot /\ slot' = NULL THEN NULL ELSE proven
    /\ Return(m)
    /\ UNCHANGED <<machine, ssh_host, rules>>

-----------------------------------------------------------------------------
(* The machines.                                                           *)

(* A command is interrupted, or the process killed.                        *)
Crash(m) ==
    /\ pc[m] # "idle"
    /\ Return(m)
    /\ UNCHANGED <<guest, machine, ssh_host, rules, proven, smooth>>

GuestStops ==
    /\ VmMoves
    /\ vm = "on"
    /\ vm' = "off"
    /\ running' = {}
    /\ smooth' = [m \in Managers |-> FALSE]
    /\ UNCHANGED <<slot, backups, config, addr, ssh_host, rules, pc, op, proven>>

GuestStarts ==
    /\ vm = "off"
    /\ PowerOn
    /\ UNCHANGED <<ssh_host, rules, pc, op, proven, smooth>>

-----------------------------------------------------------------------------
Rollback(m) == DiscardNew(m) \/ RestoreOld(m) \/ ReviveOld(m) \/ ForwardAgain(m)

Start(m) == \/ Reached(m) \/ Recover(m) \/ CannotRecover(m)
            \/ Inspects(m) \/ InspectionUnanswered(m) \/ StartExisting(m)
            \/ Prepare(m) \/ StopOld(m) \/ RenameOld(m) \/ Run(m)
            \/ WaitForHealth(m) \/ Forward(m) \/ Commit(m) \/ ForwardLater(m)

Next == \/ \E m \in Managers :
             \/ \E caller \in {"cli", "api"}, want \in Configs : CallStart(m, caller, want)
             \/ Start(m) \/ Rollback(m)
             \/ \E known \in Configs : CallStop(m, known)
             \/ RemoveContainer(m)
             \/ Crash(m)
        \/ GuestStops \/ GuestStarts

Spec == Init /\ [][Next]_vars

-----------------------------------------------------------------------------
TypeOK ==
    /\ slot \in Containers \cup {NULL}
    /\ backups \subseteq Containers
    /\ config \in [Containers -> Configs \cup {NULL}]
    /\ running \subseteq Layers
    /\ vm \in {"on", "off"}
    /\ addr \in Addrs /\ ssh_host \in Addrs
    /\ rules \in [Ports -> Addrs \cup {NULL}]
    /\ pc \in [Managers -> Pcs]
    /\ op \in [Managers -> Op]
    /\ proven \in Containers \cup {NULL}
    /\ smooth \in [Managers -> BOOLEAN]

-----------------------------------------------------------------------------
Abstract == INSTANCE ServiceLayers WITH layers <- Layers

(* Through crashes between any two commands, lost answers and restarts of  *)
(* the guest, no start deletes the container that worked last before       *)
(* another one has worked.  One manager at a time.                         *)
KeepsProvenLayer == Abstract!Spec

(* When a launch fails and nothing else goes wrong, the rollback ends with *)
(* the old container under its name, running if it ran.                    *)
FailedLaunchRestores ==
    [][\A m \in Managers :
         Rollback(m) /\ pc'[m] = "idle" /\ smooth'[m] =>
            /\ slot' = op[m].backup
            /\ op[m].was_running => slot' \in running']_vars

(* A start from the CLI succeeds only with a container of the wanted       *)
(* configuration, and rules that lead to the guest; only a guest that      *)
(* restarts meanwhile can spoil them.  One manager at a time.              *)
StartDelivers ==
    [][\A m \in Managers :
         Commit(m) /\ op[m].caller = "cli" =>
            /\ slot # NULL /\ config[slot] = op[m].want
            /\ smooth[m] => \A p \in Wanted(m) : rules[p] = addr]_vars

(* The same of the rules that the Docker API makes.                        *)
ApiRulesLeadToGuest ==
    [][\A m \in Managers :
         ForwardLater(m) /\ smooth[m] =>
            \A p \in Ports : rules'[p] # rules[p] => rules'[p] \in {addr, NULL}]_vars
=============================================================================
