----------------------------- MODULE DockerApi -----------------------------
(***************************************************************************)
(* The Docker API shim (crates/stackdeck-api): container records in a JSON *)
(* file, the sockets that reserve their host ports, and the calls to the   *)
(* guest and to netsh that make records and containers agree.              *)
(*                                                                         *)
(* Every request runs on a thread of its own.  A request is cut at every   *)
(* access to the file (locked, or an unlocked read), to the reservations   *)
(* and to the guest; what the code does under the state lock is one step.  *)
(* A request names a container by its name; ids and prefixes of ids lead   *)
(* to the same record, and an ambiguous one changes nothing.               *)
(*                                                                         *)
(* No other program takes the host ports considered, and deleting a        *)
(* portproxy rule does not fail.  A container found under the name of a    *)
(* record has the configuration of that record; replacing one that has not *)
(* is the Hyper-V manager's business.                                      *)
(***************************************************************************)
CONSTANTS
    Requests,   \* requests the server works on at once
    Ids,        \* container ids the clock yields (new_id)
    Names,      \* container names; the runtime name is a function of it
    Ports,      \* host ports
    NULL,
    VmStops,    \* may the guest go down?
    Faults      \* may commands, their answers and file writes fail?

ContainerMeta == [name : Names, ports : SUBSET Ports,
                  started : BOOLEAN,   \* runtime_id.is_some()
                  pending : BOOLEAN]   \* runtime_pending

ASSUME DockerApiAssumption ==
    /\ VmStops \in BOOLEAN
    /\ Faults \in BOOLEAN
    /\ NULL \notin Ids \cup Names \cup ContainerMeta

VARIABLES
    records,  \* docker_api_containers.json
    issued,   \* ids given out: the clock does not go back
    held,     \* PORT_RESERVATIONS: the ports bound for a container id
    guest,    \* the container under the runtime name of a name
    vm,       \* the guest: "on" or "off"
    proxy,    \* the ports with a portproxy rule
    server,   \* "up" or "down"
    pc, op    \* where each request is, and its locals

vars == <<records, issued, held, guest, vm, proxy, server, pc, op>>
outside == <<guest, vm, proxy>>
inside == <<records, issued, held>>

Pcs == {"idle", "intent", "inspect", "launch", "release", "forward", "identify",
        "persist", "undo_forward", "undo_identify", "undo_persist",
        "unforward", "stop", "forget_unstarted", "stop_service", "verify", "forget",
        "compare", "forget_phantoms"}

Op == [name : Names \cup {NULL}, id : Ids \cup {NULL}, ports : SUBSET Ports,
       existed : BOOLEAN,     \* existed_before
       running : BOOLEAN,     \* was_running
       answered : BOOLEAN,    \* remove: the guest answered `verify`
       seen : SUBSET Names, phantoms : SUBSET Ids]

NoOp == [name |-> NULL, id |-> NULL, ports |-> {}, existed |-> FALSE,
         running |-> FALSE, answered |-> FALSE, seen |-> {}, phantoms |-> {}]

Recorded == {i \in Ids : records[i] # NULL}

state_match(n) == {i \in Recorded : records[i].name = n}

Init ==
    /\ records = [i \in Ids |-> NULL]
    /\ issued = {}
    /\ held = [i \in Ids |-> {}]
    /\ guest = [n \in Names |-> "none"]
    /\ vm = "on"
    /\ proxy = {}
    /\ server = "down"
    /\ pc = [r \in Requests |-> "idle"]
    /\ op = [r \in Requests |-> NoOp]

-----------------------------------------------------------------------------
(* Steps of a request.                                                     *)

At(r, label) == server = "up" /\ pc[r] = label

Goto(r, label) == pc' = [pc EXCEPT ![r] = label]

Return(r) == Goto(r, "idle") /\ op' = [op EXCEPT ![r] = NoOp]

(* Mutant: the pair of id and record unpacked in the wrong order.          *)
TakeSwapsKeys(r, n, i, label) ==
    /\ op' = [op EXCEPT ![r] = [NoOp EXCEPT !.name = i, !.id = n,
                                            !.ports = records[i].ports]]
    /\ Goto(r, label)

(* A request that found this record goes on with the copy it read.         *)
Take(r, n, i, label) ==
    /\ op' = [op EXCEPT ![r] = [NoOp EXCEPT !.name = n, !.id = i,
                                            !.ports = records[i].ports]]
    /\ Goto(r, label)

(* No record has the name: it is passed on to the runtime.                 *)
TakeRaw(r, n, label) ==
    /\ op' = [op EXCEPT ![r] = [NoOp EXCEPT !.name = n]]
    /\ Goto(r, label)

Write(i, meta) == records' = [records EXCEPT ![i] = meta]

(* TcpListener::bind: nobody listens, neither a reservation nor a rule.    *)
Bindable(p, rules) == p \notin rules /\ \A i \in Ids : p \notin held[i]

release_port_reservations(i) == held' = [held EXCEPT ![i] = {}]

(* Best effort: all ports of the record are bound again, or none.          *)
reserve_meta_ports(r) ==
    held' = IF \A p \in op[r].ports : Bindable(p, proxy')
              THEN [held EXCEPT ![op[r].id] = op[r].ports]
              ELSE held

(* A nerdctl command whose answer nobody looks at.                         *)
MayReach(n, st) ==
    guest' \in (IF vm = "on" THEN {[guest EXCEPT ![n] = st]} ELSE {guest})
                  \cup (IF Faults THEN {guest} ELSE {})

-----------------------------------------------------------------------------
(* Mutant: a port that can be bound is taken for free.                     *)
create_container_trusts_bind(r, n, ports) ==
    /\ At(r, "idle")
    /\ state_match(n) = {}
    /\ \A p \in ports : Bindable(p, proxy)
    /\ \E id \in Ids \ issued :
         /\ issued' = issued \cup {id}
         /\ Write(id, [name |-> n, ports |-> ports, started |-> FALSE, pending |-> FALSE])
         /\ held' = [held EXCEPT ![id] = ports]
    /\ UNCHANGED <<outside, server, pc, op>>

(* create_container: the ports are bound, the name and the ports checked   *)
(* against every record, the record written and the sockets kept, all      *)
(* under the lock.  An automatic port is some port that passes.            *)
create_container(r, n, ports) ==
    /\ At(r, "idle")
    /\ state_match(n) = {}
    /\ \A p \in ports : Bindable(p, proxy) /\ \A i \in Recorded : p \notin records[i].ports
    /\ \E id \in Ids \ issued :
         /\ issued' = issued \cup {id}
         /\ Write(id, [name |-> n, ports |-> ports, started |-> FALSE, pending |-> FALSE])
         /\ held' = [held EXCEPT ![id] = ports]
    /\ UNCHANGED <<outside, server, pc, op>>

-----------------------------------------------------------------------------
(* start_container.                                                        *)

CallStart(r, n) ==
    /\ At(r, "idle")
    /\ \E i \in state_match(n) : Take(r, n, i, "intent")
    /\ UNCHANGED <<inside, outside, server>>

StartRaw(r, n) ==
    /\ At(r, "idle")
    /\ state_match(n) = {}
    /\ vm = "on" /\ guest[n] # "none"
    /\ guest' = [guest EXCEPT ![n] = "running"]
    /\ UNCHANGED <<inside, vm, proxy, server, pc, op>>

(* Mutant: the container is launched before the intent is committed.       *)
StartIntentForgotten(r) ==
    /\ At(r, "intent")
    /\ op[r].id \in Recorded
    /\ Goto(r, "inspect")
    /\ UNCHANGED <<inside, outside, server, op>>

StartIntent(r) ==
    /\ At(r, "intent")
    /\ IF op[r].id \in Recorded
         THEN /\ Write(op[r].id, [records[op[r].id] EXCEPT !.pending = TRUE])
              /\ Goto(r, "inspect")
              /\ UNCHANGED op
         ELSE Return(r) /\ UNCHANGED records
    /\ UNCHANGED <<issued, held, outside, server>>

(* No answer is taken for "no such container".                             *)
StartInspects(r) ==
    /\ At(r, "inspect")
    /\ LET n == op[r].name IN
         \/ /\ vm = "on"
            /\ op' = [op EXCEPT ![r].existed = guest[n] # "none",
                                ![r].running = guest[n] = "running"]
         \/ /\ vm = "off" \/ Faults
            /\ UNCHANGED op
    /\ Goto(r, "launch")
    /\ UNCHANGED <<inside, outside, server>>

(* start_service_deferred_portproxy brings the guest up if it is down and  *)
(* runs, starts or finds the container.  It may fail with nothing done, or *)
(* with only the answer lost: the record stays pending.                    *)
StartLaunches(r) ==
    LET n == op[r].name
        launched == [guest EXCEPT ![n] = "running"]
    IN  /\ At(r, "launch")
        /\ \/ /\ vm' = "on" /\ guest' = launched
              /\ Goto(r, "release") /\ UNCHANGED op
           \/ /\ Faults
              /\ \/ vm' = "on" /\ guest' \in {guest, launched}
                 \/ UNCHANGED <<vm, guest>>
              /\ Return(r)
        /\ UNCHANGED <<inside, proxy, server>>

(* Mutant: the sockets stay bound while the rules are made.                *)
StartKeepsReservations(r) ==
    /\ At(r, "release")
    /\ Goto(r, "forward")
    /\ UNCHANGED <<inside, outside, server, op>>

StartReleases(r) ==
    /\ At(r, "release")
    /\ release_port_reservations(op[r].id)
    /\ Goto(r, "forward")
    /\ UNCHANGED <<records, issued, outside, server, op>>

(* ensure_portproxy replaces the rules one by one.  At the port where it   *)
(* fails the old rule is gone and there is no new one.                     *)
StartForwards(r) ==
    /\ At(r, "forward")
    /\ \/ proxy' = proxy \cup op[r].ports /\ Goto(r, "identify")
       \/ /\ Faults
          /\ \E p \in op[r].ports, done \in SUBSET (op[r].ports) :
               p \notin done /\ proxy' = (proxy \ {p}) \cup done
          /\ Goto(r, "undo_forward")
    /\ UNCHANGED <<inside, guest, vm, server, op>>

(* The id of the container is asked for, at the address the manager loaded *)
(* when the request began: a guest that has been restarted may no longer   *)
(* be there.  An error ends the request, with the record pending; an empty *)
(* answer is undone.                                                       *)
StartIdentifies(r) ==
    /\ At(r, "identify")
    /\ \/ /\ vm = "on" /\ guest[op[r].name] # "none"
          /\ Goto(r, "persist") /\ UNCHANGED op
       \/ /\ vm = "off" \/ guest[op[r].name] = "none" \/ Faults \/ VmStops
          /\ Return(r)
       \/ /\ Faults
          /\ Goto(r, "undo_identify") /\ UNCHANGED op
    /\ UNCHANGED <<inside, outside, server>>

StartPersists(r) ==
    /\ At(r, "persist")
    /\ op[r].id \in Recorded
    /\ Write(op[r].id, [records[op[r].id] EXCEPT !.started = TRUE, !.pending = FALSE])
    /\ Return(r)
    /\ UNCHANGED <<issued, held, outside, server>>

(* The record disappeared meanwhile, or cannot be written.                 *)
StartCannotPersist(r) ==
    /\ At(r, "persist")
    /\ op[r].id \notin Recorded \/ Faults
    /\ Goto(r, "undo_persist")
    /\ UNCHANGED <<inside, outside, server, op>>

(* A container that is believed not to have been there: stop_service takes *)
(* the rules and the container away, and the ports are bound again.        *)
UndoNew(r) ==
    /\ pc[r] \in {"undo_forward", "undo_identify", "undo_persist"} /\ server = "up"
    /\ ~op[r].existed
    /\ proxy' = proxy \ op[r].ports
    /\ MayReach(op[r].name, "none")
    /\ reserve_meta_ports(r)
    /\ Return(r)
    /\ UNCHANGED <<records, issued, vm, server>>

(* The rules failed for a container that was there: it is stopped if it    *)
(* was stopped, the rules made so far stay, and the ports are bound again. *)
UndoForward(r) ==
    /\ At(r, "undo_forward")
    /\ op[r].existed
    /\ IF op[r].running THEN UNCHANGED guest
         ELSE \/ guest[op[r].name] = "none" /\ UNCHANGED guest
              \/ guest[op[r].name] # "none" /\ MayReach(op[r].name, "stopped")
    /\ UNCHANGED proxy
    /\ reserve_meta_ports(r)
    /\ Return(r)
    /\ UNCHANGED <<records, issued, vm, server>>

(* The record was gone for a container that was there but stopped.         *)
UndoPersist(r) ==
    /\ At(r, "undo_persist")
    /\ op[r].existed /\ ~op[r].running
    /\ \/ guest[op[r].name] = "none" /\ UNCHANGED guest
       \/ guest[op[r].name] # "none" /\ MayReach(op[r].name, "stopped")
    /\ proxy' = proxy \ op[r].ports
    /\ reserve_meta_ports(r)
    /\ Return(r)
    /\ UNCHANGED <<records, issued, vm, server>>

UndoNothing(r) ==
    /\ \/ At(r, "undo_identify")
       \/ At(r, "undo_persist") /\ op[r].running
    /\ op[r].existed
    /\ Return(r)
    /\ UNCHANGED <<inside, outside, server>>

-----------------------------------------------------------------------------
(* stop_container: first the rules, then the container.                    *)

CallStop(r, n) ==
    /\ At(r, "idle")
    /\ \/ \E i \in state_match(n) : Take(r, n, i, "unforward")
       \/ state_match(n) = {} /\ TakeRaw(r, n, "stop")
    /\ UNCHANGED <<inside, outside, server>>

StopUnforwards(r) ==
    /\ At(r, "unforward")
    /\ proxy' = proxy \ op[r].ports
    /\ Goto(r, "stop")
    /\ UNCHANGED <<inside, guest, vm, server, op>>

StopStops(r) ==
    /\ At(r, "stop")
    /\ IF vm = "on" /\ guest[op[r].name] # "none"
         THEN MayReach(op[r].name, "stopped")
         ELSE UNCHANGED guest
    /\ Return(r)
    /\ UNCHANGED <<inside, vm, proxy, server>>

-----------------------------------------------------------------------------
(* remove_container.                                                       *)

(* What the record says decides, as it was read before any lock is taken.  *)
CallRemove(r, n) ==
    /\ At(r, "idle")
    /\ \/ \E i \in state_match(n) :
            Take(r, n, i, IF ~records[i].started /\ ~records[i].pending
                            THEN "forget_unstarted" ELSE "stop_service")
       \/ state_match(n) = {} /\ TakeRaw(r, n, "stop_service")
    /\ UNCHANGED <<inside, outside, server>>

RemoveUnstarted(r) ==
    /\ At(r, "forget_unstarted")
    /\ Write(op[r].id, NULL)
    /\ release_port_reservations(op[r].id)
    /\ Return(r)
    /\ UNCHANGED <<issued, outside, server>>

(* Mutant: the container is removed and its rules stay.                    *)
RemoveKeepsRules(r) ==
    /\ At(r, "stop_service")
    /\ vm = "on"
    /\ guest' = [guest EXCEPT ![op[r].name] = "none"]
    /\ Goto(r, "verify")
    /\ UNCHANGED <<inside, vm, proxy, server, op>>

(* stop_service: the rules go first.  If then its probe of the guest fails *)
(* (ssh_probe: the guest is down, or does not answer in time) nothing else *)
(* goes, and that is success; a name without a record has no probe, and    *)
(* its bare `rm -f` fails.                                                 *)
RemoveStops(r) ==
    LET gone == [guest EXCEPT ![op[r].name] = "none"] IN
    /\ At(r, "stop_service")
    /\ proxy' = proxy \ op[r].ports
    /\ \/ vm = "on" /\ guest' = gone /\ Goto(r, "verify") /\ UNCHANGED op
       \/ /\ vm = "off" \/ Faults
          /\ op[r].id # NULL
          /\ Goto(r, "verify") /\ UNCHANGED <<guest, op>>
       \/ vm = "off" /\ op[r].id = NULL /\ UNCHANGED guest /\ Return(r)
       \/ vm = "on" /\ Faults /\ guest' \in {guest, gone} /\ Return(r)
    /\ UNCHANGED <<inside, vm, server>>

(* Only an answer that names the container stops the removal: a connection *)
(* that gives none passes for STACKDECK_REMOVED.  The command may also     *)
(* time out, which ends the request.                                       *)
RemoveVerifies(r) ==
    /\ At(r, "verify")
    /\ \/ /\ Faults \/ (vm = "on" /\ guest[op[r].name] # "none")
          /\ Return(r)
       \/ /\ vm = "on" /\ guest[op[r].name] = "none"
          /\ op' = [op EXCEPT ![r].answered = TRUE]
          /\ Goto(r, "forget")
       \/ /\ vm = "off" \/ Faults
          /\ Goto(r, "forget") /\ UNCHANGED op
    /\ UNCHANGED <<inside, outside, server>>

(* Every record under the runtime name goes, the ports of the one that was *)
(* read are released.                                                      *)
RemoveForgets(r) ==
    /\ At(r, "forget")
    /\ records' = [i \in Ids |-> IF i \in state_match(op[r].name) THEN NULL ELSE records[i]]
    /\ IF op[r].id = NULL THEN UNCHANGED held ELSE release_port_reservations(op[r].id)
    /\ Return(r)
    /\ UNCHANGED <<issued, outside, server>>

-----------------------------------------------------------------------------
(* list_containers with all=1, which also drops phantoms: records of       *)
(* containers that ran and that the runtime no longer knows.               *)

CallList(r) ==
    /\ At(r, "idle")
    /\ vm = "on"
    /\ op' = [op EXCEPT ![r] = [NoOp EXCEPT !.seen = {n \in Names : guest[n] # "none"}]]
    /\ Goto(r, "compare")
    /\ UNCHANGED <<inside, outside, server>>

(* The records are read again and the unseen ones looked up one by one.    *)
ListCompares(r) ==
    LET phantoms == {i \in Recorded : /\ records[i].name \notin op[r].seen
                                      /\ guest[records[i].name] = "none"
                                      /\ records[i].started}
    IN  /\ At(r, "compare")
        /\ \/ /\ vm = "on" /\ phantoms # {}
              /\ op' = [op EXCEPT ![r] = [NoOp EXCEPT !.phantoms = phantoms]]
              /\ Goto(r, "forget_phantoms")
           \/ /\ vm = "off" \/ phantoms = {} \/ Faults
              /\ Return(r)
        /\ UNCHANGED <<inside, outside, server>>

ListForgets(r) ==
    /\ At(r, "forget_phantoms")
    /\ records' = [i \in Ids |-> IF i \in op[r].phantoms THEN NULL ELSE records[i]]
    /\ Return(r)
    /\ UNCHANGED <<issued, held, outside, server>>

(* The lock cannot be had or the file not be written: the request ends.    *)
StateWriteFails(r) ==
    /\ Faults
    /\ server = "up"
    /\ pc[r] \in {"intent", "forget_unstarted", "forget", "forget_phantoms"}
    /\ Return(r)
    /\ UNCHANGED <<inside, outside, server>>

-----------------------------------------------------------------------------
(* The server and the machines.                                            *)

(* The sockets are the server's own; the rules and the guest stay.         *)
Crash ==
    /\ server = "up"
    /\ server' = "down"
    /\ held' = [i \in Ids |-> {}]
    /\ pc' = [r \in Requests |-> "idle"]
    /\ op' = [r \in Requests |-> NoOp]
    /\ UNCHANGED <<records, issued, outside>>

Unstarted == {i \in Recorded : ~records[i].started}

CanRestore == \A i \in Unstarted : records[i].ports \cap proxy = {}

(* serve comes up only when restore_port_reservations could bind the ports *)
(* of every record without a runtime id.                                   *)
Serve ==
    /\ server = "down"
    /\ CanRestore
    /\ held' = [i \in Ids |-> IF i \in Unstarted THEN records[i].ports ELSE {}]
    /\ server' = "up"
    /\ UNCHANGED <<records, issued, outside, pc, op>>

ServeFails ==
    /\ server = "down"
    /\ ~CanRestore
    /\ UNCHANGED vars

(* The containers are started with the restart policy "no".                *)
VmGoesDown ==
    /\ VmStops
    /\ vm' = "off"
    /\ guest' = [n \in Names |-> IF guest[n] = "running" THEN "stopped" ELSE guest[n]]
    /\ UNCHANGED <<inside, proxy, server, pc, op>>

VmComesUp ==
    /\ vm = "off"
    /\ vm' = "on"
    /\ UNCHANGED <<inside, guest, proxy, server, pc, op>>

-----------------------------------------------------------------------------
Start(r) == \/ StartIntent(r) \/ StartInspects(r) \/ StartLaunches(r)
            \/ StartReleases(r) \/ StartForwards(r) \/ StartIdentifies(r)
            \/ StartPersists(r) \/ StartCannotPersist(r)
            \/ UndoNew(r) \/ UndoForward(r) \/ UndoPersist(r) \/ UndoNothing(r)

Remove(r) == \/ RemoveUnstarted(r) \/ RemoveStops(r)
             \/ RemoveVerifies(r) \/ RemoveForgets(r)

Call(r) == \/ CallList(r)
           \/ \E n \in Names : \/ CallStart(r, n) \/ StartRaw(r, n)
                              \/ CallStop(r, n) \/ CallRemove(r, n)
                              \/ \E ports \in SUBSET Ports : create_container(r, n, ports)

Next == \/ \E r \in Requests : \/ Call(r) \/ Start(r) \/ Remove(r)
                               \/ StopUnforwards(r) \/ StopStops(r)
                               \/ ListCompares(r) \/ ListForgets(r)
                               \/ StateWriteFails(r)
        \/ Crash \/ Serve \/ ServeFails \/ VmGoesDown \/ VmComesUp

Spec == Init /\ [][Next]_vars

-----------------------------------------------------------------------------
TypeOK ==
    /\ records \in [Ids -> ContainerMeta \cup {NULL}]
    /\ issued \subseteq Ids
    /\ held \in [Ids -> SUBSET Ports]
    /\ guest \in [Names -> {"none", "stopped", "running"}]
    /\ vm \in {"on", "off"}
    /\ proxy \subseteq Ports
    /\ server \in {"up", "down"}
    /\ pc \in [Requests -> Pcs]
    /\ op \in [Requests -> Op]

-----------------------------------------------------------------------------
(* What the shim promises.                                                 *)

Untracked(n) ==
    guest[n] # "none" /\ \A i \in state_match(n) : ~records[i].started /\ ~records[i].pending

(* Whatever crashes, fails or is answered wrongly in between, a container  *)
(* of the guest stays named by a record that says that it runs or may run, *)
(* so that remove looks for it: no start makes one whose record knows      *)
(* nothing of it, no removal that the guest answered and no list drops the *)
(* record of one that is there.  Only a removal whose verification got no  *)
(* answer does.  One request at a time.                                    *)
OnlyUnansweredRemovalUntracks ==
    [][\A n \in Names : ~Untracked(n) /\ Untracked(n)' =>
          \E r \in Requests : pc[r] = "forget" /\ op[r].name = n /\ ~op[r].answered]_vars

(* A host port belongs to one record, and one that has never been started  *)
(* has its ports bound as long as the server is up, over crashes of the    *)
(* server, failed starts and removals of other records.                    *)
PortsAreReserved ==
    \A i \in Recorded :
        /\ \A j \in Recorded \ {i} : records[i].ports \cap records[j].ports = {}
        /\ server = "up" /\ ~records[i].started /\ ~records[i].pending =>
              held[i] = records[i].ports

(* Every portproxy rule is on a port of a record, so that removing the     *)
(* record takes it away.  One request at a time.                           *)
RulesAreOwned == \A p \in proxy : \E i \in Recorded : p \in records[i].ports

(* A host port has one listener: the socket of one reservation or the      *)
(* portproxy rule, whatever is undone after a start that failed half way.  *)
(* One request at a time.                                                  *)
OneListener ==
    \A i \in Ids : \A p \in held[i] :
        p \notin proxy /\ \A j \in Ids \ {i} : p \notin held[j]

(* After a crash the server can come up again.                             *)
ServerComesUp == server = "down" => CanRestore
=============================================================================
