# A verification project for StackDeck

StackDeck runs multi-service stacks on Windows: services either as native
processes or as containers in a Hyper-V guest, driven from a CLI, a desktop
application and a shim of the Docker API.  This directory holds TLA+ models of
the parts of it where order, failure and concurrency decide whether it is right,
the TLC configurations that check them on small instances, and proofs for TLAPS.
Paths below are relative to `src/`; crate names are short for
`crates/stackdeck-<name>/src`.

## 1. The system

| Component | State it keeps | Operations | Talks to |
|---|---|---|---|
| **State database** (`state`) | SQLite: a row per service of a project: pid, status, pid identity hash, last exit code | `get`, `upsert` (merges given fields), `clear_pid` | read and written by every process manager |
| **Process manager** (`process`) | `children`: the `Child` handle per service name, in memory | `start(name, force)`, `stop`, `health_ok`, `wait_for_health`, `wait_for_dependencies` | the database; spawn, `taskkill`, identity queries of Windows |
| **Stack runner and supervisor** (`cli/src/main.rs`) | visit order, `restart_attempts`, `restart_after` | `run_stack_up`, `run_stack_down`, `watch`, `restart_is_due`, `wait_for_dependency` | process manager and Hyper-V manager, by call |
| **Docker API shim** (`api`) | a JSON file of container records under a lock; in memory, bound sockets that reserve host ports | `create`, `start`, `stop`, `remove`, `list`, `inspect`, restore at start-up | Hyper-V manager; guest runtime over SSH |
| **Hyper-V service manager** (`hyperv`) | none of its own: containers of the guest, portproxy rules of the host | `start_service` (replacement with rollback), `stop_service`, `ensure_portproxy`, `remove_portproxy`, `repair` | `nerdctl` over SSH, `netsh` |
| **VM provisioning and configuration** (`hyperv`, `cli/src/main.rs`) | a JSON configuration; a registry of projects; the VM, its images and its disk | `download_image`, `create_cloud_vm`, `init_vm`, `discover_ip`, `wait_for_ssh`, `load_config`, `save_config`, mirrors | Hyper-V, SSH |
| **Atomic files and locks** (`types`) | temporary and lock files | `atomic_write`, `FileLock::exclusive` | every JSON store |
| **Stack files** (`compose`, `cli/src/main.rs`) | none | a Compose project or a `stack.json` to the services of a stack, and its validation | files, environment |
| **Desktop** (`desktop/stackdeck`) | `RUNTIME_SETUP_LOCK`, the last answer shown | runs CLI commands with a timeout, provisions the runtime | the CLI as a child process |
| **Scripts** (`scripts/windows`) | none | packaging, installation, validation | the operating system |

### What is hard in it

*Native services.* A service is identified between two commands by a pid in a
database; the pid can be gone or belong to somebody else by the time it is used.
Several managers work on one database without a lock: an `up --supervise` runs
for days while `restart` and `down` are given in another terminal.  A manager can
be killed between any two of its steps (the desktop does it on a timeout) and its
children live on.

*Restart policy.* Attempts, backoff and the reset by a good poll interact with
the poll interval and with the time a restart itself takes.

*Docker API.* `start` alternates between the locked file and long calls to the
guest, on a record it read before either; other requests come in between; the
server may end anywhere and must come up again from the file.

*Hyper-V services.* A replacement stops and renames the old container before the
new one runs, and undoes that when anything later fails.

*Stack files.* Every Compose field has several spellings, and what a later
command does (which volumes `down` removes, which name a replica has) is decided
by names computed earlier, elsewhere.

*Provisioning.* A machine is made in a dozen steps of minutes each, over files
that a killed attempt leaves half written; the guest moves to another address
while it is waited for; configuration and registry are replaced as whole files
by several processes.

### What makes each component right

- *State database, process manager*: no live process of a service is lost; only
  processes of the service at work are killed; the pid and the identity of a row
  belong together; `stopped` is said when the process is gone; a row that makes a
  dependant start is truthful.
- *Stack runner*: dependencies before dependants, cycles refused; a required
  dependency that never becomes ready stops its dependants, an optional one does
  not.
- *Supervisor*: never more than `max_restarts` restarts between two good polls,
  never two within the backoff; a service that stays bad is restarted.
- *Docker API*: no container loses the record that names it, unless a removal got
  no answer; a port is reserved by
  at most one record and by every record that has not started; rules belong to
  records; the server comes up again after a crash.
- *Hyper-V services*: after any outcome of a replacement there is either the new
  container, or the old one, under the service's name.
- *Stack files*: two spellings of one thing mean the same; what is published,
  mounted and removed is what the file says; replicas are distinct.
- *Provisioning*: a machine has a whole and verified disk; a command loses
  nothing an earlier one finished, and comes to an end.
- *Files*: a reader sees the old file or the new one; no update under a lock is
  lost.

The `hazards` of `PROJECT.json` list where in the code each of these can go wrong.

## 2. Plan

| # | Module | Models | State |
|---|---|---|---|
| 1 | `StateDb` | rows and the two statements that write them | done |
| 2 | `ProcessManager` | managers, database, processes and pids; extends 1 | done |
| 3 | `ProcessManagerProofs` | theorems about 2 | done |
| 4 | `DockerApi` | records, reservations, guest runtime, portproxy, requests in flight, crash and restart of the server | done |
| 4a | `DockerApiProofs` | theorems about 4, for any requests and for one at a time | done |
| 5 | `ServiceLayers`, `HyperVService` | what a replacement promises; starting with replacement and rollback, stopping, a guest that moves | done |
| 5a | `HyperVServiceProofs` | theorems about 5 | done |
| 6 | `ComposeFile`, `StackFile` | normalisation of a Compose project; from a file to a validated stack, and what other commands make of it; the second extends the first | done |
| 6a | `StackFileProofs` | theorems about 6, for files of any size | done |
| 7 | `StackRun` | `up`, `down`, `restart`, `watch`: order, waits, supervision, over services that do as they like | done |
| 7a | `Induction`, `StackRunProofs` | what folds and recursions return, for 6a too; theorems about 7 | done |
| 8 | `ProjectRegistry`, `Provision` | what the locked registry promises; registry, configuration and machine under commands that are killed | done |
| 8a | `ProvisionProofs`, `ProvisionMachineProofs` | theorems about 8, for any terminals and for one at the machine | done |

Three abstract specifications are implemented: `ServiceLayers` by
`HyperVService`, `ProjectRegistry` by `Provision`, and the pure algorithms of 6
and 7 (spellings, the visit order) are compared with definitions of what they
should return.  What could come next: two creations of a machine at once, which
share the name of the partial download, and a supervisor composed with the
process manager in one module.

## 3. Native services: `StateDb`, `ProcessManager`

### State

| Variable | Code |
|---|---|
| `db` | the `services` table restricted to one project (`state/lib.rs`), a row per service |
| `proc` | the operating system: every process there ever was, by identity; its service (or `Foreign`), its pid, whether it runs or how it ended |
| `children` | `ProcessManager.children`, per manager |
| `pc`, `op` | where each manager is in the operation it runs, and the locals it still needs: service name, `force`, the row it read, the child it spawned, and what to do after an inner call |
| `unrecorded` | history, not code: processes spawned by a manager that ended, or lost the database, before recording them |

`Ids` are persisted identities (creation time, executable and command line
hashed together), unique per process; `Pids` are reused.  A pid stays allocated
while a handle to its process is open (a `Child` in a `children` map), as on
Windows.

### Actions

An operation is cut at every database statement and at every decision taken from
an answer of the operating system.

| Actions | Code |
|---|---|
| `CallStart`, `CallStop`, `CallHealthOk` | the calls `run_stack_up`, `down` and the polls make |
| `wait_for_dependencies`, `StartLookup`, `StartClearsStalePid`, `StartRefusesPid`, `StartFindsRunning` | `start` up to the decision to spawn |
| `PrecheckFails`, `Spawn`, `IdentityFails`, `Record`, `RecordFails`, `SettleExited`, `SettleLimitsFail`, `SettleAlive` | `start` from the spawn to the health wait |
| `HealthFindsNoPid`, `HealthFindsPid`, `HealthClearsStalePid`, `HealthChecks`, `AwaitDeadline`, `MarkHealthy`, `MarkUnhealthy` | `health_ok` and the loop of `wait_for_health` |
| `StopRead` ... `StopGivesUp` | `stop`: read, identity check, CTRL_BREAK, grace period, second identity check, `taskkill /F`, confirmation |
| `StatementFails`, `LastStatementFails`, `RecordFails` | a statement fails (database locked past its timeout) |
| `Exit` | a command ends, or is killed in the middle |
| `ProcessExits`, `ForeignStarts` | the rest of the machine |

### Assumptions of the model

- The Windows build.  On it a query of the identity may fail although the process
  is there, so every caller that may be told "match" may also be told "no match".
- `PromptReuse = FALSE`: between the identity query and the `taskkill` launched
  right after it the pid does not change hands.  The code cannot exclude it
  (`taskkill` goes by pid); the constant gives the residual window its name, and
  the theorem and the run about `KillsOnlyItsOwn` state it as an assumption.
- Time is left out: a wait may end at any moment, so anything shown holds for
  every grace period, health timeout and interval.
- Two cuts are left out, in the direction of fewer behaviours: the rows of the
  dependencies are read in one step, and the insertion of the `Child` happens
  with the statement that records it.  Neither is visible to another manager.
- The specification states no fairness: all properties are safety properties.

### Runs

| Run | Instance | Checks |
|---|---|---|
| `native_solo` | one manager, ended and replaced at any time; `web` depends on `worker`; three processes, two pids, so that a pid is reused; statements may fail | `TypeOK`, `NoLostProcess`, `ReadyRowIsTruthful`, `RecordedIdentity`, `KillsOnlyItsOwn` |
| `native_stale_child` | two managers, three processes | `StopIsConfirmed`, **violated** |

Three processes are enough for an old process, its replacement and a stranger
on the reused pid; a counterexample to `NoLostProcess` or `ReadyRowIsTruthful`
needs at most two runs of one service.  These two are stated for one manager at a
time: with two, one manager can record its process over the other's (nothing
locks `start` against `start`), and a health wait can write `running` after the
other's stop.  `RecordedIdentity` and `KillsOnlyItsOwn` hold for any number of
managers; that is what the theorems below say, and the run only shows that the
interesting cases of them happen.

`native_stale_child` is a finding.  MEMORY.md:232 says that "termination failures
are surfaced and state is not cleared until stop is confirmed".  `stop` confirms
by the `Child` it holds for the service *name*.  When another command has
restarted the service, that handle belongs to the earlier, dead process: `stop`
sees "gone", clears the row and reports the service stopped, while the process
recorded in the row it read is still running, if it ignored CTRL_BREAK.

### Proofs (`ProcessManagerProofs`)

For any sets of managers, services, pids and identities, any dependencies:

| Theorem | States | Assumes |
|---|---|---|
| `TypeCorrect` | `Spec => []TypeOK` | - |
| `RowsCarryTheirIdentity` | `Spec => []RecordedIdentity` | - |
| `OnlyItsOwnKilled` | `Spec => KillsOnlyItsOwn` | `~PromptReuse` |
| `NoProcessIsLost` | `Spec => []NoLostProcess` | exactly one manager at a time |
| `ReadyRowsAreTruthful` | `Spec => []ReadyRowIsTruthful` | exactly one manager at a time |

`TypeOK` is not inductive alone: it says nothing of where a child may be `NULL`.
`WellTyped` adds that an operation at work has a service, that the child of a
`start` is a born process, and what is in hand at each label.

`RecordedIdentity` needs two facts besides: the rows *in the hands of managers*
carry a matching pid and identity too (they decide whom to kill), and a process
keeps its pid and service for life.  `IdentityInv` adds them.  `KillsOnlyItsOwn`
follows from it at `taskkill`: the identity matched at `recheck`, so the process
under the pid was the service's, and without prompt reuse it is so still or
nothing runs there.

`NoLostProcess` is far from inductive: a stop that clears the row must be known
to have seen *the* process.  `LoneInv(m)` adds, for the one manager there is,
that the `Child` held under a name is the recorded process whenever the pid in
the row is its pid (the very fact `native_stale_child` refutes for two managers),
that a manager past its lookup has nothing recorded alive, and what the row in
hand says at each label of a stop.  It was first checked by TLC as an invariant
of `native_solo`'s instance.  The step proof has one step per action.

`ReadyRowIsTruthful` needs two more facts (`ReadyInv(m)`, checked by TLC on the
same instance): a row without a pid never says `running` and its exit code zero is
that of the process it names, and a health wait about to write `running` has seen
a pid in the row, which nobody but this one manager could clear.  That is what
fails between two managers (the `wait_for_health` hazard at line 604).

## 4. The Docker API: `DockerApi`

### State

| Variable | Code |
|---|---|
| `records` | `docker_api_containers.json`: per container id the name, the host ports, whether `runtime_id` is there (`started`) and `runtime_pending` |
| `issued` | ids `new_id` gave out; they come from the clock and are not repeated |
| `held` | `PORT_RESERVATIONS`: the host ports whose sockets the server keeps bound, per id |
| `guest`, `vm` | the container under the runtime name of a name, and whether the guest answers (external) |
| `proxy` | the host ports with a `netsh` portproxy rule (external) |
| `server` | is `serve` past `restore_port_reservations` and accepting requests? |
| `pc`, `op` | where each request is, and its locals: the record it read, `existed_before`, `was_running`, what a listing saw |

### Actions

What runs under the lock of the file is one step; every unlocked read, every
call to the guest and every change of the reservations is another.

| Actions | Code |
|---|---|
| `create_container` | the whole locked section: bind, conflict checks, record, keep the sockets |
| `CallStart`, `StartIntent`, `StartInspects`, `StartLaunches`, `StartReleases`, `StartForwards`, `StartIdentifies`, `StartPersists`, `StartCannotPersist` | `start_container` and `start_service_deferred_portproxy`, in the order of the code |
| `UndoNew`, `UndoForward`, `UndoPersist`, `UndoNothing` | its three compensations |
| `StartRaw` | a name without a record is passed to the runtime |
| `CallStop`, `StopUnforwards`, `StopStops` | `stop_container` |
| `CallRemove`, `RemoveUnstarted`, `RemoveStops`, `RemoveVerifies`, `RemoveForgets` | `remove_container`, `stop_service`, `remove_portproxy` |
| `CallList`, `ListCompares`, `ListForgets` | `list_containers` with `all`, which drops phantoms |
| `StateWriteFails` | the lock times out or the file cannot be written |
| `Crash`, `Serve`, `ServeFails` | the server ends anywhere and is started again |
| `VmGoesDown`, `VmComesUp` | the guest (external) |

### Assumptions of the model

- A request names a container by its name; an id or a prefix of one leads to the
  same record.
- A container found under the name of a record has the configuration of the
  record (replacing one that has not is `HyperVService`).
- No other program takes the ports considered, and deleting a portproxy rule does
  not fail.  Both can happen; the properties below are about what the shim does
  to itself.
- The calls of one compensation are one step.  A crash inside it leaves what a
  crash before it, or a failing command in it, leaves.
- `Faults` lets a guest command fail, with or without its effect, and a locked
  update fail; `VmStops` lets the guest go down.  The runs switch them on by
  question.
- No fairness: all properties are safety properties.

### Runs

| Run | Instance | Checks |
|---|---|---|
| `docker_solo` | one request at a time, three ids, two names, two ports; crashes, faults, the guest goes down | `TypeOK`, `OnlyUnansweredRemovalUntracks`, `RulesAreOwned`, `OneListener` |
| `docker_pair` | two requests, two ids, two names, one port; crashes, the guest goes down | `PortsAreReserved` |
| `docker_restart` | one request, crashes only | `ServerComesUp`, **violated** |

Two names and two ports allow a record to be removed while another owns what it
leaves behind; the third id lets a name be used again.  One port is enough for
`PortsAreReserved`, which speaks of each port alone, and two requests are the
fewest that can interleave on it.

`docker_pair` is without faults, to keep the instance small enough; the theorem
about `PortsAreReserved` needs no such restriction.  The other three properties
are about one request at a time because they do not hold for two:
`remove_container` decides by a record read before it takes a lock, so that it
deletes a record whose start has been committed in between, and the container
that start creates has no record; a listing can drop such a record as well.  A
listing that drops a phantom keeps the sockets of its record, which is why
ownership is stated for rules and not for reservations.

`OnlyUnansweredRemovalUntracks` is an action property, as the code does leave
containers without a record in one way.  `stop_service` takes the rules away and
then probes the guest; a probe that fails, because the guest is down or did not
answer in time, makes it return success without `rm -f` (`hyperv/lib.rs:2459`).
The verification after it takes a connection that answers nothing for a container
that is gone (`api/lib.rs:1533`).  Two such answers, and the record goes while the
container is there, or comes back with the guest.  The property says that this is
the only way: a container stops being named by a record that says it runs or may
run (`Untracked`) only at the end of a removal whose verification was not
answered.  No start, compensation, listing, crash or answered removal does it.  In
the same way a start takes an inspection without an answer for "not there", and
when the portproxy cannot be made removes a container that was there as its own
creation; that loses the container, not its record.

`docker_restart` is a finding.  The comment at `api/lib.rs:1402` promises a
recoverable record after a crash.  A server that ends between making the
portproxy rules and writing the runtime id finds, when it comes up, a record
without a runtime id whose ports its own rules occupy;
`restore_port_reservations` fails and `serve` with it, every time, until the
rules are removed by hand.

### Proofs (`DockerApiProofs`)

For any requests, ids, names and ports, with or without faults:

| Theorem | States | Assumes |
|---|---|---|
| `TypeCorrect` | `Spec => []TypeOK` | - |
| `PortsStayReserved` | `Spec => []PortsAreReserved` | - |
| `ContainersStayTracked` | `Spec => OnlyUnansweredRemovalUntracks` | `OneRequest` |
| `EveryRuleIsOwned` | `Spec => []RulesAreOwned` | `OneRequest` |
| `PortsHaveOneListener` | `Spec => []OneListener` | `OneRequest` |

`OneRequest` is one request at a time; the guest may stop at any point.

`PortsAreReserved` is not inductive: another request may release the sockets of a
record, or start it, under a request that holds a copy.  `IInv` adds that the
copy in hand has the name and the ports of its record as long as that record is
there (`CopiesMatch`), that between the committed intent and the end of a start
the record says so or is gone (`IntentStands`), and that ids are never given
twice.  Most steps only let records go or become more certain (`Preserves`); one
lemma about these carries the invariant over them.

With one request `LoneInv` adds to it `Agreement`: names are unique, every rule
leads to the *container* of the record that owns its port, whose start has been
announced (so that a record dropped as a phantom leaves no rule), nobody but a
record keeps its ports bound; and `Progress`, what the request has found and made
at each point, for example that at `forward` its sockets are released and its
container exists, and at `forget` that its rules are gone and, if the guest has
answered, its container too.  `ContainersStayTracked` takes from it, action by
action, that a container named by a record stays so.  The invariant was first
checked by TLC on the instances of `docker_pair` and `docker_solo`.

## 5. Hyper-V services: `HyperVService`, over `ServiceLayers`

`ServiceLayers` says in four actions what REMEDIATION-MATRIX.md:9 and MEMORY.md:248
promise of the writable layers of a service: containers are created and
discarded, but the one whose start succeeded last goes only when another one has
succeeded or the service is taken down.  `HyperVService` is the code.

### State

| Variable | Code |
|---|---|
| `slot`, `backups`, `running`, `config` | the service's containers in the guest (external): under its name, under rollback names, which run, and their label `stackdeck.config-hash` |
| `vm`, `addr` | does the guest run, and under which address? (external) |
| `ssh_host` | the address in the configuration file |
| `rules` | the `netsh` portproxy rules of the host ports (external) |
| `pc`, `op` | where each manager is in `start_service_inner` or `stop_service`, and its locals: the configuration wanted, the address of the caller's manager (`loaded`) and of the one at work (`host`), `existing`, `existing_was_running`, `backup_name` |
| `proven` | history: the container a start succeeded with last |
| `smooth` | history: no command of the operation at work went unanswered outside the launch, and the guest did not stop meanwhile |

### Actions

Each command over SSH is a step, and so is each pass over the portproxy rules.

| Actions | Code |
|---|---|
| `CallStart`, `Reached`, `Recover`, `CannotRecover` | `start_service`, `start_service_deferred_portproxy`; `ssh_probe`, `vm_start`, `discover_ip`, `save_config` |
| `Inspects`, `InspectionUnanswered`, `StartExisting` | the decision to keep, start or replace what is there |
| `Prepare` | image, networks, arguments, volumes: may fail, changes nothing of the service |
| `StopOld`, `RenameOld`, `Run`, `WaitForHealth`, `Forward`, `Commit` | the replacement |
| `DiscardNew`, `RestoreOld`, `ReviveOld`, `ForwardAgain` | its rollback |
| `ForwardLater` | the portproxy call of the Docker API after a deferred start |
| `CallStop`, `RemoveContainer` | `stop_service` |
| `Crash` | the command is interrupted |
| `GuestStops`, `GuestStarts` | the guest (external) |

### Assumptions of the model

- An unanswered command was carried out or not; one that its deadline cut off is
  not carried out later.
- Nothing else answers under an address the guest has left.
- Rollback names are unique (they carry the second).  The container a rollback
  name stands for is kept in place of the name.
- Which restart policy a container has is left open: after the guest restarts any
  of the containers may run.
- `PortsOf` gives each configuration its ports.  Rules of ports that a new
  configuration no longer has stay, as in the code; nothing is claimed of them.

### Runs

| Run | Instance | Checks |
|---|---|---|
| `hyperv_replace` | one manager at a time, three containers, two configurations (with and without a healthcheck, sharing a port), two ports, two addresses; crashes, failures, a restarting guest | `TypeOK`, `KeepsProvenLayer`, `FailedLaunchRestores`, `StartDelivers` |
| `hyperv_moved` | the same with two containers and no failures | `ApiRulesLeadToGuest`, **violated** |

Three containers are a proven one, a replacement, and one more after either was
lost or orphaned; a counterexample to `KeepsProvenLayer` needs two.
`FailedLaunchRestores` and the rules of `StartDelivers` are claimed of operations
that nothing else disturbs (`smooth`): a launch that fails is undone, while a
rollback that loses its own connection cannot be, which the code reports as such.

One manager at a time, because nothing locks a service: with two, the rollback
of one removes under the shared name the container the other has just started.

`hyperv_moved` is a finding.  REMEDIATION-MATRIX.md:50 says that a changed address
"is persisted before retry".  It is, but `start_container` of the API goes on with
the manager it loaded before: it connects the host ports to the address the guest
has left, and the inspection that follows fails there.

### Proofs (`HyperVServiceProofs`)

For any containers, configurations, ports and addresses:

| Theorem | States | Assumes |
|---|---|---|
| `TypeCorrect` | `Spec => []TypeOK` | - |
| `ProvenLayerIsKept` | `Spec => KeepsProvenLayer`, that is, `HyperVService` implements `ServiceLayers` under `layers <- Layers` | `LoneManager` |
| `FailedLaunchIsUndone` | `Spec => FailedLaunchRestores` | `LoneManager` |
| `StartsDeliver` | `Spec => StartDelivers` | `LoneManager` |

All three rest on `IInv`.  `LayersAreTracked` says that the name and the backups
are disjoint, that what exists has a configuration (so that a container just
created is new), and that the proven container exists.  `Reliance(m)` says what
the manager may rely on between two commands: that the backup it will remove or
restore is there and is not under the name, that a container about to be
discarded is not the proven one, that at `commit` the proven one is under the
name, and, as long as the operation is smooth, that the guest is where the
manager looks for it.  `IInv` was first checked by TLC on the instance of
`hyperv_replace`.  `InvStep` shows that every action keeps it, `LayerStep` that
every action is one of `ServiceLayers` or changes neither layers nor `proven`.

## 6. Stack files: `ComposeFile`, `StackFile`

### State

| Variable | Code |
|---|---|
| `input` | one command: a Compose project or a `stack.json` as YAML or JSON gives it, its `.env` and env files, the environment of the process, profiles, the backend asked for |
| `stage` | given, parsed, unreadable (an error of the loader or of the conversion), converted, valid or refused (by the validation) |
| `project` | the `ComposeProject` |
| `stack` | the services of the `StackConfig` |

`Parse`, `Convert`, `ReadStack` and `Validate` are the stages; the first two end
in `unreadable` where the code returns an error, the last in `refused`.  What may
fail as a whole (loading a project, converting it) returns a set of results that
is empty on an error, and has several members where a `HashMap` decides by its
order.  A key of a file that is not there is `Absent` for a value and `<<>>` for a
node, as an empty `deploy` or `restart_policy` is, which the code treats alike;
YAML's null is left out.  Everything else is an operator: `ComposeFile` holds
`compose/lib.rs` (interpolation, env files, merge keys, ports, volumes, networks,
dependencies, restart policies, deploy, profiles, resources and their names),
`StackFile` what the CLI and the Hyper-V manager do with the result.

Numbers keep their width: a port is checked against `MaxU16`, and a number of
replicas is taken modulo `U32`, for which the runs put 65536 in place of 2^32.  A
name is the sequence of its parts between dashes, so that a replica's name can be
that of another service.

### Runs

| Run | Instance | Checks |
|---|---|---|
| `stack_file` | files that vary one field of a service through all its spellings, volumes declared and mounted in every way, variables set in every layer, two backends | `TypeOK`, `SpellingsAgree`, `PublishedAsWritten`, `DownVolumesAreOwn`, `ReplicasAreDistinct`, `EnvironmentIsLayered` |
| `stack_defaults` | the same | `DefaultsAreKept`, **violated** |

One field at a time is enough because the conversion reads the fields of a
service one by one, except those varied together: `restart` with `deploy`,
`scale` with `ports`, env files with `environment` and `.env`.  The family goes to
the edges of each: scales of -1, 0, 2^32 and one more; targets and hosts that are
ranges, ranges backwards, out of a port's range or no number; restart policies in
every spelling and with every policy of `deploy`, be it empty; volumes that are
declared with a name that is another's key.

The reference of `SpellingsAgree` is the longest spelling of the same file,
written out by `Longhand`, in which a port is a mapping of plain numbers.  The
known differences are left out by name (`KnownDifference`), as the code treats
the two spellings differently on purpose or by accident, and nothing in the
repository says which is meant:

- `OddPort`, an item of `ports` of one of three kinds.  In a text, a published part
  that is no port is dropped, and one that is a range of another length than its
  target is cut or its last port repeated; in the long spelling a port that is
  none is refused (`BadRange`).  In a mapping, a node that is no number for
  `as_i64`, as one in quotes: a published one is dropped, so that the port is not
  published at all, and a target is refused (`compose/lib.rs:666`).
- An item that is neither a text nor a mapping, as a number without quotes, is
  read as the empty text and refused (`compose/lib.rs:691`), though `target` with
  the same number loads; it is an `OddPort` too.
- `TwiceSet`: a variable without a value that both `.env` and the process set
  takes the value of the process in a list and that of `.env` in a map.
- `Underscored`: `on_failure` and `unless_stopped` are read with a dash under
  `deploy.restart_policy`, and as they stand under `restart`.

`PublishedAsWritten` leaves none of these files out.  Of an item that is not odd it
says that every port it publishes has a listener, and is not UDP; of all items,
odd or not, that every listener is a port one of them writes, on a host port and
for a target within what it writes.  What is dropped of an odd item in silence is
therefore not denied, but nothing is opened in its place.

`EnvironmentIsLayered` reads the file itself, not the environment the loader made
of it: the lines of the env files, the entries of the service in their spelling,
`.env` and the process.  The order of the last two is that of the code in each
spelling: a list asks the process when it is read (`compose/lib.rs:1177`) and
`.env` later, a mapping only later, `.env` first (`cli/src/main.rs:883`).

`NamesClash` leaves out files with a service that has the name of another's
replica: the conversion keeps one of the two.  `DownVolumesAreOwn` leaves out
mounts that go by the name another volume of the file has outside of it: an
undeclared name that is a declared volume's `name`, or two volumes declared with
one name, are one volume to the runtime, and `down --volumes` removes it if either
declaration says so.

`stack_defaults` is a finding.  The fields of `ServiceConfig` declare what a
`stack.json` may leave out (`types/lib.rs:282` and 328: one replica, five
restarts, three seconds).  The loader fills them with the derived default, so
every service of every `stack.json` has no replica, and the validation refuses
it.

### Proofs (`StackFileProofs`)

For files with any services, entries and replicas, any environment and any flags:

| Theorem | States |
|---|---|
| `TypeCorrect` | `Spec => []TypeOK` |
| `SpellingsStayAgreed` | `Spec => []SpellingsAgree` |
| `PublishedStaysAsWritten` | `Spec => []PublishedAsWritten` |
| `VolumesAreOwn` | `Spec => []DownVolumesAreOwn` |
| `ReplicasStayDistinct` | `Spec => []ReplicasAreDistinct` |
| `EnvironmentStaysLayered` | `Spec => []EnvironmentIsLayered` |

They rest on two assumptions, which TLC evaluates on every run.
`ComposeFileAssumption`: `None` is none of the words, truth values and numbers it
is compared with.  `StackFileAssumption`: a file has the types serde gives it (a
list is a sequence, a number a number, a node has one shape, a file the keys the
loader reads), and the decimal numerals of different numbers differ.  Nothing is
assumed of what a file says.

The inductive invariant is `Flow`: a project that is there is one that the file
loads to, a stack one that this project converts to, and an unreadable file has
none.  That is the whole of the machine; the work is in the operators.

- *Folds.* What `Layered` and `FlattenSeq` return for sequences of any length is
  shown by induction on the prefix that has been gone through (`LayeredIs`,
  `FlattenIs`, `FlattenThrough`, with `NatSetInduction` of `Induction`): the last
  layer that names a key wins, and a flattened sequence has the items of its parts
  in their order, whatever is done to every one of them.
- *Names.* `InstancesDiffer` shows that the names of replicas are different, from
  numerals that differ and names that are one part longer; `InstancesAreCounted`
  counts them.
- *Environments.* `PairsAre` shows that a map of pairs has the last value of each
  key, `OwnEntriesAre` what the loader makes of a service's own entries in each
  spelling; `EnvironmentIs` takes the strongest of the offers apart into the files,
  the last own entry, `.env` and the process.
- *Spellings.* `Longhand` is compared field by field: `PortListIs` shows that a list of
  ports becomes the ports its long entries describe one by one, or both are
  refused, `BuildAgrees`, `DependenciesAgree`, `NetworksAgree`, `VolumesAgree`,
  `ReplicasAgree` and `RestartAgrees` that the other fields become equal, and
  `FoundAgrees` that the environments do once `.env` and the process have been asked.
  `ServiceAgrees`, `StacksAgree` and `MeaningIs` put services, stacks and files
  together.
- *Ports.* `EntriesAre` shows that every published entry of an item that is not odd
  is one of its ports, `ItemWrites` that the ports of any item lie within what it
  writes; `NormalizedAre` and `PublishedAre` carry both to the listeners.

The proof of `DownVolumesAreOwn` first failed: the second volume that has a
mount's name outside the file was no case of the runs then, and the property was
false of it.  It is now excluded by name, and the runs have the case.  In the same
way the proof of `SpellingsAgree` found `Underscored`.

## 7. Stack runs: `StackRun`

### State

| Variable | Code |
|---|---|
| `stack`, `command` | the services' settings that these commands read; the command and its flags |
| `status` | what really runs (external): missing, running, healthy, exited |
| `pc`, `order`, `todo` | the point reached, `ordered_targets`, what the loop at hand has still to do |
| `waiting`, `polls` | the dependencies the present service waits for, and the unready answers so far |
| `failed`, `volumes` | does `failed` hold a message; the volumes of the stack |
| `attempts`, `restart_after` | `restart_attempts` and the seconds to the deadline |
| `held`, `started`, `stopped`, `streak`, `quiet` | history: conditions that held, starts and stops that succeeded, restarts since a service was last seen good, and seconds since the last of them |

### Actions

| Actions | Code |
|---|---|
| `SortTargets` | `ordered_targets`, with its cycles and unknown services |
| `TakeService`, `SkipAbsent`, `WaitForDependency`, `StartService`, `EndUp` | `run_stack_up` and `wait_for_dependency` |
| `BeginWatch`, `Sleep`, `SeenGood`, `SeenBad`, `ReviveStops`, `Relaunch`, `EndRound` | the supervision, `watch`, `restart_is_due` |
| `BeginDown`, `StopService`, `EndDown` | `run_stack_down`, and the first half of `restart` |
| `Killed` | Ctrl+C, or the desktop's timeout |
| `Turn` | the services do as they like (external) |

`FairSpec` adds `WF_vars(Step)`: a command that is not killed goes on, because
every call it makes has a timeout of its own.  Nothing is assumed of the services
or of who kills the command.

### Run

`stack_run` takes four families of cases: every dependency graph of three
services (one perhaps absent), every kind of wait (condition, required or not,
backend, probe), supervision with policies, limits and backoffs, and `down` and
`restart`.  An unready dependency is asked again twice (60 times in the code),
and a sleep with its polls takes 100 or 300 seconds, so that a deadline is met
before, at and after its time; 300 is the longest delay of the code.

| Property | Says |
|---|---|
| `OrderIsSound` | the order is the reachable services, each once and after all it depends on; refused exactly when there is none |
| `DependenciesFirst` | a service starts only after the condition of each required dependency held |
| `SuccessIsComplete` | a command that reports success has done all of it |
| `RestartsAreBounded`, `RestartsAreSpaced` | at most `max_restarts` between two good polls, never within the backoff |
| `CommandEnds`, `BadIsRestarted` | liveness: a command ends or reaches its supervision; a service that is not good is restarted, is good again or has used up its attempts |

`DependenciesFirst` says that a condition *held*: the wait is over with one good
answer, and the dependency may be down again when its dependant starts, as in the
code.  `RestartsAreBounded` speaks of the time between two good polls: one good
poll between two crashes begins a new count, so that a service that crashes more
slowly than it is polled is restarted for ever.

### Proofs (`StackRunProofs`)

For any services, settings, commands, number of polls and sleeps:

| Theorem | States | Invariant |
|---|---|---|
| `TypeCorrect` | `Spec => []TypeOK` | `Typed` |
| `OrderComesSound` | `Spec => []OrderIsSound` | `Sorted` |
| `DependenciesComeFirst` | `Spec => []DependenciesFirst` | `DepInv` |
| `SuccessIsWhole` | `Spec => []SuccessIsComplete` | `SuccessInv` |
| `RestartsAreFew` | `Spec => []RestartsAreBounded` | `RestartInv` |
| `RestartsComeSpaced` | `Spec => RestartsAreSpaced` | `RestartInv` |

`DepInv` adds that what a service no longer waits for has held (`Informed`) or is
still in `waiting` (`Awaited`).  `SuccessInv` relates `todo` to what is started or
stopped at each stage of the command.  `RestartInv` is the arithmetic of the
supervision: the attempts and the streak agree, and the seconds to the deadline
and those since the last restart together are never less than the delay owed
(`Counted`), which a sleep moves from one to the other.

`OrderComesSound` is about `ordered_targets`, for every set of services and every
dependency graph.  The visit of a service is a recursive function of the service,
of the path that leads to it and of what has been seen before, and the visit of
its dependencies is a fold over it, so nothing says at first that it returns
anything.  `VisitExists` builds it, by induction on the number of services that
are not on the path; `LoopSteps` says what a loop over the dependencies returns
after each of them.  `VisitIsSound` then shows, by the same induction, that a visit
that succeeds has only added to the order, each service once and after all it
depends on, and nothing that cannot be reached; and that one that fails has found
a service that is not there or a path that comes back to itself.  For the second
half, that no order exists then, the least position of a service of that path in
a supposed order refutes it.

`Induction` states these inductions without an operator as a parameter, which the
provers could not instantiate: over the *set* of the numbers for which something
holds (`NatSetInduction`, from the well-foundedness of the natural numbers), and
for folds over the function of their partial results (`FoldExists`, `FoldSteps`),
among them the flattening of sequences.

Only model-checked: `CommandEnds` and `BadIsRestarted`, which are liveness.

## 8. Provisioning: `Provision`, over `ProjectRegistry`

`ProjectRegistry` is a set of names from and to which one name at a time goes.
`Provision` is the code: commands in terminals, each a process of its own that
may be killed between any two steps.

### State

| Variable | Code |
|---|---|
| `records` | the files of the registry and of the configuration, and whether they have reached the disk |
| `lock` | who holds the registry's lock file |
| `files`, `vm`, `guest` | images, seed media and disk under `vm_root`; the machine; its address, runtime and active mirrors (external, but for what the commands do) |
| `pc`, `command`, `mgr`, `saving`, `wait` | where each command is, the configuration it works with, the `atomic_write` at hand, and the counters of `wait_for_ssh` and `discover_ip` |
| `given`, `format`, `found` | which commands may be given; the format of the image; history: what there was of a machine when the command began |

A file is nothing, a beginning, or all of it; `bad` is a whole file that is not
what its digest says.

### Actions

| Actions | Code |
|---|---|
| `Begin`, `LoadConfig` | a command and the configuration it loads |
| `CreateTemp`, `SyncTemp`, `ReplaceFile`, `WriteFails` | `atomic_write` |
| `TakeLock`, `LockTimesOut`, `ReadRegistry` | `FileLock::exclusive`, `register`, `unregister` |
| `ApplyMirrors`, `MirrorRemove` | `mirror set`, `mirror remove` |
| `EnsureSafe`, `StartDownload`, `FinishDownload`, `VerifyDownload`, `Promote`, `StartPrepare`, `FinishPrepare` | `download_image`, `prepare_vm_image` |
| `EnsureKey`, `WriteSeed`, `Guard`, `StartDisk`, `FinishDisk`, `NewVm` | `create_vm`, `create_cloud_vm` |
| `StartVm`, `StopVm`, `DiscoverIp`, `AskAddress`, `ProbeSsh`, `Bootstrap` | `vm_start`, `vm_stop`, `discover_ip`, `wait_for_ssh`, `repair`, `bootstrap` |
| `Killed`, `PowerFailure` | a command ends anywhere; the host does |
| `GuestMoves`, `GuestStops`, `CleanUp` | the guest; somebody deletes the remains of an attempt (external) |

Fairness is `WF_vars(Step(p))` for each terminal: a command that is neither
killed nor finished goes on, since its calls have timeouts.  Two have none, `tar`
and the helper that protects the key; of these it is assumed that they end.

### Assumptions of the model

- The replacement of a file by the file system is atomic.
- The address Windows reports for a guest may be one it has left.
- An archive that can be unpacked holds a disk image.
- `OneTerminal`: whoever works with the machine or the configuration does so from
  one terminal.  The code locks neither: the save of one of two commands undoes
  the other's, and two downloads share a partial file.  The registry, which is
  locked, is changed from all of them.
- `SoundHosts`: a machine that is there at the beginning has its disk.

### Runs

| Run | Instance | Checks |
|---|---|---|
| `provision` | two terminals that change a registry of two names; a machine made from each format of image, on hosts with none, a good or a bad image; a machine kept, with two addresses and a mirror | `TypeOK`, `FilesAreWhole`, `VmDiskIsWhole`, `OnlyVerifiedIsUsed`, `GuestMirrorsAreConfigured`, `RegistryIsAtomic`, `NothingIsOverwritten`, `CommandsEnd` |
| `init_refused` | `init` on a host that has nothing | `GuardSparesOwnFiles`, **violated** |

Each wait polls twice, and the bootstrap script is tried once more after a
failure: a poll that fails, one that succeeds and a time that runs out are all
there, also inside `repair`, which waits within waits.  Two addresses are enough
for a guest to leave one while it is waited for there.

`init_refused` is a finding.  README.md:188 says that `init` creates the machine
and goes on to bootstrap it.  `create_cloud_vm` writes the seed directory and its
media and then runs a script that begins by refusing to touch them; no machine is
ever created this way.

### Proofs (`ProvisionProofs`, `ProvisionMachineProofs`)

For any terminals, projects, mirrors, addresses and bounds:

| Theorem | States | Assumes |
|---|---|---|
| `TypeCorrect` | `Spec => []TypeOK` | - |
| `FilesStayWhole` | `Spec => []FilesAreWhole` | - |
| `RegistryIsImplemented` | `Spec => RegistryIsAtomic`: `Provision` implements `ProjectRegistry` | - |
| `DiskStaysWhole` | `Spec => []VmDiskIsWhole` | `OneTerminal`, `SoundHosts` |
| `VerifiedIsUsed` | `Spec => []OnlyVerifiedIsUsed` | `OneTerminal`, `SoundHosts` |
| `MirrorsAreListed` | `Spec => []GuestMirrorsAreConfigured` | `OneTerminal`, `SoundHosts` |
| `NothingIsLost` | `Spec => NothingIsOverwritten` | `OneTerminal`, `SoundHosts` |

The first three rest on `IInv`: both records are whole and on the disk, what is
about to be written has been synced before it replaces anything, and a registry
about to be written is the *present* one with one name more or less, because its
writer holds the lock (`Transaction`).  From the last the refinement follows:
`ReplaceFile` is a step of `ProjectRegistry` (`ReplaceRefines`), and no other
action changes the records (`OthersKeepRecords`).

`LoneInv` adds for the terminal at the machine that nobody else is at work there
(`Alone`), what each point of a creation has made or found of the image
(`ImageOK`) and of the disk (`DiskOK`), and that at every point of a mirror
command the guest has no mirror that the configuration on the disk lacks
(`MirrorsOK`).

Only model-checked: `CommandsEnd`.

## 9. Not modelled

- *Two machines' worth of trouble.* Two creations at once (they share the name of
  the partial download) and two commands on the unlocked configuration (the later
  save wins); the first is left out, the second is why `OneTerminal` is assumed.
- *Of provisioning*: images the user brings, the SMB secret, snapshots and shares,
  and what follows the guard in `create_cloud_vm`, which it never passes.
- *Of the Docker API*: images, networks, volumes, builds and exec, passed through
  to the guest; authentication, streaming and the shape of answers.
- *Of the managers*: status listings, logs, volumes and environment of a service
  (no decision above reads them), the probes behind a healthcheck (an arbitrary
  answer here), image builds (a step that may fail).
- *Of the files*: the YAML and JSON syntax, units of memory, the wording of
  errors.
- *The desktop backend and its user interface*: the backend runs the CLI with a
  timeout, whose kill is the action `Killed`; its own lock and the views show what
  commands answered.
- *The PowerShell scripts*: sequential glue over the operating system.

Beyond the prover, and left to TLC: the liveness properties (`CommandEnds`,
`BadIsRestarted`, `CommandsEnd`) and the properties that the code violates.  Every
invariant of a passing run is a theorem.

## 10. Running it

    tlc -workers 2 -config native_solo.cfg MCProcessManager
    tlc -workers 2 -config docker_solo.cfg MCDockerApi
    tlc -workers 2 -config docker_pair.cfg MCDockerApi
    tlc -workers 2 -config hyperv_replace.cfg MCHyperVService
    tlc -workers 2 -config stack_file.cfg MCStackFile
    tlc -workers 2 -config stack_run.cfg MCStackRun
    tlc -workers 2 -config provision.cfg MCProvision
    tlapm ProcessManagerProofs.tla
    tlapm DockerApiProofs.tla
    tlapm HyperVServiceProofs.tla
    tlapm Induction.tla
    tlapm StackFileProofs.tla
    tlapm StackRunProofs.tla
    tlapm ProvisionProofs.tla
    tlapm ProvisionMachineProofs.tla
