------------------------------ MODULE Provision ------------------------------
(***************************************************************************)
(* The commands of stackdeck-cli that keep the host's own records and its  *)
(* one virtual machine: `register` and `unregister` of projects, under a   *)
(* lock; the configuration of the VM, under none; the download, creation,  *)
(* start, search and repair of the VM and the mirrors set in its guest.    *)
(*                                                                         *)
(* A command is a process of its own.  It may be killed between any two    *)
(* steps, power may fail, and the guest goes down or comes back under      *)
(* another address as it likes.                                            *)
(***************************************************************************)
EXTENDS Integers, FiniteSets

CONSTANTS
    Procs,      \* terminals; each runs one command at a time
    Cases,      \* commands given in each terminal, and what the host has already
    Names,      \* projects
    Mirrors,    \* registries that may have a mirror
    Addresses,  \* addresses the guest may be given
    Polls,      \* polls of a wait before its time is over
    Tries,      \* failed runs of the bootstrap script before its time is over
    NULL

CommandNames ==
    {"register", "unregister", "configure", "ensure_key", "download_image", "download_anew",
     "init", "create_vm", "create_cloud_vm", "start", "stop", "discover_ip", "repair",
     "bootstrap", "mirror_set", "mirror_remove"}
Command == [name : CommandNames, arg : Names \cup Mirrors \cup Addresses \cup {NULL}]

\* Of a file: nothing, a beginning, or all of it; bad is not what its digest says.
Contents == {"none", "part", "good", "bad"}
Artifacts == {"image", "partial", "prepared", "seed", "seed_iso", "seed_disk", "disk"}

RecordFiles == {"registry", "config"}

\* HyperVConfig, as far as these commands change it.
Config == [host : Addresses \cup {NULL}, mirrors : SUBSET Mirrors]

ASSUME ProvisionAssumption ==
    /\ NULL \notin Procs \cup Addresses \cup Mirrors \cup Names \cup RecordFiles
    /\ \A names \in SUBSET Names : names # NULL
    /\ \A cfg \in Config : cfg # NULL
    /\ Polls \in Nat /\ Tries \in Nat
    /\ \A case \in Cases :
            /\ case.given \in [Procs -> SUBSET Command]
            /\ \A p \in Procs : \A c \in case.given[p] :
                    /\ c.name \in {"register", "unregister"} => c.arg \in Names
                    /\ c.name \in {"mirror_set", "mirror_remove"} => c.arg \in Mirrors
                    /\ c.name = "configure" => c.arg \in Addresses
            /\ case.files \in [Artifacts -> Contents]
            /\ case.vm \in {"absent", "off", "running"}
            /\ case.format \in {"vhdx", "qcow2", "tar"}

VARIABLES
    given,      \* commands that may be given in each terminal
    format,     \* of the image that is downloaded
    records,    \* the registry's and the configuration's file; durable: synced
    lock,       \* who holds the registry's lock
    files,      \* images, seed media and disk under vm_root
    vm,         \* the virtual machine
    guest,      \* what runs in it: its address, container runtime and mirrors
    pc, command,
    mgr,        \* the configuration a command works with
    saving,     \* the atomic_write at hand: what, whether synced, and then
    wait,       \* of wait_for_ssh and discover_ip: address, answers, polls, waits, tries
    found       \* history: what there was of a VM when the command began

host == <<records, lock>>
machine == <<files, vm, guest>>
local == <<command, mgr, saving, wait, found>>
vars == <<given, format, host, machine, pc, local>>

-----------------------------------------------------------------------------
(* Commands begin and end. *)

Resting == {"idle", "done", "failed", "refused", "killed"}
Writing == {"write", "sync", "replace"}
\* With a configuration in hand.
Working ==
    {"mirrors", "unmirror", "check", "download", "downloading", "verify", "promote", "prepare",
     "preparing", "check_again", "key", "seed", "seed_iso", "seed_disk", "guard", "copy", "copying",
     "new", "state", "discover", "ssh", "probe", "bootstrap"}
NoSave == [file |-> NULL, value |-> NULL, synced |-> FALSE, next |-> "idle"]
NoWait == [host |-> NULL, answers |-> 0, polls |-> 0, waits |-> 0, tries |-> 0]

Goto(p, point) == pc' = [pc EXCEPT ![p] = point]

\* The lock goes with the process, however it ends.
End(p, outcome) ==
    /\ Goto(p, outcome)
    /\ lock' = IF lock = p THEN NULL ELSE lock

\* save_config or the write of the registry: go on to next when it is done.
Save(p, file, value, next) ==
    /\ Goto(p, "write")
    /\ saving' = [saving EXCEPT ![p] = [file |-> file, value |-> value, synced |-> FALSE, next |-> next]]

\* Mutant: the guard of VM creation asks for the machine, not for its files.
ExistingMachine == IF vm = "absent" THEN {} ELSE {"vm"}

\* What the guard of VM creation refuses to touch.
Existing ==
    {f \in {"disk", "seed", "seed_iso", "seed_disk"} : files[f] # "none"}
        \cup IF vm = "absent" THEN {} ELSE {"vm"}

Begin(p) ==
    /\ pc[p] \in Resting
    /\ \E c \in given[p] :
            /\ command' = [command EXCEPT ![p] = c]
            /\ Goto(p, IF c.name \in {"register", "unregister"} THEN "lock" ELSE "load")
    /\ mgr' = [mgr EXCEPT ![p] = NULL]
    /\ saving' = [saving EXCEPT ![p] = NoSave]
    /\ wait' = [wait EXCEPT ![p] = NoWait]
    /\ found' = [found EXCEPT ![p] = Existing]
    /\ UNCHANGED <<given, format, host, machine>>

-----------------------------------------------------------------------------
(* atomic_write: a temporary is written, synced and put in the file's place. *)

CreateTemp(p) ==
    /\ pc[p] = "write"
    /\ Goto(p, "sync")
    /\ UNCHANGED <<given, format, host, machine, local>>

\* Mutant: the temporary is not flushed before it replaces the file.
SyncTempLater(p) ==
    /\ pc[p] = "sync"
    /\ Goto(p, "replace")
    /\ UNCHANGED <<given, format, host, machine, local>>

SyncTemp(p) ==
    /\ pc[p] = "sync"
    /\ saving' = [saving EXCEPT ![p].synced = TRUE]
    /\ Goto(p, "replace")
    /\ UNCHANGED <<given, format, host, machine, command, mgr, wait, found>>

ReplaceFile(p) ==
    /\ pc[p] = "replace"
    /\ records' = [records EXCEPT ![saving[p].file] =
                        [value |-> saving[p].value, durable |-> saving[p].synced]]
    /\ IF saving[p].next = "done" THEN End(p, "done") ELSE Goto(p, saving[p].next) /\ UNCHANGED lock
    /\ UNCHANGED <<given, format, machine, local>>

\* The temporary is removed, the file is what it was.
WriteFails(p) ==
    /\ pc[p] \in Writing
    /\ End(p, "failed")
    /\ UNCHANGED <<given, format, records, machine, local>>

-----------------------------------------------------------------------------
(* register and unregister. *)

\* Mutant: the lock is opened, not taken.
TakeLockShared(p) ==
    /\ pc[p] = "lock"
    /\ lock' = p
    /\ Goto(p, "read")
    /\ UNCHANGED <<given, format, records, machine, local>>

TakeLock(p) ==
    /\ pc[p] = "lock"
    /\ lock = NULL
    /\ lock' = p
    /\ Goto(p, "read")
    /\ UNCHANGED <<given, format, records, machine, local>>

\* After 30 s; or the project is not one that can be registered.
LockTimesOut(p) ==
    /\ pc[p] = "lock"
    /\ lock # NULL \/ command[p].name = "register"
    /\ Goto(p, "failed")
    /\ UNCHANGED <<given, format, host, machine, local>>

\* A registry that cannot be parsed is not replaced.
ReadRegistry(p) ==
    /\ pc[p] = "read"
    /\ LET names == records["registry"].value
           name  == command[p].arg
       IN  \/ names = NULL /\ End(p, "failed") /\ UNCHANGED saving
           \/ names # NULL /\ command[p].name = "register"
                /\ Save(p, "registry", names \cup {name}, "done") /\ UNCHANGED lock
           \/ names # NULL /\ command[p].name = "unregister" /\ name \in names
                /\ Save(p, "registry", names \ {name}, "done") /\ UNCHANGED lock
           \/ names # NULL /\ command[p].name = "unregister" /\ name \notin names
                /\ End(p, "done") /\ UNCHANGED saving
    /\ UNCHANGED <<given, format, records, machine, command, mgr, wait, found>>

-----------------------------------------------------------------------------
(* Configuration and mirrors. *)

\* A wait starts with the address of the manager, whatever the file says by now.
Wait(cfg, n, tries) == [host |-> cfg.host, answers |-> 0, polls |-> 0, waits |-> n, tries |-> tries]
Waits(p, cfg, n) == wait' = [wait EXCEPT ![p] = Wait(cfg, n, wait[p].tries)]

\* Where a command goes on with the configuration it has loaded.
Entry(name) ==
    IF name \in {"init", "create_vm"} THEN "check"
    ELSE IF name \in {"download_image", "download_anew"} THEN "download"
    ELSE IF name = "create_cloud_vm" THEN IF files["image"] = "none" THEN "failed" ELSE "check_again"
    ELSE IF name = "ensure_key" THEN "key"
    ELSE IF name = "bootstrap" THEN "ssh"
    ELSE IF name = "mirror_remove" THEN "unmirror"
    ELSE IF name = "discover_ip" THEN "discover"
    ELSE "state"

\* load_config; a changed one is saved at once.
LoadConfig(p) ==
    /\ pc[p] = "load"
    /\ LET cfg     == records["config"].value
           name    == command[p].name
           changed == IF name = "configure" THEN [cfg EXCEPT !.host = command[p].arg]
                      ELSE [cfg EXCEPT !.mirrors = @ \cup {command[p].arg}]
       IN  \/ cfg = NULL /\ Goto(p, "failed") /\ UNCHANGED <<mgr, saving, wait>>
           \/ /\ cfg # NULL /\ name \in {"configure", "mirror_set"}
              /\ mgr' = [mgr EXCEPT ![p] = changed]
              /\ Save(p, "config", changed, IF name = "configure" THEN "done" ELSE "mirrors")
              /\ UNCHANGED wait
           \/ /\ cfg # NULL /\ name \notin {"configure", "mirror_set"}
              /\ mgr' = [mgr EXCEPT ![p] = cfg]
              /\ Goto(p, Entry(name))
              /\ IF name = "bootstrap" THEN Waits(p, cfg, 2) ELSE UNCHANGED wait
              /\ UNCHANGED saving
    /\ UNCHANGED <<given, format, host, machine, command, found>>

\* A command over SSH arrives where the manager believes the guest to be.
Reached(p) == vm = "running" /\ guest.address = mgr[p].host

\* apply_registry_mirrors; repair does it twice.
ApplyMirrors(p) ==
    /\ pc[p] = "mirrors"
    /\ \/ mgr[p].mirrors = {} /\ Goto(p, "done") /\ UNCHANGED guest
       \/ /\ mgr[p].mirrors # {} /\ Reached(p)
          /\ guest' = [guest EXCEPT !.mirrors = @ \cup mgr[p].mirrors]
          /\ Goto(p, "done") \/ Goto(p, "failed")
       \/ mgr[p].mirrors # {} /\ Goto(p, "failed") /\ UNCHANGED guest
    /\ UNCHANGED <<given, format, host, files, vm, local>>

Without(cfg, mirror) == [cfg EXCEPT !.mirrors = @ \ {mirror}]

\* Mutant: the entry goes before the guest has been told.
MirrorRemoveCommits(p) ==
    /\ pc[p] = "unmirror"
    /\ mgr' = [mgr EXCEPT ![p] = Without(@, command[p].arg)]
    /\ Save(p, "config", Without(mgr[p], command[p].arg), "done")
    /\ UNCHANGED <<given, format, host, machine, command, wait, found>>

\* mirror_remove: the guest first, so that no mirror is active that is not listed.
MirrorRemove(p) ==
    /\ pc[p] = "unmirror"
    /\ \/ /\ Reached(p)
          /\ guest' = Without(guest, command[p].arg)
          /\ \/ /\ mgr' = [mgr EXCEPT ![p] = Without(@, command[p].arg)]
                /\ Save(p, "config", Without(mgr[p], command[p].arg), "done")
             \/ Goto(p, "failed") /\ UNCHANGED <<mgr, saving>>
       \/ Goto(p, "failed") /\ UNCHANGED <<guest, mgr, saving>>
    /\ UNCHANGED <<given, format, host, files, vm, command, wait, found>>

-----------------------------------------------------------------------------
(* init and create_vm: from the image to the machine. *)

Put(f, content) == files' = [files EXCEPT ![f] = content]

\* ensure_vm_creation_is_safe; init asks before the download and after it.
EnsureSafe(p) ==
    /\ pc[p] \in {"check", "check_again"}
    /\ Goto(p, IF Existing # {} THEN "refused"
               ELSE IF pc[p] = "check_again" THEN "key"
               ELSE IF command[p].name = "init" THEN "download" ELSE "guard")
    /\ UNCHANGED <<given, format, host, machine, local>>

\* Where `init` goes on when it has the image.
Downloaded(p) == IF command[p].name = "init" THEN "prepare" ELSE "done"

\* An image that is there is verified, and fetched again only by --force; a
\* partial one always is.
StartDownload(p) ==
    /\ pc[p] = "download"
    /\ IF files["image"] = "none" \/ command[p].name = "download_anew"
       THEN Put("partial", "part") /\ Goto(p, "downloading")
       ELSE /\ Goto(p, IF files["image"] = "good" THEN Downloaded(p) ELSE "failed")
            /\ UNCHANGED files
    /\ UNCHANGED <<given, format, host, vm, guest, local>>

FinishDownload(p) ==
    /\ pc[p] = "downloading"
    /\ \/ \E content \in {"good", "bad"} : Put("partial", content) /\ Goto(p, "verify")
       \/ Goto(p, "failed") /\ UNCHANGED files
    /\ UNCHANGED <<given, format, host, vm, guest, local>>

\* Mutant: what was downloaded is promoted whatever its digest.
VerifyNothing(p) ==
    /\ pc[p] = "verify"
    /\ Goto(p, "promote")
    /\ UNCHANGED <<given, format, host, machine, local>>

VerifyDownload(p) ==
    /\ pc[p] = "verify"
    /\ IF files["partial"] = "good" THEN Goto(p, "promote") /\ UNCHANGED files
       ELSE Put("partial", "none") /\ Goto(p, "failed")
    /\ UNCHANGED <<given, format, host, vm, guest, local>>

Promote(p) ==
    /\ pc[p] = "promote"
    /\ files' = [files EXCEPT !["image"] = files["partial"], !["partial"] = "none"]
    /\ Goto(p, Downloaded(p))
    /\ UNCHANGED <<given, format, host, vm, guest, local>>

\* Mutant: a conversion writes over what an earlier one has left.
StartPrepareAnew(p) ==
    /\ pc[p] = "prepare"
    /\ IF format = "vhdx" THEN Goto(p, "check_again") /\ UNCHANGED files
       ELSE Put("prepared", "part") /\ Goto(p, "preparing")
    /\ UNCHANGED <<given, format, host, vm, guest, local>>

\* prepare_cloud_image: a disk is used as it is, an archive unpacked again,
\* any other image converted, unless the result exists.
StartPrepare(p) ==
    /\ pc[p] = "prepare"
    /\ IF format = "vhdx" THEN Goto(p, "check_again") /\ UNCHANGED files
       ELSE IF format = "qcow2" /\ files["prepared"] # "none" THEN Goto(p, "failed") /\ UNCHANGED files
       ELSE Put("prepared", "part") /\ Goto(p, "preparing")
    /\ UNCHANGED <<given, format, host, vm, guest, local>>

FinishPrepare(p) ==
    /\ pc[p] = "preparing"
    /\ \/ Put("prepared", files["image"]) /\ Goto(p, "check_again")
       \/ Goto(p, "failed") /\ UNCHANGED files
    /\ UNCHANGED <<given, format, host, vm, guest, local>>

\* ensure_ssh_key, of which the public half goes to the configuration with the rest.
EnsureKey(p) ==
    /\ pc[p] = "key"
    /\ \/ Save(p, "config", mgr[p], IF command[p].name = "ensure_key" THEN "done" ELSE "seed")
       \/ Goto(p, "failed") /\ UNCHANGED saving
    /\ UNCHANGED <<given, format, host, machine, command, mgr, wait, found>>

\* write_cloud_init_seed: a directory, an image and a disk of it.
WriteSeed(p) ==
    /\ pc[p] \in {"seed", "seed_iso", "seed_disk"}
    /\ \/ /\ pc[p] = "seed" \/ files[pc[p]] = "none"
          /\ Put(pc[p], "good")
          /\ Goto(p, IF pc[p] = "seed" THEN "seed_iso"
                     ELSE IF pc[p] = "seed_iso" THEN "seed_disk" ELSE "guard")
       \/ Goto(p, "failed") /\ Put(pc[p], IF files[pc[p]] = "none" THEN "part" ELSE files[pc[p]])
    /\ UNCHANGED <<given, format, host, vm, guest, local>>

\* The script that creates the machine begins with the same guard.
Guard(p) ==
    /\ pc[p] = "guard"
    /\ Goto(p, IF Existing # {} THEN "refused" ELSE "copy")
    /\ UNCHANGED <<given, format, host, machine, local>>

\* New-VHD, unless there is one, or the copy of the image.
StartDisk(p) ==
    /\ pc[p] = "copy"
    /\ IF files["disk"] = "none" THEN Put("disk", "part") /\ Goto(p, "copying")
       ELSE Goto(p, IF command[p].name = "create_vm" THEN "new" ELSE "failed") /\ UNCHANGED files
    /\ UNCHANGED <<given, format, host, vm, guest, local>>

FinishDisk(p) ==
    /\ pc[p] = "copying"
    /\ \/ Put("disk", "good") /\ Goto(p, "new")
       \/ Goto(p, "failed") /\ UNCHANGED files
    /\ UNCHANGED <<given, format, host, vm, guest, local>>

\* New-VM and its settings: either may fail.
NewVm(p) ==
    /\ pc[p] = "new"
    /\ \/ /\ vm' = "off"
          /\ guest' = [address |-> NULL, runtime |-> FALSE, mirrors |-> {}]
          /\ Goto(p, "done") \/ Goto(p, "failed")
       \/ Goto(p, "failed") /\ UNCHANGED <<vm, guest>>
    /\ UNCHANGED <<given, format, host, files, local>>

-----------------------------------------------------------------------------
(* start, stop, discover_ip, bootstrap and repair. *)

VmStarts == vm' = "running" /\ \E a \in Addresses : guest' = [guest EXCEPT !.address = a]
VmStops == vm' = "off" /\ guest' = [guest EXCEPT !.address = NULL]

\* vm_start, alone or as the beginning of repair; a machine that runs is left
\* alone.  repair looks for the guest if nobody has ever found it.
StartVm(p) ==
    /\ pc[p] = "state" /\ command[p].name \in {"start", "repair"}
    /\ \/ /\ vm # "absent"
          /\ IF vm = "off" THEN VmStarts ELSE UNCHANGED <<vm, guest>>
          /\ IF command[p].name = "start" THEN Goto(p, "done") /\ UNCHANGED wait
             ELSE IF mgr[p].host = NULL THEN Goto(p, "discover") /\ UNCHANGED wait
             ELSE Goto(p, "ssh") /\ Waits(p, mgr[p], 3)
       \/ /\ command[p].name = "repair" => vm # "running"
          /\ Goto(p, "failed") /\ UNCHANGED <<vm, guest, wait>>
    /\ UNCHANGED <<given, format, host, files, command, mgr, saving, found>>

StopVm(p) ==
    /\ pc[p] = "state" /\ command[p].name = "stop"
    /\ \/ vm # "absent" /\ VmStops /\ Goto(p, "done")
       \/ Goto(p, "failed") /\ UNCHANGED <<vm, guest>>
    /\ UNCHANGED <<given, format, host, files, local>>

\* vm_ip: what the adapter says, else what the host remembers of it, maybe nothing.
vm_ip == IF vm = "absent" THEN {} ELSE IF guest.address = NULL THEN Addresses ELSE {guest.address}

\* Mutant: one poll more than there is time for.
DiscoverIpOnceMore(p) ==
    /\ pc[p] = "discover"
    /\ wait[p].polls <= Polls
    /\ wait' = [wait EXCEPT ![p].polls = @ + 1]
    /\ UNCHANGED <<given, format, host, machine, pc, command, mgr, saving, found>>

\* One poll of discover_ip, and its time.
DiscoverIp(p) ==
    /\ pc[p] = "discover"
    /\ \/ \E a \in vm_ip : LET cfg == [mgr[p] EXCEPT !.host = a] IN
          /\ mgr' = [mgr EXCEPT ![p] = cfg]
          /\ Save(p, "config", cfg, IF command[p].name = "repair" THEN "ssh" ELSE "done")
          /\ IF command[p].name = "repair" THEN Waits(p, cfg, 3) ELSE UNCHANGED wait
       \/ /\ wait[p].polls < Polls
          /\ wait' = [wait EXCEPT ![p].polls = @ + 1]
          /\ UNCHANGED <<pc, mgr, saving>>
       \/ /\ wait[p].polls = Polls
          /\ Goto(p, "failed")
          /\ UNCHANGED <<mgr, saving, wait>>
    /\ UNCHANGED <<given, format, host, machine, command, found>>

\* wait_for_ssh asks Hyper-V where the guest is; a new address is saved at
\* once, with the rest of what the command has loaded.
AskAddress(p) ==
    /\ pc[p] = "ssh"
    /\ \/ \E a \in vm_ip \ {wait[p].host} :
            /\ wait' = [wait EXCEPT ![p].host = a, ![p].answers = 0]
            /\ Save(p, "config", [mgr[p] EXCEPT !.host = a], "probe")
       \/ Goto(p, "probe") /\ UNCHANGED <<wait, saving>>
    /\ UNCHANGED <<given, format, host, machine, command, mgr, found>>

\* Two answers in a row end the wait; the manager keeps the address it had.
ProbeSsh(p) ==
    /\ pc[p] = "probe"
    /\ LET answered == vm = "running" /\ guest.address = wait[p].host
           answers  == IF answered THEN wait[p].answers + 1 ELSE 0
       IN  IF answers = 2
           THEN IF wait[p].waits = 1
                THEN Goto(p, "bootstrap") /\ UNCHANGED wait
                ELSE Goto(p, "ssh") /\ Waits(p, mgr[p], wait[p].waits - 1)
           ELSE IF wait[p].polls = Polls
                THEN Goto(p, "failed") /\ UNCHANGED wait
                ELSE /\ Goto(p, "ssh")
                     /\ wait' = [wait EXCEPT ![p].answers = answers, ![p].polls = @ + 1]
    /\ UNCHANGED <<given, format, host, machine, command, mgr, saving, found>>

\* Mutant: the time of the script is counted anew for each of its runs.
BootstrapForever(p) ==
    /\ pc[p] = "bootstrap"
    /\ \/ /\ Reached(p)
          /\ guest' = [guest EXCEPT !.runtime = TRUE]
          /\ Goto(p, "mirrors") /\ UNCHANGED wait
       \/ /\ Goto(p, "ssh") /\ Waits(p, mgr[p], 1)
          /\ UNCHANGED guest
    /\ UNCHANGED <<given, format, host, files, vm, command, mgr, saving, found>>

\* The script, at the address the manager was made with; it is run again, after
\* another wait, for 300 s.
Bootstrap(p) ==
    /\ pc[p] = "bootstrap"
    /\ \/ /\ Reached(p)
          /\ guest' = [guest EXCEPT !.runtime = TRUE]
          /\ Goto(p, "mirrors") /\ UNCHANGED wait
       \/ /\ wait[p].tries < Tries
          /\ Goto(p, "ssh")
          /\ wait' = [wait EXCEPT ![p] = Wait(mgr[p], 1, wait[p].tries + 1)]
          /\ UNCHANGED guest
       \/ /\ wait[p].tries = Tries
          /\ Goto(p, "failed")
          /\ UNCHANGED <<guest, wait>>
    /\ UNCHANGED <<given, format, host, files, vm, command, mgr, saving, found>>

-----------------------------------------------------------------------------
(* Around the commands. *)

\* Ctrl+C, the desktop's timeout, or a PowerShell that ran out of its own.
Killed(p) ==
    /\ pc[p] \notin Resting
    /\ End(p, "killed")
    /\ UNCHANGED <<given, format, records, machine, local>>

\* What has not been synced is lost, and the file that holds it with it.
PowerFailure ==
    /\ records' = [f \in RecordFiles |->
            [records[f] EXCEPT !.value = IF records[f].durable THEN @ ELSE NULL]]
    /\ lock' = NULL
    /\ pc' = [p \in Procs |-> IF pc[p] \in Resting THEN pc[p] ELSE "killed"]
    /\ vm' = IF vm = "running" THEN "off" ELSE vm
    /\ guest' = [guest EXCEPT !.address = NULL]
    /\ UNCHANGED <<given, format, files, local>>

\* The guest restarts, or is found under another address.
GuestMoves ==
    /\ vm = "running"
    /\ VmStarts
    /\ UNCHANGED <<given, format, host, files, pc, local>>

GuestStops ==
    /\ vm = "running"
    /\ VmStops
    /\ UNCHANGED <<given, format, host, files, pc, local>>

\* The operator removes what a creation was refused for, between two commands.
CleanUp ==
    /\ \A p \in Procs : pc[p] \in Resting
    /\ \E p \in Procs : pc[p] = "refused"
    /\ vm' = "absent"
    /\ files' = [f \in Artifacts |-> IF f \in {"image", "prepared"} THEN files[f] ELSE "none"]
    /\ guest' = [address |-> NULL, runtime |-> FALSE, mirrors |-> {}]
    /\ UNCHANGED <<given, format, host, pc, local>>

Init ==
    /\ \E case \in Cases :
            /\ given = case.given /\ format = case.format
            /\ files = case.files /\ vm = case.vm
            /\ guest = [address |-> NULL, runtime |-> FALSE, mirrors |-> {}]
    /\ records = [f \in RecordFiles |->
                    [value |-> IF f = "registry" THEN {} ELSE [host |-> NULL, mirrors |-> {}],
                     durable |-> TRUE]]
    /\ lock = NULL
    /\ pc = [p \in Procs |-> "idle"]
    /\ command = [p \in Procs |-> NULL] /\ mgr = [p \in Procs |-> NULL]
    /\ saving = [p \in Procs |-> NoSave] /\ wait = [p \in Procs |-> NoWait]
    /\ found = [p \in Procs |-> {}]

Step(p) ==
    \/ CreateTemp(p) \/ SyncTemp(p) \/ ReplaceFile(p) \/ WriteFails(p)
    \/ TakeLock(p) \/ LockTimesOut(p) \/ ReadRegistry(p)
    \/ LoadConfig(p) \/ ApplyMirrors(p) \/ MirrorRemove(p)
    \/ EnsureSafe(p) \/ StartDownload(p) \/ FinishDownload(p) \/ VerifyDownload(p) \/ Promote(p)
    \/ StartPrepare(p) \/ FinishPrepare(p) \/ EnsureKey(p) \/ WriteSeed(p) \/ Guard(p)
    \/ StartDisk(p) \/ FinishDisk(p) \/ NewVm(p)
    \/ StartVm(p) \/ StopVm(p) \/ DiscoverIp(p) \/ AskAddress(p) \/ ProbeSsh(p) \/ Bootstrap(p)

Next ==
    \/ \E p \in Procs : Begin(p) \/ Step(p) \/ Killed(p)
    \/ PowerFailure \/ GuestMoves \/ GuestStops \/ CleanUp

Spec == Init /\ [][Next]_vars

\* A command goes on: each call it makes has a timeout, but for tar and the helper
\* that protects the key, of which it is assumed that they end.
FairSpec == Spec /\ \A p \in Procs : WF_vars(Step(p))

-----------------------------------------------------------------------------
(* Properties. *)

Waiting ==
    [host : Addresses \cup {NULL}, answers : 0 .. 1, polls : 0 .. Polls, waits : 0 .. 3, tries : 0 .. Tries]

\* Whoever works with the machine or its files does so from one terminal.
OneTerminal ==
    \A case \in Cases : \E p \in Procs : \A q \in Procs \ {p} :
        \A c \in case.given[q] : c.name \in {"register", "unregister"}

\* A machine that is there has its disk, and what was prepared was verified.
SoundHosts ==
    \A case \in Cases :
        /\ case.vm # "absent" => case.files["disk"] = "good"
        /\ case.files["prepared"] # "bad"

\* Types of the host's records and of the commands' state.
TypeOK ==
    /\ \E case \in Cases : given = case.given /\ format = case.format
    /\ records["registry"].value \in SUBSET Names \cup {NULL}
    /\ records["config"].value \in Config \cup {NULL}
    /\ lock \in Procs \cup {NULL}
    /\ files \in [Artifacts -> Contents]
    /\ vm \in {"absent", "off", "running"}
    /\ guest \in [address : Addresses \cup {NULL}, runtime : BOOLEAN, mirrors : SUBSET Mirrors]
    /\ pc \in [Procs -> Resting \cup Writing \cup Working \cup {"lock", "read", "load"}]
    /\ command \in [Procs -> Command \cup {NULL}]
    /\ mgr \in [Procs -> Config \cup {NULL}]
    /\ \A p \in Procs :
            /\ saving[p].file \in {"registry", "config", NULL}
            /\ saving[p].file = "registry" => saving[p].value \in SUBSET Names
            /\ saving[p].file = "config" => saving[p].value \in Config
            /\ saving[p].next \in {"idle", "done", "mirrors", "seed", "ssh", "probe"}
    /\ found \in [Procs -> SUBSET {"disk", "seed", "seed_iso", "seed_disk", "vm"}]
    /\ wait \in [Procs -> Waiting]

\* atomic_write (types, 45-74): whenever the power fails, both files are whole.
FilesAreWhole == \A f \in RecordFiles : records[f].value # NULL

\* Processes that register and unregister under the lock (cli, 2305-2388;
\* types, 81-123) lose none of each other's changes, whoever is killed.
Registry == INSTANCE ProjectRegistry WITH projects <- records["registry"].value
RegistryIsAtomic == Registry!Spec

\* A machine is made from one whole disk, of the command that made the
\* machine: never from what a killed one has left (hyperv, 13-36, 743-785).
VmDiskIsWhole == vm # "absent" => files["disk"] = "good"

\* Only bytes with the expected digest come under the name of the image or
\* go into a disk (hyperv, 646-727, 1098-1211).
OnlyVerifiedIsUsed ==
    \A p \in Procs :
        /\ command[p] # NULL /\ command[p].name = "init"
        /\ pc[p] \in {"prepare", "preparing", "check_again", "key", "seed", "guard", "copy"}
        => files["image"] = "good" /\ files["prepared"] # "bad"

\* What was finished before is not touched by any later command, but for an
\* archive that is unpacked again (hyperv, 1130-1211, 1223-1270).
NothingIsOverwritten ==
    [][\A f \in Artifacts \ {"partial"} :
            (files[f] = "good" /\ files'[f] # "good" /\ ~CleanUp) => (f = "prepared" /\ format = "tar")]_vars

\* No mirror is active in the guest that the configuration does not list
\* (hyperv, 1373-1407), as long as one command at a time works with it.
GuestMirrorsAreConfigured ==
    records["config"].value # NULL => guest.mirrors \subseteq records["config"].value.mirrors

\* Every command comes to an end, whatever the guest does: all waits and the
\* waits within waits of repair have a time (hyperv, 954-1029, 1272-1340).
CommandsEnd == \A p \in Procs : (pc[p] \notin Resting) ~> (pc[p] \in Resting)

\* README.md:188: `init` goes through, from the image to the runtime; what the
\* guard of the script that creates the machine refuses has been there before.
GuardSparesOwnFiles == \A p \in Procs : pc[p] = "refused" => found[p] # {}
=============================================================================
