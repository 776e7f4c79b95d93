-------------------------- MODULE ProvisionProofs --------------------------
(***************************************************************************)
(* Theorems about Provision, for any number of terminals, projects,        *)
(* mirrors and addresses, and any commands given on any host.              *)
(***************************************************************************)
EXTENDS Provision, TLAPS

RegistryCommands == {"register", "unregister"}
Points == Resting \cup Writing \cup Working \cup {"lock", "read", "load"}

\* The files hold what they must hold, and it has reached the disk.
RecordsOK ==
    /\ records = [f \in RecordFiles |-> [value |-> records[f].value, durable |-> TRUE]]
    /\ records["registry"].value \in SUBSET Names
    /\ records["config"].value \in Config

\* A registry about to be written is the present one with one name more or less.
Transaction(p) ==
    /\ lock = p /\ saving[p].next = "done"
    /\ \E n \in Names : saving[p].value \in {records["registry"].value \cup {n},
                                             records["registry"].value \ {n}}

SavingOK(p) ==
    /\ saving[p] = [file |-> saving[p].file, value |-> saving[p].value,
                    synced |-> saving[p].synced, next |-> saving[p].next]
    /\ saving[p].file \in RecordFiles \cup {NULL}
    /\ saving[p].file = "registry" => saving[p].value \in SUBSET Names
    /\ saving[p].file = "config" => saving[p].value \in Config
    /\ saving[p].next \in {"idle", "done", "mirrors", "seed", "ssh", "probe"}

\* What a command has in hand, point by point.
ProcOK(p) ==
    /\ pc[p] # "idle" => command[p] \in given[p]
    /\ pc[p] \in {"lock", "read"} => command[p].name \in RegistryCommands
    /\ pc[p] = "read" => lock = p
    /\ pc[p] \in Working \cup {"load"} => command[p].name \notin RegistryCommands
    /\ pc[p] \in Working => mgr[p] \in Config
    /\ pc[p] \in {"ssh", "probe"} => wait[p].waits # 0
    /\ pc[p] \in Writing /\ saving[p].file = "registry" => Transaction(p)
    /\ pc[p] \in Writing /\ saving[p].file # "registry" =>
            /\ saving[p].file = "config"
            /\ mgr[p] \in Config
            /\ command[p].name \notin RegistryCommands
            /\ saving[p].next # "idle"
            /\ saving[p].next \in {"ssh", "probe"} => wait[p].waits # 0
    /\ pc[p] = "replace" => saving[p].synced

CoreInv ==
    /\ \E case \in Cases : given = case.given /\ format = case.format
    /\ pc \in [Procs -> Points]
    /\ lock \in Procs \cup {NULL}
    /\ command \in [Procs -> Command \cup {NULL}]
    /\ mgr \in [Procs -> Config \cup {NULL}]
    /\ saving = [p \in Procs |-> saving[p]]
    /\ wait \in [Procs -> Waiting]
    /\ RecordsOK
    /\ \A p \in Procs : SavingOK(p) /\ ProcOK(p)

MachineOK ==
    /\ files \in [Artifacts -> Contents]
    /\ vm \in {"absent", "off", "running"}
    /\ guest \in [address : Addresses \cup {NULL}, runtime : BOOLEAN, mirrors : SUBSET Mirrors]
    /\ found \in [Procs -> SUBSET {"disk", "seed", "seed_iso", "seed_disk", "vm"}]

IInv == CoreInv /\ MachineOK

-----------------------------------------------------------------------------
(* Commands and the frames that most steps fit. *)

\* What a terminal is given are commands with an argument of their kind.
LEMMA GivenTyped ==
    ASSUME CoreInv, NEW p \in Procs, NEW c \in given[p]
    PROVE  /\ c \in Command
           /\ c.name \in RegistryCommands => c.arg \in Names
           /\ c.name \in {"mirror_set", "mirror_remove"} => c.arg \in Mirrors
           /\ c.name = "configure" => c.arg \in Addresses
<1>1. PICK case \in Cases : given = case.given
    BY DEF CoreInv
<1>2. case.given \in [Procs -> SUBSET Command]
    BY ProvisionAssumption
<1>3. c \in case.given[p] /\ c \in Command
    BY <1>1, <1>2
<1> QED
    BY <1>3, ProvisionAssumption DEF RegistryCommands

\* A step of p that moves on with a configuration in hand, and writes nothing.
LEMMA Moves ==
    ASSUME CoreInv, NEW p \in Procs, pc[p] \in Working,
           NEW point \in Working \cup (Resting \ {"idle"}), Goto(p, point),
           UNCHANGED <<given, format, records, lock, command, mgr, saving>>,
           wait' \in [Procs -> Waiting], \A q \in Procs \ {p} : wait'[q] = wait[q],
           point \in {"ssh", "probe"} => wait'[p].waits # 0
    PROVE  CoreInv'
<1>1. pc' \in [Procs -> Points]
    BY DEF CoreInv, Goto, Points
<1>2. pc'[p] = point /\ \A q \in Procs \ {p} : pc'[q] = pc[q]
    BY DEF CoreInv, Goto
<1>3. RecordsOK' /\ \A q \in Procs : SavingOK(q)'
    BY DEF CoreInv, RecordsOK, SavingOK
<1>4. ProcOK(p)'
    <2>1. point \notin {"idle", "lock", "read", "load"} \cup Writing
        BY DEF Working, Resting, Writing
    <2>2. pc[p] # "idle"
        BY DEF Working
    <2> QED
        BY <1>2, <2>1, <2>2 DEF CoreInv, ProcOK, Writing
<1>5. \A q \in Procs \ {p} : ProcOK(q)'
    BY <1>2 DEF CoreInv, ProcOK, Transaction
<1> QED
    BY <1>1, <1>3, <1>4, <1>5 DEF CoreInv

\* A step of p that begins to write a configuration.
LEMMA Saves ==
    ASSUME CoreInv, NEW p \in Procs, pc[p] \in Working \cup {"load"},
           NEW cfg \in Config, NEW next \in {"done", "mirrors", "seed", "ssh", "probe"},
           Save(p, "config", cfg, next), mgr' \in [Procs -> Config \cup {NULL}], mgr'[p] \in Config,
           \A q \in Procs \ {p} : mgr'[q] = mgr[q] /\ wait'[q] = wait[q],
           wait' \in [Procs -> Waiting],
           next \in {"ssh", "probe"} => wait'[p].waits # 0,
           UNCHANGED <<given, format, records, lock, command>>
    PROVE  CoreInv'
<1>1. pc' \in [Procs -> Points]
    BY DEF CoreInv, Save, Goto, Points, Writing
<1>2. pc'[p] = "write" /\ \A q \in Procs \ {p} : pc'[q] = pc[q]
    BY DEF CoreInv, Save, Goto
<1>3. /\ saving' = [q \in Procs |-> saving'[q]]
      /\ saving'[p] = [file |-> "config", value |-> cfg, synced |-> FALSE, next |-> next]
      /\ \A q \in Procs \ {p} : saving'[q] = saving[q]
    BY DEF CoreInv, Save
<1>4. RecordsOK' /\ \A q \in Procs : SavingOK(q)'
    <2>1. RecordsOK'
        BY DEF CoreInv, RecordsOK
    <2>2. SavingOK(p)'
        <3>1. /\ saving'[p].file = "config" /\ saving'[p].value = cfg
              /\ saving'[p].synced = FALSE /\ saving'[p].next = next
            BY <1>3
        <3> QED
            BY <1>3, <3>1 DEF SavingOK, RecordFiles
    <2>3. ASSUME NEW q \in Procs \ {p} PROVE SavingOK(q)'
        <3>1. SavingOK(q) /\ saving'[q] = saving[q]
            BY <1>3 DEF CoreInv
        <3> QED
            BY <3>1 DEF SavingOK
    <2> QED
        BY <2>1, <2>2, <2>3
<1>5. ProcOK(p)'
    <2>1. pc[p] # "idle" /\ command[p].name \notin RegistryCommands /\ command[p] \in given[p]
        BY DEF CoreInv, ProcOK, Working
    <2> QED
        BY <1>2, <1>3, <2>1 DEF ProcOK, Working, Writing
<1>6. \A q \in Procs \ {p} : ProcOK(q)'
    BY <1>2, <1>3 DEF CoreInv, ProcOK, Transaction
<1> QED
    BY <1>1, <1>3, <1>4, <1>5, <1>6 DEF CoreInv

\* A step after which p rests, the lock given back; who else has it keeps it.
LEMMA Ends ==
    ASSUME CoreInv, NEW p \in Procs, pc[p] \notin Resting,
           NEW outcome \in Resting \ {"idle"}, End(p, outcome),
           UNCHANGED <<given, format, records, command, mgr, saving, wait>>
    PROVE  CoreInv'
<1>1. pc' \in [Procs -> Points]
    BY DEF CoreInv, End, Goto, Points
<1>2. pc'[p] = outcome /\ \A q \in Procs \ {p} : pc'[q] = pc[q]
    BY DEF CoreInv, End, Goto
<1>3. /\ lock' \in Procs \cup {NULL}
      /\ \A q \in Procs \ {p} : lock = q => lock' = q
    BY DEF CoreInv, End
<1>4. RecordsOK' /\ \A q \in Procs : SavingOK(q)'
    BY DEF CoreInv, RecordsOK, SavingOK
<1>5. ProcOK(p)'
    <2>1. outcome \notin {"idle", "lock", "read", "load"} \cup Writing \cup Working
        BY DEF Working, Resting, Writing
    <2>2. pc[p] # "idle"
        BY DEF Resting
    <2> QED
        BY <1>2, <2>1, <2>2 DEF CoreInv, ProcOK, Writing, Working
<1>6. \A q \in Procs \ {p} : ProcOK(q)'
    BY <1>2, <1>3 DEF CoreInv, ProcOK, Transaction
<1> QED
    BY <1>1, <1>3, <1>4, <1>5, <1>6 DEF CoreInv

-----------------------------------------------------------------------------
(* Steps of a write and of the registry. *)

\* A transaction under way is the present one, and its value is a registry.
LEMMA WriteHolds ==
    ASSUME CoreInv, NEW p \in Procs, pc[p] \in Writing
    PROVE  /\ pc[p] # "idle" /\ command[p] \in given[p]
           /\ saving[p].file \in RecordFiles
           /\ saving[p].file = "registry" => saving[p].value \in SUBSET Names
           /\ saving[p].file = "config" => saving[p].value \in Config
BY DEF CoreInv, ProcOK, SavingOK, RecordFiles, Writing

LEMMA CreateTempStep ==
    ASSUME IInv, NEW p \in Procs, CreateTemp(p)
    PROVE  IInv'
<1> USE DEF CreateTemp, host, machine, local
<1>1. pc'[p] = "sync" /\ \A q \in Procs \ {p} : pc'[q] = pc[q]
    BY DEF IInv, CoreInv, Goto
<1>2. pc' \in [Procs -> Points]
    BY DEF IInv, CoreInv, Goto, Points, Writing
<1>3. RecordsOK' /\ \A q \in Procs : SavingOK(q)'
    BY DEF IInv, CoreInv, RecordsOK, SavingOK
<1>4. ProcOK(p)'
    BY <1>1 DEF IInv, CoreInv, ProcOK, Transaction, Writing, Working
<1>5. \A q \in Procs \ {p} : ProcOK(q)'
    BY <1>1 DEF IInv, CoreInv, ProcOK, Transaction
<1>6. CoreInv'
    BY <1>2, <1>3, <1>4, <1>5 DEF IInv, CoreInv
<1> QED
    BY <1>6 DEF IInv, MachineOK

LEMMA SyncTempStep ==
    ASSUME IInv, NEW p \in Procs, SyncTemp(p)
    PROVE  IInv'
<1> USE DEF SyncTemp, host, machine
<1>1. pc'[p] = "replace" /\ \A q \in Procs \ {p} : pc'[q] = pc[q]
    BY DEF IInv, CoreInv, Goto
<1>2. pc' \in [Procs -> Points]
    BY DEF IInv, CoreInv, Goto, Points, Writing
<1>3. /\ saving' = [q \in Procs |-> saving'[q]]
      /\ saving'[p] = [file |-> saving[p].file, value |-> saving[p].value, synced |-> TRUE,
                       next |-> saving[p].next]
      /\ \A q \in Procs \ {p} : saving'[q] = saving[q]
    <2>1. saving[p] = [file |-> saving[p].file, value |-> saving[p].value,
                       synced |-> saving[p].synced, next |-> saving[p].next]
        BY DEF IInv, CoreInv, SavingOK
    <2>2. saving = [q \in Procs |-> saving[q]]
        BY DEF IInv, CoreInv
    <2> QED
        BY <2>1, <2>2
<1>4. RecordsOK' /\ \A q \in Procs : SavingOK(q)'
    <2>1. SavingOK(p)'
        <3>1. /\ saving'[p].file = saving[p].file /\ saving'[p].value = saving[p].value
              /\ saving'[p].next = saving[p].next /\ saving'[p].synced = TRUE
            BY <1>3
        <3>2. SavingOK(p)
            BY DEF IInv, CoreInv
        <3> QED
            BY <1>3, <3>1, <3>2 DEF SavingOK
    <2>2. RecordsOK'
        BY DEF IInv, CoreInv, RecordsOK
    <2>3. ASSUME NEW q \in Procs \ {p} PROVE SavingOK(q)'
        <3>1. SavingOK(q) /\ saving'[q] = saving[q]
            BY <1>3 DEF IInv, CoreInv
        <3> QED
            BY <3>1 DEF SavingOK
    <2> QED
        BY <2>1, <2>2, <2>3
<1>5. ProcOK(p)'
    <2>1. pc[p] \in Writing /\ "replace" \in Writing /\ "replace" \notin Working \cup {"lock", "read", "load"}
        BY DEF Writing, Working
    <2>2. /\ saving'[p].file = saving[p].file /\ saving'[p].value = saving[p].value
          /\ saving'[p].next = saving[p].next /\ saving'[p].synced
        BY <1>3
    <2>3. ProcOK(p)
        BY DEF IInv, CoreInv
    <2> QED
        BY <1>1, <2>1, <2>2, <2>3 DEF ProcOK, Transaction, Writing
<1>6. \A q \in Procs \ {p} : ProcOK(q)'
    BY <1>1, <1>3 DEF IInv, CoreInv, ProcOK, Transaction
<1>7. CoreInv'
    BY <1>2, <1>3, <1>4, <1>5, <1>6 DEF IInv, CoreInv
<1> QED
    BY <1>7 DEF IInv, MachineOK

\* What ReplaceFile puts in the place of the file.
LEMMA Replaced ==
    ASSUME CoreInv, NEW p \in Procs, ReplaceFile(p)
    PROVE  /\ records' = [f \in RecordFiles |-> [value |-> records'[f].value, durable |-> TRUE]]
           /\ records'[saving[p].file].value = saving[p].value
           /\ \A f \in RecordFiles \ {saving[p].file} : records'[f] = records[f]
<1>1. saving[p].file \in RecordFiles /\ saving[p].synced
    BY WriteHolds DEF CoreInv, ReplaceFile, ProcOK, Writing
<1>2. records = [f \in RecordFiles |-> [value |-> records[f].value, durable |-> TRUE]]
    BY DEF CoreInv, RecordsOK
<1>3. records' = [records EXCEPT ![saving[p].file] = [value |-> saving[p].value, durable |-> saving[p].synced]]
    BY DEF ReplaceFile
<1>4. saving[p].synced = TRUE
    <2>1. pc[p] = "replace" /\ ProcOK(p)
        BY DEF CoreInv, ReplaceFile
    <2> QED
        BY <2>1, <1>1
<1> QED
    BY <1>1, <1>2, <1>3, <1>4

LEMMA ReplaceFileStep ==
    ASSUME IInv, NEW p \in Procs, ReplaceFile(p)
    PROVE  IInv'
<1> USE DEF machine, local
<1>0. CoreInv /\ pc[p] = "replace" /\ UNCHANGED <<given, format, machine, local>>
    BY DEF IInv, ReplaceFile
<1>1. pc'[p] = saving[p].next /\ \A q \in Procs \ {p} : pc'[q] = pc[q]
    BY <1>0 DEF CoreInv, ReplaceFile, End, Goto
<1>2. saving[p].next \in {"done", "mirrors", "seed", "ssh", "probe"}
    BY <1>0 DEF CoreInv, ProcOK, SavingOK, Transaction, Writing
<1>3. pc' \in [Procs -> Points]
    BY <1>0, <1>2 DEF CoreInv, ReplaceFile, End, Goto, Points, Resting, Working
<1>4. /\ lock' \in Procs \cup {NULL}
      /\ \A q \in Procs \ {p} : lock = q => lock' = q
    BY <1>0 DEF CoreInv, ReplaceFile, End
<1>5. RecordsOK'
    <2>1. /\ saving[p].file \in {"registry", "config"}
          /\ saving[p].file = "registry" => saving[p].value \in SUBSET Names
          /\ saving[p].file = "config" => saving[p].value \in Config
        BY <1>0, WriteHolds DEF RecordFiles, Writing
    <2>2. RecordsOK
        BY <1>0 DEF CoreInv
    <2>3. records'["registry"].value \in SUBSET Names
        BY <1>0, <2>1, <2>2, Replaced DEF RecordsOK, RecordFiles
    <2>4. records'["config"].value \in Config
        BY <1>0, <2>1, <2>2, Replaced DEF RecordsOK, RecordFiles
    <2> QED
        BY <1>0, <2>3, <2>4, Replaced DEF RecordsOK
<1>6. \A q \in Procs : SavingOK(q)'
    BY <1>0 DEF CoreInv, SavingOK
<1>7. ProcOK(p)'
    <2>1. saving[p].next # "done" => saving[p].file = "config" /\ mgr[p] \in Config
                                        /\ command[p].name \notin RegistryCommands
        BY <1>0 DEF CoreInv, ProcOK, Transaction, Writing
    <2>2. saving[p].next \in {"ssh", "probe"} => wait[p].waits # 0
        BY <1>0, <2>1 DEF CoreInv, ProcOK, Writing
    <2>3. command[p] \in given[p]
        BY <1>0, WriteHolds DEF Writing
    <2>4. saving[p].next \notin Writing \cup {"idle", "load", "lock", "read"}
        BY <1>2 DEF Writing
    <2>5. saving[p].next = "done" => saving[p].next \notin Working
        BY DEF Working
    <2> QED
        BY <1>0, <1>1, <1>2, <2>1, <2>2, <2>3, <2>4, <2>5 DEF ProcOK, Writing
<1>8. ASSUME NEW q \in Procs \ {p} PROVE ProcOK(q)'
    <2>1. CASE pc[q] \in Writing /\ saving[q].file = "registry"
        <3>1. lock = q /\ Transaction(q)
            BY <1>0, <2>1 DEF CoreInv, ProcOK, Transaction
        <3>2. saving[p].file # "registry"
            BY <1>0, <3>1 DEF CoreInv, ProcOK, Transaction, Writing
        <3>3. records'["registry"] = records["registry"]
            BY <1>0, <3>2, Replaced DEF RecordFiles
        <3>4. Transaction(q)'
            BY <1>0, <1>4, <3>1, <3>3 DEF Transaction
        <3> QED
            BY <1>0, <1>1, <1>4, <2>1, <3>4 DEF CoreInv, ProcOK
    <2>2. CASE ~(pc[q] \in Writing /\ saving[q].file = "registry")
        BY <1>0, <1>1, <1>4, <2>2 DEF CoreInv, ProcOK
    <2> QED
        BY <2>1, <2>2
<1>9. CoreInv'
    BY <1>0, <1>3, <1>4, <1>5, <1>6, <1>7, <1>8 DEF CoreInv
<1> QED
    BY <1>0, <1>9 DEF IInv, MachineOK

LEMMA WriteFailsStep ==
    ASSUME IInv, NEW p \in Procs, WriteFails(p)
    PROVE  IInv'
<1> USE DEF WriteFails, machine, local
<1>1. pc[p] \notin Resting /\ "failed" \in Resting \ {"idle"}
    BY DEF Writing, Resting
<1>2. CoreInv'
    BY <1>1, Ends DEF IInv
<1> QED
    BY <1>2 DEF IInv, MachineOK

LEMMA TakeLockStep ==
    ASSUME IInv, NEW p \in Procs, TakeLock(p)
    PROVE  IInv'
<1> USE DEF TakeLock, machine, local
<1>1. pc'[p] = "read" /\ \A q \in Procs \ {p} : pc'[q] = pc[q]
    BY DEF IInv, CoreInv, Goto
<1>2. pc' \in [Procs -> Points]
    BY DEF IInv, CoreInv, Goto, Points
<1>3. RecordsOK' /\ \A q \in Procs : SavingOK(q)'
    BY DEF IInv, CoreInv, RecordsOK, SavingOK
<1>4. ProcOK(p)'
    BY <1>1 DEF IInv, CoreInv, ProcOK, Writing, Working
<1>5. \A q \in Procs : lock # q
    BY ProvisionAssumption
<1>6. \A q \in Procs \ {p} : ProcOK(q)'
    BY <1>1, <1>5 DEF IInv, CoreInv, ProcOK, Transaction
<1>7. CoreInv'
    BY <1>2, <1>3, <1>4, <1>6 DEF IInv, CoreInv
<1> QED
    BY <1>7 DEF IInv, MachineOK

LEMMA LockTimesOutStep ==
    ASSUME IInv, NEW p \in Procs, LockTimesOut(p)
    PROVE  IInv'
<1> USE DEF LockTimesOut, host, machine, local
<1>1. pc'[p] = "failed" /\ \A q \in Procs \ {p} : pc'[q] = pc[q]
    BY DEF IInv, CoreInv, Goto
<1>2. pc' \in [Procs -> Points]
    BY DEF IInv, CoreInv, Goto, Points, Resting
<1>3. RecordsOK' /\ \A q \in Procs : SavingOK(q)'
    BY DEF IInv, CoreInv, RecordsOK, SavingOK
<1>4. ProcOK(p)'
    BY <1>1 DEF IInv, CoreInv, ProcOK, Writing, Working
<1>5. \A q \in Procs \ {p} : ProcOK(q)'
    BY <1>1 DEF IInv, CoreInv, ProcOK, Transaction
<1>6. CoreInv'
    BY <1>2, <1>3, <1>4, <1>5 DEF IInv, CoreInv
<1> QED
    BY <1>6 DEF IInv, MachineOK

LEMMA ReadRegistryStep ==
    ASSUME IInv, NEW p \in Procs, ReadRegistry(p)
    PROVE  IInv'
<1> USE DEF machine, local
<1> DEFINE names == records["registry"].value
           name  == command[p].arg
<1>0. /\ CoreInv /\ pc[p] = "read" /\ lock = p /\ command[p] \in given[p] /\ ProcOK(p)
      /\ UNCHANGED <<given, format, records, machine, command, mgr, wait, found>>
    BY DEF IInv, CoreInv, ReadRegistry, ProcOK
<1>1. name \in Names
    BY <1>0, GivenTyped DEF ProcOK
<1>2. ASSUME NEW outcome \in {"failed", "done"}, End(p, outcome), UNCHANGED saving
      PROVE  CoreInv'
    BY <1>0, <1>2, Ends DEF Resting
<1>3. ASSUME NEW value \in {names \cup {name}, names \ {name}},
             Save(p, "registry", value, "done"), UNCHANGED lock
      PROVE  CoreInv'
    <2>1. pc'[p] = "write" /\ \A q \in Procs \ {p} : pc'[q] = pc[q]
        BY <1>0, <1>3 DEF CoreInv, Save, Goto
    <2>2. pc' \in [Procs -> Points]
        BY <1>0, <1>3 DEF CoreInv, Save, Goto, Points, Writing
    <2>3. /\ saving' = [q \in Procs |-> saving'[q]]
          /\ saving'[p] = [file |-> "registry", value |-> value, synced |-> FALSE, next |-> "done"]
          /\ \A q \in Procs \ {p} : saving'[q] = saving[q]
        BY <1>0, <1>3 DEF CoreInv, Save
    <2>4. value \in SUBSET Names
        BY <1>0, <1>1, <1>3 DEF CoreInv, RecordsOK
    <2>5. RecordsOK' /\ \A q \in Procs : SavingOK(q)'
        BY <1>0, <2>3, <2>4 DEF CoreInv, RecordsOK, SavingOK, RecordFiles
    <2>6. Transaction(p)'
        BY <1>0, <1>1, <1>3, <2>3 DEF Transaction
    <2>7. ProcOK(p)'
        BY <1>0, <2>1, <2>3, <2>6 DEF ProcOK, Writing, Working
    <2>8. \A q \in Procs \ {p} : ProcOK(q)'
        BY <1>0, <1>3, <2>1, <2>3 DEF CoreInv, ProcOK, Transaction
    <2> QED
        BY <1>0, <1>3, <2>2, <2>3, <2>5, <2>7, <2>8 DEF CoreInv
<1>4. CoreInv'
    BY <1>2, <1>3 DEF ReadRegistry
<1> QED
    BY <1>0, <1>4 DEF IInv, MachineOK

-----------------------------------------------------------------------------
(* Steps that move on with a configuration in hand. *)

\* Moves for a step that waits for nothing.
LEMMA MovesOn ==
    ASSUME CoreInv, NEW p \in Procs, pc[p] \in Working,
           NEW point \in (Working \ {"ssh", "probe"}) \cup (Resting \ {"idle"}), Goto(p, point),
           UNCHANGED <<given, format, host, local>>
    PROVE  CoreInv'
<1>1. wait' \in [Procs -> Waiting]
    BY DEF CoreInv, local
<1> QED
    BY <1>1, Moves DEF host, local, Resting

LEMMA StartDownloadStep ==
    ASSUME IInv, NEW p \in Procs, StartDownload(p)
    PROVE  IInv'
<1>1. \E point \in {"downloading", "prepare", "done", "failed"} : Goto(p, point)
    BY DEF StartDownload, Downloaded
<1>2. pc[p] \in Working /\ UNCHANGED <<given, format, host, local>>
    BY DEF StartDownload, Working, host, local
<1>3. CoreInv'
    BY <1>1, <1>2, MovesOn DEF IInv, Working, Resting
<1>4. MachineOK'
    BY DEF IInv, MachineOK, StartDownload, Put, local, Artifacts, Contents
<1> QED
    BY <1>3, <1>4 DEF IInv

LEMMA FinishDownloadStep ==
    ASSUME IInv, NEW p \in Procs, FinishDownload(p)
    PROVE  IInv'
<1>1. \E point \in {"verify", "failed"} : Goto(p, point)
    BY DEF FinishDownload
<1>2. pc[p] \in Working /\ UNCHANGED <<given, format, host, local>>
    BY DEF FinishDownload, Working, host, local
<1>3. CoreInv'
    BY <1>1, <1>2, MovesOn DEF IInv, Working, Resting
<1>4. MachineOK'
    BY DEF IInv, MachineOK, FinishDownload, Put, local, Artifacts, Contents
<1> QED
    BY <1>3, <1>4 DEF IInv

LEMMA VerifyDownloadStep ==
    ASSUME IInv, NEW p \in Procs, VerifyDownload(p)
    PROVE  IInv'
<1>1. \E point \in {"promote", "failed"} : Goto(p, point)
    BY DEF VerifyDownload
<1>2. pc[p] \in Working /\ UNCHANGED <<given, format, host, local>>
    BY DEF VerifyDownload, Working, host, local
<1>3. CoreInv'
    BY <1>1, <1>2, MovesOn DEF IInv, Working, Resting
<1>4. MachineOK'
    BY DEF IInv, MachineOK, VerifyDownload, Put, local, Artifacts, Contents
<1> QED
    BY <1>3, <1>4 DEF IInv

LEMMA PromoteStep ==
    ASSUME IInv, NEW p \in Procs, Promote(p)
    PROVE  IInv'
<1>1. \E point \in {"prepare", "done"} : Goto(p, point)
    BY DEF Promote, Downloaded
<1>2. pc[p] \in Working /\ UNCHANGED <<given, format, host, local>>
    BY DEF Promote, Working, host, local
<1>3. CoreInv'
    BY <1>1, <1>2, MovesOn DEF IInv, Working, Resting
<1>4. MachineOK'
    BY DEF IInv, MachineOK, Promote, local, Artifacts, Contents
<1> QED
    BY <1>3, <1>4 DEF IInv

LEMMA StartPrepareStep ==
    ASSUME IInv, NEW p \in Procs, StartPrepare(p)
    PROVE  IInv'
<1>1. \E point \in {"check_again", "failed", "preparing"} : Goto(p, point)
    BY DEF StartPrepare
<1>2. pc[p] \in Working /\ UNCHANGED <<given, format, host, local>>
    BY DEF StartPrepare, Working, host, local
<1>3. CoreInv'
    BY <1>1, <1>2, MovesOn DEF IInv, Working, Resting
<1>4. MachineOK'
    BY DEF IInv, MachineOK, StartPrepare, Put, local, Artifacts, Contents
<1> QED
    BY <1>3, <1>4 DEF IInv

LEMMA FinishPrepareStep ==
    ASSUME IInv, NEW p \in Procs, FinishPrepare(p)
    PROVE  IInv'
<1>1. \E point \in {"check_again", "failed"} : Goto(p, point)
    BY DEF FinishPrepare
<1>2. pc[p] \in Working /\ UNCHANGED <<given, format, host, local>>
    BY DEF FinishPrepare, Working, host, local
<1>3. CoreInv'
    BY <1>1, <1>2, MovesOn DEF IInv, Working, Resting
<1>4. MachineOK'
    BY DEF IInv, MachineOK, FinishPrepare, Put, local, Artifacts, Contents
<1> QED
    BY <1>3, <1>4 DEF IInv

LEMMA WriteSeedStep ==
    ASSUME IInv, NEW p \in Procs, WriteSeed(p)
    PROVE  IInv'
<1>1. \E point \in {"seed_iso", "seed_disk", "guard", "failed"} : Goto(p, point)
    BY DEF WriteSeed
<1>2. pc[p] \in Working /\ UNCHANGED <<given, format, host, local>>
    BY DEF WriteSeed, Working, host, local
<1>3. CoreInv'
    BY <1>1, <1>2, MovesOn DEF IInv, Working, Resting
<1>4. MachineOK'
    BY DEF IInv, MachineOK, WriteSeed, Put, local, Artifacts, Contents
<1> QED
    BY <1>3, <1>4 DEF IInv

LEMMA StartDiskStep ==
    ASSUME IInv, NEW p \in Procs, StartDisk(p)
    PROVE  IInv'
<1>1. \E point \in {"copying", "failed", "new"} : Goto(p, point)
    BY DEF StartDisk
<1>2. pc[p] \in Working /\ UNCHANGED <<given, format, host, local>>
    BY DEF StartDisk, Working, host, local
<1>3. CoreInv'
    BY <1>1, <1>2, MovesOn DEF IInv, Working, Resting
<1>4. MachineOK'
    BY DEF IInv, MachineOK, StartDisk, Put, local, Artifacts, Contents
<1> QED
    BY <1>3, <1>4 DEF IInv

LEMMA FinishDiskStep ==
    ASSUME IInv, NEW p \in Procs, FinishDisk(p)
    PROVE  IInv'
<1>1. \E point \in {"new", "failed"} : Goto(p, point)
    BY DEF FinishDisk
<1>2. pc[p] \in Working /\ UNCHANGED <<given, format, host, local>>
    BY DEF FinishDisk, Working, host, local
<1>3. CoreInv'
    BY <1>1, <1>2, MovesOn DEF IInv, Working, Resting
<1>4. MachineOK'
    BY DEF IInv, MachineOK, FinishDisk, Put, local, Artifacts, Contents
<1> QED
    BY <1>3, <1>4 DEF IInv

LEMMA EnsureSafeStep ==
    ASSUME IInv, NEW p \in Procs, EnsureSafe(p)
    PROVE  IInv'
<1>1. \E point \in {"refused", "key", "download", "guard"} : Goto(p, point)
    BY DEF EnsureSafe
<1>2. pc[p] \in Working /\ UNCHANGED <<given, format, host, local>>
    BY DEF EnsureSafe, Working, host, local
<1>3. CoreInv'
    BY <1>1, <1>2, MovesOn DEF IInv, Working, Resting
<1>4. MachineOK'
    BY DEF IInv, MachineOK, EnsureSafe, local, machine
<1> QED
    BY <1>3, <1>4 DEF IInv

LEMMA GuardStep ==
    ASSUME IInv, NEW p \in Procs, Guard(p)
    PROVE  IInv'
<1>1. \E point \in {"refused", "copy"} : Goto(p, point)
    BY DEF Guard
<1>2. pc[p] \in Working /\ UNCHANGED <<given, format, host, local>>
    BY DEF Guard, Working, host, local
<1>3. CoreInv'
    BY <1>1, <1>2, MovesOn DEF IInv, Working, Resting
<1>4. MachineOK'
    BY DEF IInv, MachineOK, Guard, local, machine
<1> QED
    BY <1>3, <1>4 DEF IInv

LEMMA NewVmStep ==
    ASSUME IInv, NEW p \in Procs, NewVm(p)
    PROVE  IInv'
<1>1. \E point \in {"done", "failed"} : Goto(p, point)
    BY DEF NewVm
<1>2. pc[p] \in Working /\ UNCHANGED <<given, format, host, local>>
    BY DEF NewVm, Working, host, local
<1>3. CoreInv'
    BY <1>1, <1>2, MovesOn DEF IInv, Working, Resting
<1>4. MachineOK'
    <2>1. guest' \in [address : Addresses \cup {NULL}, runtime : BOOLEAN, mirrors : SUBSET Mirrors]
        <3>1. guest' \in {guest, [address |-> NULL, runtime |-> FALSE, mirrors |-> {}]}
            BY DEF NewVm
        <3>2. [address |-> NULL, runtime |-> FALSE, mirrors |-> {}] \in
                    [address : Addresses \cup {NULL}, runtime : BOOLEAN, mirrors : SUBSET Mirrors]
            OBVIOUS
        <3> QED
            BY <3>1, <3>2 DEF IInv, MachineOK
    <2> QED
        BY <2>1 DEF IInv, MachineOK, NewVm, local
<1> QED
    BY <1>3, <1>4 DEF IInv

LEMMA StopVmStep ==
    ASSUME IInv, NEW p \in Procs, StopVm(p)
    PROVE  IInv'
<1>1. \E point \in {"done", "failed"} : Goto(p, point)
    BY DEF StopVm
<1>2. pc[p] \in Working /\ UNCHANGED <<given, format, host, local>>
    BY DEF StopVm, Working, host, local
<1>3. CoreInv'
    BY <1>1, <1>2, MovesOn DEF IInv, Working, Resting
<1>4. MachineOK'
    BY DEF IInv, MachineOK, StopVm, VmStops, local, Artifacts, Contents
<1> QED
    BY <1>3, <1>4 DEF IInv

LEMMA ApplyMirrorsStep ==
    ASSUME IInv, NEW p \in Procs, ApplyMirrors(p)
    PROVE  IInv'
<1>1. \E point \in {"done", "failed"} : Goto(p, point)
    BY DEF ApplyMirrors
<1>2. pc[p] \in Working /\ UNCHANGED <<given, format, host, local>>
    BY DEF ApplyMirrors, Working, host, local
<1>3. CoreInv'
    BY <1>1, <1>2, MovesOn DEF IInv, Working, Resting
<1>4. MachineOK'
    <2>1. mgr[p].mirrors \in SUBSET Mirrors
        BY <1>2 DEF IInv, CoreInv, ProcOK, Config
    <2>2. guest' \in [address : Addresses \cup {NULL}, runtime : BOOLEAN, mirrors : SUBSET Mirrors]
        BY <2>1 DEF IInv, MachineOK, ApplyMirrors
    <2> QED
        BY <2>2 DEF IInv, MachineOK, ApplyMirrors, local
<1> QED
    BY <1>3, <1>4 DEF IInv

-----------------------------------------------------------------------------
(* Steps that write the configuration, power the machine or wait. *)

\* A configuration and a guest with other fields are still of their type.
LEMMA Fields ==
    ASSUME NEW cfg \in Config
    PROVE  /\ \A a \in Addresses : [cfg EXCEPT !.host = a] \in Config
           /\ \A m \in Mirrors : [cfg EXCEPT !.mirrors = @ \cup {m}] \in Config
           /\ \A m : Without(cfg, m) \in Config
           /\ cfg.host \in Addresses \cup {NULL} /\ cfg.mirrors \in SUBSET Mirrors
BY DEF Config, Without

\* A new wait of a command is typed, and the others are as they were.
LEMMA WaitsTyped ==
    ASSUME CoreInv, NEW p \in Procs, NEW cfg \in Config, NEW n \in 1 .. 3, Waits(p, cfg, n)
    PROVE  /\ wait' \in [Procs -> Waiting] /\ wait'[p].waits = n /\ n # 0
           /\ \A q \in Procs \ {p} : wait'[q] = wait[q]
<1>1. wait \in [Procs -> Waiting] /\ wait[p] \in Waiting
    BY DEF CoreInv
<1>2. wait[p].tries \in 0 .. Tries /\ 0 \in 0 .. Polls
    BY <1>1, ProvisionAssumption DEF Waiting
<1>3. cfg.host \in Addresses \cup {NULL} /\ n \in 0 .. 3 /\ 0 \in 0 .. 1
    BY DEF Config
<1>4. Wait(cfg, n, wait[p].tries) \in Waiting /\ Wait(cfg, n, wait[p].tries).waits = n
    BY <1>2, <1>3 DEF Waiting, Wait
<1>5. wait' = [wait EXCEPT ![p] = Wait(cfg, n, wait[p].tries)]
    BY DEF Waits
<1> QED
    BY <1>1, <1>4, <1>5

LEMMA LoadConfigStep ==
    ASSUME IInv, NEW p \in Procs, LoadConfig(p)
    PROVE  IInv'
<1> USE DEF host, machine, local
<1> DEFINE cfg == records["config"].value
           name == command[p].name
           arg == command[p].arg
           changed == IF name = "configure" THEN [cfg EXCEPT !.host = arg]
                      ELSE [cfg EXCEPT !.mirrors = @ \cup {arg}]
<1>0. /\ CoreInv /\ pc[p] = "load" /\ command[p] \in given[p] /\ name \notin RegistryCommands
      /\ cfg \in Config
      /\ UNCHANGED <<given, format, records, lock, machine, command, found>>
    BY DEF IInv, CoreInv, LoadConfig, ProcOK, RecordsOK
<1>1. ASSUME cfg = NULL, Goto(p, "failed"), UNCHANGED <<mgr, saving, wait>>
      PROVE  CoreInv'
    <2>2. pc'[p] = "failed" /\ \A q \in Procs \ {p} : pc'[q] = pc[q]
        BY <1>0, <1>1 DEF CoreInv, Goto
    <2>3. pc' \in [Procs -> Points]
        BY <1>0, <1>1 DEF CoreInv, Goto, Points, Resting
    <2>4. RecordsOK' /\ \A q \in Procs : SavingOK(q)'
        BY <1>0, <1>1 DEF CoreInv, RecordsOK, SavingOK
    <2>5. ProcOK(p)'
        BY <1>0, <1>1, <2>2 DEF ProcOK, Writing, Working
    <2>6. \A q \in Procs \ {p} : ProcOK(q)'
        BY <1>0, <1>1, <2>2 DEF CoreInv, ProcOK, Transaction
    <2> QED
        <3>1. /\ \E case \in Cases : given' = case.given /\ format' = case.format
              /\ lock' \in Procs \cup {NULL} /\ command' \in [Procs -> Command \cup {NULL}]
            BY <1>0 DEF CoreInv
        <3>2. /\ mgr' \in [Procs -> Config \cup {NULL}]
              /\ saving' = [q \in Procs |-> saving'[q]] /\ wait' \in [Procs -> Waiting]
            BY <1>0, <1>1 DEF CoreInv
        <3> QED
            BY <2>3, <2>4, <2>5, <2>6, <3>1, <3>2 DEF CoreInv
<1>2. ASSUME name \in {"configure", "mirror_set"},
             mgr' = [mgr EXCEPT ![p] = changed],
             Save(p, "config", changed, IF name = "configure" THEN "done" ELSE "mirrors"),
             UNCHANGED wait
      PROVE  CoreInv'
    <2>1. changed \in Config
        <3>1. /\ name = "mirror_set" => arg \in Mirrors
              /\ name = "configure" => arg \in Addresses
            BY <1>0, GivenTyped
        <3>2. CASE name = "configure"
            BY <1>0, <1>2, <3>1, <3>2, Fields
        <3>3. CASE name = "mirror_set"
            BY <1>0, <1>2, <3>1, <3>3, Fields
        <3> QED
            BY <1>2, <3>2, <3>3
    <2>2. mgr' \in [Procs -> Config \cup {NULL}] /\ mgr'[p] \in Config
          /\ \A q \in Procs \ {p} : mgr'[q] = mgr[q]
        BY <1>0, <1>2, <2>1 DEF CoreInv
    <2>3. wait' \in [Procs -> Waiting] /\ \A q \in Procs \ {p} : wait'[q] = wait[q]
        BY <1>0, <1>2 DEF CoreInv
    <2>4. CASE name = "configure"
        BY <1>0, <1>2, <2>1, <2>2, <2>3, <2>4, Saves
    <2>5. CASE name = "mirror_set"
        BY <1>0, <1>2, <2>1, <2>2, <2>3, <2>5, Saves
    <2> QED
        BY <1>2, <2>4, <2>5
<1>3. ASSUME name \notin {"configure", "mirror_set"}, mgr' = [mgr EXCEPT ![p] = cfg],
             Goto(p, Entry(name)), UNCHANGED saving,
             IF name = "bootstrap" THEN Waits(p, cfg, 2) ELSE UNCHANGED wait
      PROVE  CoreInv'
    <2> DEFINE point == Entry(name)
    <2>1. point \in {"check", "download", "failed", "check_again", "key", "ssh", "unmirror",
                     "discover", "state"}
        BY DEF Entry
    <2>2. /\ wait' \in [Procs -> Waiting] /\ \A q \in Procs \ {p} : wait'[q] = wait[q]
          /\ point = "ssh" => wait'[p].waits # 0
        <3>1. CASE name = "bootstrap"
            <4>1. Waits(p, cfg, 2) /\ 2 \in 1 .. 3
                BY <1>3, <3>1
            <4> QED
                BY <1>0, <4>1, WaitsTyped
        <3>2. CASE name # "bootstrap"
            BY <1>0, <1>3, <3>2 DEF CoreInv, Entry
        <3> QED
            BY <3>1, <3>2
    <2>3. pc'[p] = point /\ \A q \in Procs \ {p} : pc'[q] = pc[q]
        BY <1>0, <1>3 DEF CoreInv, Goto
    <2>4. pc' \in [Procs -> Points]
        BY <1>0, <1>3, <2>1 DEF CoreInv, Goto, Points, Working, Resting
    <2>5. mgr' \in [Procs -> Config \cup {NULL}] /\ mgr'[p] \in Config
          /\ \A q \in Procs \ {p} : mgr'[q] = mgr[q]
        BY <1>0, <1>3 DEF CoreInv
    <2>6. RecordsOK' /\ \A q \in Procs : SavingOK(q)'
        BY <1>0, <1>3 DEF CoreInv, RecordsOK, SavingOK
    <2> HIDE DEF point
    <2>7. ProcOK(p)'
        BY <1>0, <1>3, <2>1, <2>2, <2>3, <2>5 DEF ProcOK, Writing
    <2>8. \A q \in Procs \ {p} : ProcOK(q)'
        BY <1>0, <1>3, <2>2, <2>3, <2>5 DEF CoreInv, ProcOK, Transaction
    <2> QED
        BY <1>0, <1>3, <2>2, <2>4, <2>5, <2>6, <2>7, <2>8 DEF CoreInv
<1>4. CoreInv'
    BY <1>1, <1>2, <1>3 DEF LoadConfig
<1> QED
    BY <1>0, <1>4 DEF IInv, MachineOK

LEMMA EnsureKeyStep ==
    ASSUME IInv, NEW p \in Procs, EnsureKey(p)
    PROVE  IInv'
<1> USE DEF host, machine
<1>1. /\ CoreInv /\ pc[p] \in Working /\ mgr[p] \in Config
      /\ UNCHANGED <<given, format, records, lock, machine, command, mgr, wait, found>>
    BY DEF IInv, CoreInv, EnsureKey, ProcOK, Working
<1>2. mgr' \in [Procs -> Config \cup {NULL}] /\ wait' \in [Procs -> Waiting]
    BY <1>1 DEF CoreInv
<1>3. CoreInv'
    <2>1. ASSUME NEW next \in {"done", "seed"}, Save(p, "config", mgr[p], next)
          PROVE  CoreInv'
        BY <1>1, <1>2, <2>1, Saves
    <2>2. ASSUME Goto(p, "failed"), UNCHANGED saving
          PROVE  CoreInv'
        BY <1>1, <1>2, <2>2, Moves DEF Resting
    <2> QED
        BY <2>1, <2>2 DEF EnsureKey
<1> QED
    BY <1>1, <1>3 DEF IInv, MachineOK

LEMMA MirrorRemoveStep ==
    ASSUME IInv, NEW p \in Procs, MirrorRemove(p)
    PROVE  IInv'
<1> USE DEF host
<1> DEFINE cfg == Without(mgr[p], command[p].arg)
<1>1. /\ CoreInv /\ pc[p] \in Working /\ mgr[p] \in Config /\ cfg \in Config
      /\ UNCHANGED <<given, format, records, lock, files, vm, command, wait, found>>
    BY Fields DEF IInv, CoreInv, MirrorRemove, ProcOK, Working
<1>2. CoreInv'
    <2>1. ASSUME mgr' = [mgr EXCEPT ![p] = cfg], Save(p, "config", cfg, "done")
          PROVE  CoreInv'
        <3>1. /\ mgr' \in [Procs -> Config \cup {NULL}] /\ mgr'[p] \in Config
              /\ wait' \in [Procs -> Waiting]
              /\ \A q \in Procs \ {p} : mgr'[q] = mgr[q] /\ wait'[q] = wait[q]
            BY <1>1, <2>1 DEF CoreInv
        <3> QED
            BY <1>1, <2>1, <3>1, Saves
    <2>2. ASSUME Goto(p, "failed"), UNCHANGED <<mgr, saving>>
          PROVE  CoreInv'
        <3>1. wait' \in [Procs -> Waiting]
            BY <1>1 DEF CoreInv
        <3> QED
            BY <1>1, <2>2, <3>1, Moves DEF Resting
    <2> QED
        BY <1>1, <2>1, <2>2 DEF CoreInv, MirrorRemove
<1>3. guest' \in [address : Addresses \cup {NULL}, runtime : BOOLEAN, mirrors : SUBSET Mirrors]
    BY DEF IInv, MachineOK, MirrorRemove, Without
<1> QED
    BY <1>1, <1>2, <1>3 DEF IInv, MachineOK

LEMMA StartVmStep ==
    ASSUME IInv, NEW p \in Procs, StartVm(p)
    PROVE  IInv'
<1> USE DEF host
<1>1. /\ CoreInv /\ pc[p] \in Working /\ mgr[p] \in Config
      /\ UNCHANGED <<given, format, records, lock, files, command, mgr, saving, found>>
    BY DEF IInv, CoreInv, StartVm, ProcOK, Working
<1>2. CoreInv'
    <2>1. ASSUME NEW point \in {"done", "discover", "failed"}, Goto(p, point), UNCHANGED wait
          PROVE  CoreInv'
        <3>1. wait' \in [Procs -> Waiting] /\ point \notin {"ssh", "probe"}
            BY <1>1, <2>1 DEF CoreInv
        <3> QED
            BY <1>1, <2>1, <3>1, Moves DEF Resting, Working
    <2>2. ASSUME Goto(p, "ssh"), Waits(p, mgr[p], 3)
          PROVE  CoreInv'
        <3>1. /\ wait' \in [Procs -> Waiting] /\ wait'[p].waits # 0
              /\ \A q \in Procs \ {p} : wait'[q] = wait[q]
            <4>1. 3 \in 1 .. 3
                OBVIOUS
            <4> QED
                BY <1>1, <2>2, <4>1, WaitsTyped
        <3> QED
            BY <1>1, <2>2, <3>1, Moves DEF Working
    <2> QED
        BY <2>1, <2>2 DEF StartVm
<1>3. /\ vm' \in {"absent", "off", "running"}
      /\ guest' \in [address : Addresses \cup {NULL}, runtime : BOOLEAN, mirrors : SUBSET Mirrors]
    BY DEF IInv, MachineOK, StartVm, VmStarts
<1> QED
    BY <1>1, <1>2, <1>3 DEF IInv, MachineOK

\* Nothing answers at an address the guest cannot have.
LEMMA AddressTyped ==
    ASSUME IInv, NEW a \in vm_ip
    PROVE  a \in Addresses
BY DEF IInv, MachineOK, vm_ip

LEMMA DiscoverIpStep ==
    ASSUME IInv, NEW p \in Procs, DiscoverIp(p)
    PROVE  IInv'
<1> USE DEF host, machine
<1>1. /\ CoreInv /\ pc[p] = "discover" /\ pc[p] \in Working /\ mgr[p] \in Config
      /\ UNCHANGED <<given, format, records, lock, machine, command, found>>
    BY DEF IInv, CoreInv, DiscoverIp, ProcOK, Working
<1>2. CoreInv'
    <2>1. ASSUME NEW cfg \in Config, NEW next \in {"ssh", "done"},
                 mgr' = [mgr EXCEPT ![p] = cfg], Save(p, "config", cfg, next),
                 \/ next = "ssh" /\ Waits(p, cfg, 3)
                 \/ next = "done" /\ UNCHANGED wait
          PROVE  CoreInv'
        <3>1. /\ mgr' \in [Procs -> Config \cup {NULL}] /\ mgr'[p] \in Config
              /\ \A q \in Procs \ {p} : mgr'[q] = mgr[q]
            BY <1>1, <2>1 DEF CoreInv
        <3>2. /\ wait' \in [Procs -> Waiting]
              /\ \A q \in Procs \ {p} : wait'[q] = wait[q]
              /\ next \in {"ssh", "probe"} => wait'[p].waits # 0
            <4>1. CASE next = "ssh"
                <5>1. Waits(p, cfg, 3) /\ 3 \in 1 .. 3
                    BY <2>1, <4>1
                <5> QED
                    BY <1>1, <5>1, WaitsTyped
            <4>2. CASE next = "done"
                BY <1>1, <2>1, <4>2 DEF CoreInv
            <4> QED
                BY <4>1, <4>2
        <3> QED
            BY <1>1, <2>1, <3>1, <3>2, Saves
    <2>2. ASSUME wait[p].polls < Polls, wait' = [wait EXCEPT ![p].polls = @ + 1],
                 UNCHANGED <<pc, mgr, saving>>
          PROVE  CoreInv'
        <3>1. wait[p] \in Waiting
            BY <1>1 DEF CoreInv
        <3>2. [wait[p] EXCEPT !.polls = @ + 1] \in Waiting
            BY <2>2, <3>1, ProvisionAssumption DEF Waiting
        <3>3. wait' \in [Procs -> Waiting] /\ \A q \in Procs \ {p} : wait'[q] = wait[q]
            BY <1>1, <2>2, <3>2 DEF CoreInv
        <3>4. RecordsOK' /\ \A q \in Procs : SavingOK(q)'
            BY <1>1, <2>2 DEF CoreInv, RecordsOK, SavingOK
        <3>5. \A q \in Procs : ProcOK(q)'
            BY <1>1, <2>2, <3>3 DEF CoreInv, ProcOK, Transaction, Writing
        <3> QED
            BY <1>1, <2>2, <3>3, <3>4, <3>5 DEF CoreInv
    <2>3. ASSUME Goto(p, "failed"), UNCHANGED <<mgr, saving, wait>>
          PROVE  CoreInv'
        <3>1. wait' \in [Procs -> Waiting]
            BY <1>1, <2>3 DEF CoreInv
        <3> QED
            BY <1>1, <2>3, <3>1, Moves DEF Resting
    <2>4. ASSUME NEW a \in vm_ip
          PROVE  [mgr[p] EXCEPT !.host = a] \in Config
        BY <1>1, AddressTyped, Fields
    <2> QED
        BY <2>1, <2>2, <2>3, <2>4 DEF DiscoverIp
<1> QED
    BY <1>1, <1>2 DEF IInv, MachineOK

LEMMA AskAddressStep ==
    ASSUME IInv, NEW p \in Procs, AskAddress(p)
    PROVE  IInv'
<1> USE DEF host, machine
<1>1. /\ CoreInv /\ pc[p] \in Working /\ mgr[p] \in Config /\ wait[p] \in Waiting /\ wait[p].waits # 0
      /\ UNCHANGED <<given, format, records, lock, machine, command, mgr, found>>
    BY DEF IInv, CoreInv, AskAddress, ProcOK, Working
<1>2. CoreInv'
    <2>1. ASSUME NEW a \in vm_ip, wait' = [wait EXCEPT ![p].host = a, ![p].answers = 0],
                 Save(p, "config", [mgr[p] EXCEPT !.host = a], "probe")
          PROVE  CoreInv'
        <3>1. a \in Addresses /\ [mgr[p] EXCEPT !.host = a] \in Config
            BY <1>1, AddressTyped, Fields
        <3> DEFINE new == [host |-> a, answers |-> 0, polls |-> wait[p].polls,
                           waits |-> wait[p].waits, tries |-> wait[p].tries]
        <3>2. new \in Waiting /\ new.waits = wait[p].waits
            BY <1>1, <3>1 DEF Waiting
        <3>3. wait \in [Procs -> Waiting]
            BY <1>1 DEF CoreInv
        <3> DEFINE moved == [wait[p] EXCEPT !.host = a]
        <3>4. moved = [host |-> a, answers |-> wait[p].answers, polls |-> wait[p].polls,
                       waits |-> wait[p].waits, tries |-> wait[p].tries]
            BY <1>1 DEF Waiting
        <3>5. wait' = [wait EXCEPT ![p] = [moved EXCEPT !.answers = 0]]
            BY <2>1, <3>3
        <3> HIDE DEF moved
        <3>6. [moved EXCEPT !.answers = 0] = new
            BY <3>4
        <3>7. wait' = [wait EXCEPT ![p] = new]
            BY <3>5, <3>6
        <3> HIDE DEF new
        <3>8. /\ wait' \in [Procs -> Waiting] /\ wait'[p].waits = wait[p].waits
              /\ \A q \in Procs \ {p} : mgr'[q] = mgr[q] /\ wait'[q] = wait[q]
            BY <1>1, <3>2, <3>7, <3>3
        <3>9. mgr' \in [Procs -> Config \cup {NULL}] /\ mgr'[p] \in Config
            BY <1>1 DEF CoreInv
        <3> QED
            BY <1>1, <2>1, <3>1, <3>8, <3>9, Saves
    <2>2. ASSUME Goto(p, "probe"), UNCHANGED <<wait, saving>>
          PROVE  CoreInv'
        <3>1. wait' \in [Procs -> Waiting] /\ wait'[p].waits # 0
            BY <1>1, <2>2 DEF CoreInv
        <3> QED
            BY <1>1, <2>2, <3>1, Moves DEF Working
    <2> QED
        BY <2>1, <2>2 DEF AskAddress
<1> QED
    BY <1>1, <1>2 DEF IInv, MachineOK

LEMMA ProbeSshStep ==
    ASSUME IInv, NEW p \in Procs, ProbeSsh(p)
    PROVE  IInv'
<1> USE DEF host, machine
<1>1. /\ CoreInv /\ pc[p] \in Working /\ mgr[p] \in Config /\ wait[p] \in Waiting /\ wait[p].waits # 0
      /\ wait \in [Procs -> Waiting]
      /\ UNCHANGED <<given, format, records, lock, machine, command, mgr, saving, found>>
    BY DEF IInv, CoreInv, ProbeSsh, ProcOK, Working
<1>2. CoreInv'
    <2>1. ASSUME NEW point \in {"bootstrap", "failed"}, Goto(p, point), UNCHANGED wait
          PROVE  CoreInv'
        <3>1. point \notin {"ssh", "probe"}
            BY <2>1
        <3> QED
            BY <1>1, <2>1, <3>1, Moves DEF Resting, Working
    <2>2. ASSUME wait[p].waits # 1, Goto(p, "ssh"), Waits(p, mgr[p], wait[p].waits - 1)
          PROVE  CoreInv'
        <3>1. wait[p].waits - 1 \in 1 .. 3
            BY <1>1, <2>2 DEF Waiting
        <3>2. /\ wait' \in [Procs -> Waiting] /\ wait'[p].waits # 0
              /\ \A q \in Procs \ {p} : wait'[q] = wait[q]
            BY <1>1, <2>2, <3>1, WaitsTyped
        <3> QED
            BY <1>1, <2>2, <3>2, Moves DEF Working
    <2>3. ASSUME NEW answers \in 0 .. 1, wait[p].polls # Polls, Goto(p, "ssh"),
                 wait' = [wait EXCEPT ![p].answers = answers, ![p].polls = @ + 1]
          PROVE  CoreInv'
        <3> DEFINE new == [host |-> wait[p].host, answers |-> answers, polls |-> wait[p].polls + 1,
                           waits |-> wait[p].waits, tries |-> wait[p].tries]
        <3>1. new \in Waiting /\ new.waits = wait[p].waits
            BY <1>1, <2>3, ProvisionAssumption DEF Waiting
        <3>3. wait' = [wait EXCEPT ![p] = new]
            BY <1>1, <2>3 DEF Waiting
        <3> HIDE DEF new
        <3>2. /\ wait' \in [Procs -> Waiting] /\ wait'[p].waits = wait[p].waits
              /\ \A q \in Procs \ {p} : wait'[q] = wait[q]
            BY <1>1, <3>1, <3>3
        <3> QED
            BY <1>1, <2>3, <3>2, Moves DEF Working
    <2> DEFINE answered == vm = "running" /\ guest.address = wait[p].host
               answers == IF answered THEN wait[p].answers + 1 ELSE 0
    <2>4. answers # 2 => answers \in 0 .. 1
        BY <1>1 DEF Waiting
    <2> QED
        BY <2>1, <2>2, <2>3, <2>4 DEF ProbeSsh
<1> QED
    BY <1>1, <1>2 DEF IInv, MachineOK

LEMMA BootstrapStep ==
    ASSUME IInv, NEW p \in Procs, Bootstrap(p)
    PROVE  IInv'
<1> USE DEF host
<1>1. /\ CoreInv /\ pc[p] \in Working /\ mgr[p] \in Config /\ wait[p] \in Waiting
      /\ wait \in [Procs -> Waiting]
      /\ UNCHANGED <<given, format, records, lock, files, vm, command, mgr, saving, found>>
    BY DEF IInv, CoreInv, Bootstrap, ProcOK, Working
<1>2. CoreInv'
    <2>1. ASSUME NEW point \in {"mirrors", "failed"}, Goto(p, point), UNCHANGED wait
          PROVE  CoreInv'
        <3>1. point \notin {"ssh", "probe"}
            BY <2>1
        <3> QED
            BY <1>1, <2>1, <3>1, Moves DEF Resting, Working
    <2>2. ASSUME wait[p].tries < Tries, Goto(p, "ssh"),
                 wait' = [wait EXCEPT ![p] = Wait(mgr[p], 1, wait[p].tries + 1)]
          PROVE  CoreInv'
        <3>1. /\ wait[p].tries + 1 \in 0 .. Tries /\ 0 \in 0 .. Polls
              /\ mgr[p].host \in Addresses \cup {NULL}
            BY <1>1, <2>2, Fields, ProvisionAssumption DEF Waiting
        <3>2. /\ Wait(mgr[p], 1, wait[p].tries + 1) \in Waiting
              /\ Wait(mgr[p], 1, wait[p].tries + 1).waits = 1
            BY <3>1 DEF Waiting, Wait
        <3>3. /\ wait' \in [Procs -> Waiting] /\ wait'[p].waits # 0
              /\ \A q \in Procs \ {p} : wait'[q] = wait[q]
            BY <1>1, <2>2, <3>2
        <3> QED
            BY <1>1, <2>2, <3>3, Moves DEF Working
    <2> QED
        BY <2>1, <2>2 DEF Bootstrap
<1>3. guest' \in [address : Addresses \cup {NULL}, runtime : BOOLEAN, mirrors : SUBSET Mirrors]
    BY DEF IInv, MachineOK, Bootstrap
<1> QED
    BY <1>1, <1>2, <1>3 DEF IInv, MachineOK

-----------------------------------------------------------------------------
(* Steps around the commands. *)

LEMMA BeginStep ==
    ASSUME IInv, NEW p \in Procs, Begin(p)
    PROVE  IInv'
<1> USE DEF host, machine
<1>1. PICK c \in given[p] :
            /\ command' = [command EXCEPT ![p] = c]
            /\ Goto(p, IF c.name \in RegistryCommands THEN "lock" ELSE "load")
    BY DEF Begin, RegistryCommands
<1>2. /\ CoreInv /\ c \in Command
      /\ mgr' = [mgr EXCEPT ![p] = NULL] /\ saving' = [saving EXCEPT ![p] = NoSave]
      /\ wait' = [wait EXCEPT ![p] = NoWait] /\ found' = [found EXCEPT ![p] = Existing]
      /\ UNCHANGED <<given, format, records, lock, machine>>
    BY GivenTyped DEF IInv, Begin
<1>3. /\ pc' \in [Procs -> Points] /\ \A q \in Procs \ {p} : pc'[q] = pc[q]
      /\ pc'[p] = IF c.name \in RegistryCommands THEN "lock" ELSE "load"
    BY <1>1, <1>2 DEF CoreInv, Goto, Points
<1>4. /\ command' \in [Procs -> Command \cup {NULL}] /\ command'[p] = c
      /\ mgr' \in [Procs -> Config \cup {NULL}]
      /\ saving' = [q \in Procs |-> saving'[q]] /\ saving'[p] = NoSave
      /\ \A q \in Procs \ {p} :
            command'[q] = command[q] /\ mgr'[q] = mgr[q] /\ saving'[q] = saving[q] /\ wait'[q] = wait[q]
    BY <1>1, <1>2 DEF CoreInv
<1>5. wait' \in [Procs -> Waiting]
    <2>1. NoWait \in Waiting
        BY ProvisionAssumption DEF Waiting, NoWait
    <2> QED
        BY <1>2, <2>1 DEF CoreInv
<1>6. RecordsOK'
    BY <1>2 DEF CoreInv, RecordsOK
<1>7. SavingOK(p)' /\ ProcOK(p)'
    <2>1. SavingOK(p)'
        BY <1>4, ProvisionAssumption DEF SavingOK, NoSave, RecordFiles
    <2>2. pc'[p] \in {"lock", "load"} /\ pc'[p] \notin Writing \cup Working \cup {"read"}
        BY <1>3 DEF Writing, Working
    <2>3. pc'[p] \notin {"ssh", "probe", "replace"}
        BY <2>2
    <2>4. ProcOK(p)'
        BY <1>1, <1>2, <1>3, <1>4, <2>2, <2>3 DEF ProcOK
    <2> QED
        BY <2>1, <2>4
<1>8. ASSUME NEW q \in Procs \ {p} PROVE SavingOK(q)' /\ ProcOK(q)'
    <2>1. SavingOK(q)'
        BY <1>4, <1>2 DEF CoreInv, SavingOK
    <2>2. ProcOK(q) /\ pc'[q] = pc[q] /\ records' = records /\ lock' = lock /\ given' = given
        BY <1>2, <1>3 DEF CoreInv
    <2>3. ProcOK(q)'
        BY <1>4, <2>2 DEF ProcOK, Transaction
    <2> QED
        BY <2>1, <2>3
<1>9. CoreInv'
    BY <1>2, <1>3, <1>4, <1>5, <1>6, <1>7, <1>8 DEF CoreInv
<1>10. MachineOK'
    BY <1>2 DEF IInv, MachineOK, Existing
<1> QED
    BY <1>9, <1>10 DEF IInv

LEMMA KilledStep ==
    ASSUME IInv, NEW p \in Procs, Killed(p)
    PROVE  IInv'
<1>1. CoreInv'
    <2>1. /\ pc[p] \notin Resting /\ End(p, "killed") /\ "killed" \in Resting \ {"idle"}
          /\ UNCHANGED <<given, format, records, command, mgr, saving, wait>>
        BY DEF Killed, local, Resting
    <2> QED
        BY <2>1, Ends DEF IInv
<1> QED
    BY <1>1 DEF IInv, MachineOK, Killed, machine, local

LEMMA PowerFailureStep ==
    ASSUME IInv, PowerFailure
    PROVE  IInv' /\ UNCHANGED records
<1> USE DEF local
<1>1. UNCHANGED records
    BY DEF IInv, CoreInv, RecordsOK, PowerFailure
<1>2. /\ CoreInv /\ lock' = NULL /\ UNCHANGED <<given, format, files, command, mgr, saving, wait, found>>
    BY DEF IInv, PowerFailure
<1>3. pc' \in [Procs -> Points] /\ \A q \in Procs : pc'[q] \in Resting /\ (pc[q] = "idle" => pc'[q] = "idle")
            /\ (pc[q] # "idle" => pc'[q] # "idle")
    BY <1>2 DEF CoreInv, PowerFailure, Points, Resting
<1>4. RecordsOK' /\ \A q \in Procs : SavingOK(q)'
    BY <1>1, <1>2 DEF CoreInv, RecordsOK, SavingOK
<1>5. ASSUME NEW q \in Procs PROVE ProcOK(q)'
    <2>1. pc'[q] \notin {"lock", "read", "load"} \cup Writing \cup Working
        BY <1>3 DEF Resting, Working, Writing
    <2> QED
        <3>1. pc'[q] \notin {"ssh", "probe", "replace"}
            BY <1>3 DEF Resting
        <3>2. pc'[q] # "idle" => command'[q] \in given'[q]
            BY <1>2, <1>3 DEF CoreInv, ProcOK
        <3> QED
            BY <2>1, <3>1, <3>2 DEF ProcOK
<1>6. CoreInv'
    BY <1>2, <1>3, <1>4, <1>5 DEF CoreInv
<1>7. MachineOK'
    BY DEF IInv, MachineOK, PowerFailure
<1> QED
    BY <1>1, <1>6, <1>7 DEF IInv

LEMMA AroundStep ==
    ASSUME IInv, GuestMoves \/ GuestStops \/ CleanUp
    PROVE  IInv' /\ UNCHANGED records
<1> USE DEF GuestMoves, GuestStops, CleanUp, host, local
<1>1. UNCHANGED <<given, format, records, lock, pc, command, mgr, saving, wait, found>>
    OBVIOUS
<1>2. CoreInv'
    BY <1>1, ZenonT(60) DEF IInv, CoreInv, RecordsOK, SavingOK, ProcOK, Transaction
<1>3. MachineOK'
    <2>1. CASE GuestMoves \/ GuestStops
        BY <2>1 DEF IInv, MachineOK, VmStarts, VmStops
    <2>2. CASE CleanUp
        <3>1. files' \in [Artifacts -> Contents]
            BY <2>2 DEF IInv, MachineOK, Contents
        <3>2. guest' \in [address : Addresses \cup {NULL}, runtime : BOOLEAN, mirrors : SUBSET Mirrors]
            BY <2>2
        <3> QED
            BY <2>2, <3>1, <3>2 DEF IInv, MachineOK
    <2> QED
        BY <2>1, <2>2
<1> QED
    BY <1>1, <1>2, <1>3 DEF IInv

-----------------------------------------------------------------------------
(* The theorems. *)

LEMMA InitHolds == Init => IInv
<1> SUFFICES ASSUME Init PROVE IInv
    OBVIOUS
<1>1. PICK case \in Cases : given = case.given /\ format = case.format /\ files = case.files /\ vm = case.vm
    BY DEF Init
<1>2. /\ NoWait \in Waiting
      /\ [host |-> NULL, mirrors |-> {}] \in Config
    BY ProvisionAssumption DEF NoWait, Waiting, Config
<1>3. RecordsOK
    BY <1>2 DEF Init, RecordsOK, RecordFiles
<1>4. ASSUME NEW p \in Procs PROVE SavingOK(p) /\ ProcOK(p)
    BY <1>4, ProvisionAssumption DEF Init, SavingOK, ProcOK, NoSave, RecordFiles, Writing, Working
<1>5. CoreInv
    BY <1>1, <1>2, <1>3, <1>4 DEF Init, CoreInv, Points, Resting
<1>6. MachineOK
    BY <1>1, ProvisionAssumption DEF Init, MachineOK
<1> QED
    BY <1>5, <1>6 DEF IInv

LEMMA StepHolds ==
    ASSUME IInv, NEW p \in Procs, Step(p)
    PROVE  IInv'
BY CreateTempStep, SyncTempStep, ReplaceFileStep, WriteFailsStep, TakeLockStep, LockTimesOutStep,
   ReadRegistryStep, LoadConfigStep, ApplyMirrorsStep, MirrorRemoveStep, EnsureSafeStep,
   StartDownloadStep, FinishDownloadStep, VerifyDownloadStep, PromoteStep, StartPrepareStep,
   FinishPrepareStep, EnsureKeyStep, WriteSeedStep, GuardStep, StartDiskStep, FinishDiskStep,
   NewVmStep, StartVmStep, StopVmStep, DiscoverIpStep, AskAddressStep, ProbeSshStep, BootstrapStep
   DEF Step

LEMMA NextHolds == IInv /\ [Next]_vars => IInv'
<1> SUFFICES ASSUME IInv, [Next]_vars PROVE IInv'
    OBVIOUS
<1>1. CASE UNCHANGED vars
    BY <1>1, ZenonT(60) DEF vars, host, machine, local, IInv, CoreInv, MachineOK, RecordsOK, SavingOK, ProcOK, Transaction
<1>2. ASSUME NEW p \in Procs, Begin(p) \/ Step(p) \/ Killed(p)
      PROVE  IInv'
    BY <1>2, BeginStep, StepHolds, KilledStep
<1>3. CASE PowerFailure \/ GuestMoves \/ GuestStops \/ CleanUp
    BY <1>3, PowerFailureStep, AroundStep
<1> QED
    BY <1>1, <1>2, <1>3 DEF Next

\* The invariant holds of every reachable state.
THEOREM Invariant == Spec => []IInv
BY InitHolds, NextHolds, PTL DEF Spec

\* The records, commands and waits of Provision have their types.
THEOREM TypeCorrect == Spec => []TypeOK
<1>1. IInv => TypeOK
    BY DEF IInv, CoreInv, MachineOK, RecordsOK, SavingOK, RecordFiles, Points, TypeOK
<1> QED
    BY <1>1, Invariant, PTL

\* atomic_write (types, 45-74): no crash of a command or of the host leaves a
\* registry or a configuration that cannot be read.
THEOREM FilesStayWhole == Spec => []FilesAreWhole
<1>1. IInv => FilesAreWhole
    BY ProvisionAssumption DEF IInv, CoreInv, RecordsOK, RecordFiles, FilesAreWhole
<1> QED
    BY <1>1, Invariant, PTL

\* The registry's file changes by a transaction of the registry, or not at all.
LEMMA ReplaceRefines ==
    ASSUME IInv, NEW p \in Procs, ReplaceFile(p)
    PROVE  Registry!Next \/ UNCHANGED records["registry"].value
<1>1. CoreInv /\ saving[p].file \in RecordFiles
    BY WriteHolds DEF IInv, ReplaceFile, Writing
<1>2. CASE saving[p].file = "registry"
    <2>1. Transaction(p)
        BY <1>1, <1>2 DEF CoreInv, ProcOK, ReplaceFile, Writing
    <2>2. records'["registry"].value = saving[p].value
        BY <1>1, <1>2, Replaced
    <2> QED
        BY <2>1, <2>2 DEF Transaction, Registry!Next, Registry!Register, Registry!Unregister
<1>3. CASE saving[p].file # "registry"
    BY <1>1, <1>3, Replaced DEF RecordFiles
<1> QED
    BY <1>2, <1>3

\* Every other step leaves the files alone.
LEMMA OthersKeepRecords ==
    ASSUME IInv, [Next]_vars, \A p \in Procs : ~ReplaceFile(p)
    PROVE  UNCHANGED records
<1> USE DEF host
<1>1. CASE UNCHANGED vars
    BY <1>1 DEF vars
<1>2. ASSUME NEW p \in Procs, Begin(p) \/ Killed(p)
      PROVE  UNCHANGED records
    BY <1>2 DEF Begin, Killed
<1>3. ASSUME NEW p \in Procs, Step(p)
      PROVE  UNCHANGED records
    BY <1>3 DEF Step, CreateTemp, SyncTemp, WriteFails, TakeLock, LockTimesOut, ReadRegistry,
        LoadConfig, ApplyMirrors, MirrorRemove, EnsureSafe, StartDownload, FinishDownload,
        VerifyDownload, Promote, StartPrepare, FinishPrepare, EnsureKey, WriteSeed, Guard,
        StartDisk, FinishDisk, NewVm, StartVm, StopVm, DiscoverIp, AskAddress, ProbeSsh, Bootstrap
<1>4. CASE PowerFailure \/ GuestMoves \/ GuestStops \/ CleanUp
    BY <1>4, PowerFailureStep, AroundStep
<1> QED
    BY <1>1, <1>2, <1>3, <1>4 DEF Next

\* Registrations under the lock (cli, 2305-2388; types, 81-123) take effect one
\* after another, each on what the one before has left, whoever is killed.
THEOREM RegistryIsImplemented == Spec => RegistryIsAtomic
<1>1. Init => Registry!Init
    BY DEF Init, Registry!Init, RecordFiles
<1>2. IInv /\ [Next]_vars => [Registry!Next]_(records["registry"].value)
    BY ReplaceRefines, OthersKeepRecords
<1> QED
    BY <1>1, <1>2, Invariant, PTL DEF Spec, RegistryIsAtomic, Registry!Spec
=============================================================================
