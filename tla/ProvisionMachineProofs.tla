----------------------- MODULE ProvisionMachineProofs -----------------------
(***************************************************************************)
(* Theorems about the machine, its files and its mirrors, when one         *)
(* terminal works with them; any number of others keep the registry.       *)
(***************************************************************************)
EXTENDS ProvisionProofs

\* Only l has been given commands that touch the machine.
Alone(l) == \A q \in Procs \ {l} : \A c \in given[q] : c.name \in RegistryCommands

\* With a verified image in hand, on the way to a machine.
Using(l) ==
    /\ command[l].name = "init"
    /\ \/ pc[l] \in {"prepare", "preparing", "check_again", "key", "seed", "seed_iso", "seed_disk",
                     "guard", "copy"}
       \/ pc[l] \in Writing /\ saving[l].next = "seed"

ImageOK(l) ==
    /\ files["prepared"] # "bad"
    /\ pc[l] = "promote" => files["partial"] = "good"
    /\ pc[l] \in {"prepare", "preparing"} => command[l].name = "init"
    /\ Using(l) => files["image"] = "good"

DiskOK(l) ==
    /\ vm # "absent" => files["disk"] = "good"
    /\ pc[l] = "copy" => vm = "absent" /\ files["disk"] = "none"
    /\ pc[l] = "copying" => vm = "absent"
    /\ pc[l] = "new" => files["disk"] = "good"

MirrorsOK(l) ==
    LET listed == records["config"].value.mirrors
    IN  /\ guest.mirrors \subseteq listed
        /\ pc[l] \in Working => mgr[l].mirrors = listed
        /\ pc[l] \in Writing /\ saving[l].file = "config" =>
                /\ saving[l].value.mirrors = mgr[l].mirrors
                /\ guest.mirrors \subseteq mgr[l].mirrors

LoneInv(l) == Alone(l) /\ ImageOK(l) /\ DiskOK(l) /\ MirrorsOK(l)

\* What LoneInv(l) depends on.
scope(l) ==
    <<given, format, files, vm, guest, records["config"], pc[l], command[l], mgr[l], saving[l]>>

-----------------------------------------------------------------------------
(* The others. *)

\* Whoever keeps the registry is at one of its points.
LEMMA Others ==
    ASSUME IInv, NEW l \in Procs, Alone(l), NEW q \in Procs \ {l}
    PROVE  /\ pc[q] \notin Working \cup {"load"}
           /\ pc[q] \in Writing => saving[q].file = "registry"
<1>1. ProcOK(q)
    BY DEF IInv, CoreInv
<1>2. pc[q] # "idle" => command[q].name \in RegistryCommands
    BY <1>1 DEF ProcOK, Alone
<1>3. pc[q] \in Working \cup {"load"} \cup Writing => pc[q] # "idle"
    BY DEF Working, Writing
<1> QED
    BY <1>1, <1>2, <1>3 DEF ProcOK

LEMMA OthersKeepScope ==
    ASSUME IInv, NEW l \in Procs, Alone(l), NEW q \in Procs \ {l}, Begin(q) \/ Step(q) \/ Killed(q)
    PROVE  UNCHANGED scope(l)
<1> USE DEF scope, host, machine, local
<1>1. pc \in [Procs -> Points] /\ command \in [Procs -> Command \cup {NULL}]
      /\ mgr \in [Procs -> Config \cup {NULL}] /\ saving = [p \in Procs |-> saving[p]]
      /\ CoreInv
    BY DEF IInv, CoreInv
<1>2. CASE Begin(q)
    <2>1. pc'[l] = pc[l] /\ command'[l] = command[l] /\ mgr'[l] = mgr[l] /\ saving'[l] = saving[l]
        BY <1>1, <1>2 DEF Begin, Goto
    <2> QED
        BY <1>2, <2>1 DEF Begin
<1>3. CASE Killed(q)
    <2>1. pc'[l] = pc[l]
        BY <1>1, <1>3 DEF Killed, End, Goto
    <2> QED
        BY <1>3, <2>1 DEF Killed
<1>4. CASE CreateTemp(q) \/ WriteFails(q) \/ TakeLock(q) \/ LockTimesOut(q)
    <2>1. pc'[l] = pc[l]
        BY <1>1, <1>4 DEF CreateTemp, WriteFails, TakeLock, LockTimesOut, End, Goto
    <2> QED
        BY <1>4, <2>1 DEF CreateTemp, WriteFails, TakeLock, LockTimesOut
<1>5. CASE SyncTemp(q)
    <2>1. pc'[l] = pc[l] /\ saving'[l] = saving[l]
        BY <1>1, <1>5 DEF SyncTemp, Goto
    <2> QED
        BY <1>5, <2>1 DEF SyncTemp
<1>6. CASE ReadRegistry(q)
    <2>1. pc'[l] = pc[l] /\ saving'[l] = saving[l]
        BY <1>1, <1>6 DEF ReadRegistry, Save, End, Goto
    <2> QED
        BY <1>6, <2>1 DEF ReadRegistry
<1>7. CASE ReplaceFile(q)
    <2>1. pc'[l] = pc[l]
        BY <1>1, <1>7 DEF ReplaceFile, End, Goto
    <2>2. saving[q].file = "registry"
        BY <1>7, Others DEF ReplaceFile, Writing
    <2>3. records'["config"] = records["config"]
        BY <1>1, <1>7, <2>2, Replaced DEF RecordFiles
    <2> QED
        BY <1>7, <2>1, <2>3 DEF ReplaceFile
<1>8. ASSUME ~CreateTemp(q), ~WriteFails(q), ~TakeLock(q), ~LockTimesOut(q), ~SyncTemp(q),
             ~ReadRegistry(q), ~ReplaceFile(q), Step(q)
      PROVE  pc[q] \in Working \cup {"load"}
    BY <1>8 DEF Step, Working, LoadConfig, ApplyMirrors, MirrorRemove, EnsureSafe, StartDownload,
        FinishDownload, VerifyDownload, Promote, StartPrepare, FinishPrepare, EnsureKey, WriteSeed,
        Guard, StartDisk, FinishDisk, NewVm, StartVm, StopVm, DiscoverIp, AskAddress, ProbeSsh, Bootstrap
<1> QED
    BY <1>2, <1>3, <1>4, <1>5, <1>6, <1>7, <1>8, Others

\* Who leaves the scope of l alone leaves what holds of it.
LEMMA ScopeHolds ==
    ASSUME NEW l \in Procs, LoneInv(l), UNCHANGED scope(l)
    PROVE  LoneInv(l)'
BY DEF scope, LoneInv, Alone, ImageOK, Using, DiskOK, MirrorsOK

\* Facts about l that every step starts from.
LEMMA Typed ==
    ASSUME IInv, NEW l \in Procs
    PROVE  /\ CoreInv /\ ProcOK(l) /\ SavingOK(l)
           /\ pc \in [Procs -> Points] /\ command \in [Procs -> Command \cup {NULL}]
           /\ mgr \in [Procs -> Config \cup {NULL}] /\ saving = [p \in Procs |-> saving[p]]
           /\ files \in [Artifacts -> Contents]
           /\ guest \in [address : Addresses \cup {NULL}, runtime : BOOLEAN, mirrors : SUBSET Mirrors]
           /\ records["config"].value \in Config
           /\ pc[l] \in Working \cup Writing \cup {"load"} => pc[l] # "idle"
BY DEF IInv, CoreInv, MachineOK, RecordsOK, Working, Writing

\* A flush changes nothing of what is about to be written.
LEMMA Synced ==
    ASSUME IInv, NEW l \in Procs, SyncTemp(l)
    PROVE  /\ pc[l] = "sync" /\ pc'[l] = "replace"
           /\ saving'[l].file = saving[l].file /\ saving'[l].value = saving[l].value
           /\ saving'[l].next = saving[l].next
           /\ UNCHANGED <<given, format, records, files, vm, guest, command, mgr>>
<1>1. saving[l] = [file |-> saving[l].file, value |-> saving[l].value,
                   synced |-> saving[l].synced, next |-> saving[l].next]
    BY Typed DEF SavingOK
<1>2. saving' = [saving EXCEPT ![l].synced = TRUE] /\ saving = [q \in Procs |-> saving[q]]
    BY Typed DEF SyncTemp
<1>3. saving'[l] = [file |-> saving[l].file, value |-> saving[l].value, synced |-> TRUE,
                    next |-> saving[l].next]
    BY <1>1, <1>2
<1> QED
    BY <1>3, Typed DEF SyncTemp, Goto, host, machine

LEMMA Saved ==
    ASSUME IInv, NEW l \in Procs, NEW file, NEW value, NEW next, Save(l, file, value, next)
    PROVE  /\ pc'[l] = "write" /\ saving'[l].file = file
           /\ saving'[l].value = value /\ saving'[l].next = next
BY Typed DEF Save, Goto

-----------------------------------------------------------------------------
(* Images. *)

LEMMA ImageStep ==
    ASSUME IInv, NEW l \in Procs, ImageOK(l), Step(l)
    PROVE  ImageOK(l)'
<1> USE Typed DEF host, machine, local, Goto, End, Save, Put, ImageOK, Using, Writing
<1>1. CASE CreateTemp(l) \/ SyncTemp(l) \/ WriteFails(l)
    <2>1. CASE CreateTemp(l)
        BY <2>1 DEF CreateTemp
    <2>2. CASE SyncTemp(l)
        BY <2>2, Synced
    <2>3. CASE WriteFails(l)
        BY <2>3 DEF WriteFails
    <2> QED
        BY <1>1, <2>1, <2>2, <2>3
<1>2. CASE ReplaceFile(l)
    BY <1>2 DEF ReplaceFile, SavingOK
<1>3. CASE TakeLock(l) \/ LockTimesOut(l) \/ ReadRegistry(l)
    BY <1>3 DEF TakeLock, LockTimesOut, ReadRegistry
<1>4. CASE LoadConfig(l)
    BY <1>4 DEF LoadConfig, Entry
<1>5. CASE ApplyMirrors(l)
    BY <1>5 DEF ApplyMirrors
<1>6. CASE MirrorRemove(l)
    BY <1>6 DEF MirrorRemove
<1>7. CASE EnsureSafe(l)
    BY <1>7 DEF EnsureSafe
<1>8. CASE StartDownload(l)
    BY <1>8 DEF StartDownload, Downloaded, Artifacts
<1>9. CASE FinishDownload(l)
    BY <1>9 DEF FinishDownload, Artifacts
<1>10. CASE VerifyDownload(l)
    BY <1>10 DEF VerifyDownload, Artifacts
<1>11. CASE Promote(l)
    BY <1>11 DEF Promote, Downloaded, Artifacts
<1>12. CASE StartPrepare(l)
    BY <1>12 DEF StartPrepare, Artifacts
<1>13. CASE FinishPrepare(l)
    BY <1>13 DEF FinishPrepare, Artifacts
<1>14. CASE EnsureKey(l)
    BY <1>14 DEF EnsureKey
<1>15. CASE WriteSeed(l)
    BY <1>15 DEF WriteSeed, Artifacts
<1>16. CASE Guard(l)
    BY <1>16 DEF Guard
<1>17. CASE StartDisk(l) \/ FinishDisk(l)
    BY <1>17 DEF StartDisk, FinishDisk, Artifacts
<1>18. CASE NewVm(l)
    BY <1>18 DEF NewVm
<1>19. CASE StartVm(l) \/ StopVm(l)
    BY <1>19 DEF StartVm, StopVm
<1>20. CASE DiscoverIp(l) \/ AskAddress(l)
    <2>1. UNCHANGED <<files, command>>
        BY <1>20 DEF DiscoverIp, AskAddress
    <2>2. ASSUME NEW cfg, NEW next \in {"ssh", "done", "probe"}, Save(l, "config", cfg, next)
          PROVE  ImageOK(l)'
        BY <2>1, <2>2, Saved
    <2>3. CASE pc'[l] \in {"discover", "failed", "probe"}
        BY <2>1, <2>3
    <2> HIDE DEF Save
    <2>4. CASE DiscoverIp(l)
        BY <2>2, <2>3, <2>4 DEF DiscoverIp
    <2>5. CASE AskAddress(l)
        BY <2>2, <2>3, <2>5 DEF AskAddress
    <2> QED
        BY <1>20, <2>4, <2>5
<1>21. CASE ProbeSsh(l) \/ Bootstrap(l)
    BY <1>21 DEF ProbeSsh, Bootstrap
<1> QED
    BY <1>1, <1>2, <1>3, <1>4, <1>5, <1>6, <1>7, <1>8, <1>9, <1>10, <1>11, <1>12, <1>13, <1>14,
       <1>15, <1>16, <1>17, <1>18, <1>19, <1>20, <1>21 DEF Step

-----------------------------------------------------------------------------
(* The disk. *)

LEMMA DiskStep ==
    ASSUME IInv, NEW l \in Procs, DiskOK(l), Step(l)
    PROVE  DiskOK(l)'
<1> USE Typed DEF host, machine, local, Goto, End, Save, Put, DiskOK
<1>1. CASE CreateTemp(l) \/ SyncTemp(l) \/ WriteFails(l)
    BY <1>1 DEF CreateTemp, SyncTemp, WriteFails
<1>2. CASE ReplaceFile(l)
    BY <1>2 DEF ReplaceFile, SavingOK
<1>3. CASE TakeLock(l) \/ LockTimesOut(l) \/ ReadRegistry(l)
    BY <1>3 DEF TakeLock, LockTimesOut, ReadRegistry
<1>4. CASE LoadConfig(l)
    BY <1>4 DEF LoadConfig, Entry
<1>5. CASE ApplyMirrors(l) \/ MirrorRemove(l)
    BY <1>5 DEF ApplyMirrors, MirrorRemove
<1>6. CASE EnsureSafe(l) \/ EnsureKey(l)
    BY <1>6 DEF EnsureSafe, EnsureKey
<1>7. CASE StartDownload(l) \/ FinishDownload(l) \/ VerifyDownload(l) \/ Promote(l)
    BY <1>7 DEF StartDownload, FinishDownload, VerifyDownload, Promote, Downloaded, Artifacts
<1>8. CASE StartPrepare(l) \/ FinishPrepare(l) \/ WriteSeed(l)
    BY <1>8 DEF StartPrepare, FinishPrepare, WriteSeed, Artifacts
<1>9. CASE Guard(l)
    BY <1>9 DEF Guard, Existing
<1>10. CASE StartDisk(l)
    BY <1>10 DEF StartDisk, Artifacts
<1>11. CASE FinishDisk(l)
    BY <1>11 DEF FinishDisk, Artifacts
<1>12. CASE NewVm(l)
    BY <1>12 DEF NewVm
<1>13. CASE StartVm(l) \/ StopVm(l)
    BY <1>13 DEF StartVm, StopVm, VmStarts, VmStops
<1>14. CASE DiscoverIp(l) \/ AskAddress(l)
    <2>1. UNCHANGED <<files, vm>> /\ pc'[l] \in {"write", "discover", "failed", "probe"}
        BY <1>14 DEF DiscoverIp, AskAddress
    <2> QED
        BY <2>1
<1>15. CASE ProbeSsh(l) \/ Bootstrap(l)
    BY <1>15 DEF ProbeSsh, Bootstrap
<1> QED
    BY <1>1, <1>2, <1>3, <1>4, <1>5, <1>6, <1>7, <1>8, <1>9, <1>10, <1>11, <1>12, <1>13, <1>14,
       <1>15 DEF Step

-----------------------------------------------------------------------------
(* Mirrors. *)

\* The guest has no mirror it had not, and the command goes on or ends.
LEMMA MirrorsMove ==
    ASSUME NEW l \in Procs, MirrorsOK(l), UNCHANGED <<records, mgr>>,
           guest'.mirrors \subseteq records["config"].value.mirrors,
           pc'[l] \in Working => pc[l] \in Working, pc'[l] \notin Writing
    PROVE  MirrorsOK(l)'
BY DEF MirrorsOK

\* A configuration is to be written that lists every mirror of the guest.
LEMMA MirrorsSave ==
    ASSUME NEW l \in Procs, MirrorsOK(l), UNCHANGED records, pc'[l] = "write",
           saving'[l].value.mirrors = mgr'[l].mirrors,
           guest'.mirrors \subseteq records["config"].value.mirrors,
           guest'.mirrors \subseteq mgr'[l].mirrors
    PROVE  MirrorsOK(l)'
BY DEF MirrorsOK, Working

LEMMA MirrorsStep ==
    ASSUME IInv, NEW l \in Procs, MirrorsOK(l), Step(l)
    PROVE  MirrorsOK(l)'
<1> USE Typed DEF host, machine, local, Goto, End, Save, MirrorsOK, Writing
<1>1. CASE CreateTemp(l) \/ SyncTemp(l) \/ WriteFails(l)
    <2>1. CASE CreateTemp(l) \/ WriteFails(l)
        BY <2>1 DEF CreateTemp, WriteFails, Working
    <2>2. CASE SyncTemp(l)
        BY <2>2, Synced DEF Working
    <2> QED
        BY <1>1, <2>1, <2>2
<1>2. CASE ReplaceFile(l)
    <2>1. UNCHANGED <<guest, mgr>> /\ pc[l] = "replace" /\ pc'[l] = saving[l].next
        BY <1>2 DEF ReplaceFile
    <2>2. saving[l].file = "config" \/ saving[l].file = "registry"
        BY <2>1, WriteHolds DEF RecordFiles
    <2>3. CASE saving[l].file = "config"
        <3>1. records'["config"].value.mirrors = mgr[l].mirrors /\ guest.mirrors \subseteq mgr[l].mirrors
            BY <1>2, <2>1, <2>3, Replaced
        <3>2. pc'[l] \notin Writing
            BY <2>1 DEF SavingOK
        <3> QED
            BY <2>1, <3>1, <3>2
    <2>4. CASE saving[l].file = "registry"
        <3>1. records'["config"] = records["config"] /\ pc'[l] = "done"
            BY <1>2, <2>1, <2>4, Replaced DEF RecordFiles, ProcOK, Transaction
        <3> QED
            BY <2>1, <3>1 DEF Working
    <2> QED
        BY <2>2, <2>3, <2>4
<1>3. CASE TakeLock(l) \/ LockTimesOut(l) \/ ReadRegistry(l)
    BY <1>3 DEF TakeLock, LockTimesOut, ReadRegistry, Working
<1>4. CASE LoadConfig(l)
    <2> DEFINE cfg == records["config"].value
               name == command[l].name
               changed == IF name = "configure" THEN [cfg EXCEPT !.host = command[l].arg]
                          ELSE [cfg EXCEPT !.mirrors = @ \cup {command[l].arg}]
    <2>1. pc[l] = "load" /\ UNCHANGED <<records, guest>> /\ cfg \in Config
        BY <1>4 DEF LoadConfig
    <2>2. ASSUME mgr' = [mgr EXCEPT ![l] = changed], Save(l, "config", changed, "done")
                    \/ Save(l, "config", changed, "mirrors")
          PROVE  MirrorsOK(l)'
        <3>1. cfg.mirrors \subseteq changed.mirrors
            BY <2>1 DEF Config
        <3> HIDE DEF changed, Save
        <3>2. mgr'[l] = changed /\ saving'[l].value = changed /\ pc'[l] = "write"
            BY <2>2, Saved
        <3> QED
            BY <2>1, <3>1, <3>2, MirrorsSave
    <2>3. ASSUME mgr' = [mgr EXCEPT ![l] = cfg], pc' = [pc EXCEPT ![l] = Entry(name)]
          PROVE  MirrorsOK(l)'
        <3>1. mgr'[l] = cfg /\ pc'[l] = Entry(name)
            BY <2>3
        <3>2. Entry(name) \notin Writing
            BY DEF Entry
        <3> QED
            BY <2>1, <3>1, <3>2
    <2>4. CASE pc' = [pc EXCEPT ![l] = "failed"]
        BY <2>1, <2>4 DEF Working
    <2> QED
        BY <1>4, <2>2, <2>3, <2>4 DEF LoadConfig
<1>5. CASE ApplyMirrors(l)
    <2>1. guest'.mirrors \subseteq guest.mirrors \cup mgr[l].mirrors
        BY <1>5 DEF ApplyMirrors
    <2>2. pc[l] \in Working /\ pc'[l] \in {"done", "failed"} /\ UNCHANGED <<records, mgr>>
        BY <1>5 DEF ApplyMirrors, Working
    <2> QED
        BY <2>1, <2>2, MirrorsMove
<1>6. CASE MirrorRemove(l)
    <2>1. pc[l] \in Working /\ UNCHANGED records /\ mgr[l] \in Config
        BY <1>6 DEF MirrorRemove, Working, ProcOK
    <2>2. CASE pc' = [pc EXCEPT ![l] = "failed"] /\ UNCHANGED mgr
        <3>1. guest'.mirrors \subseteq guest.mirrors
            BY <1>6 DEF MirrorRemove, Without
        <3> QED
            BY <2>1, <2>2, <3>1, MirrorsMove DEF Working
    <2>3. ASSUME guest' = Without(guest, command[l].arg),
                 mgr' = [mgr EXCEPT ![l] = Without(@, command[l].arg)],
                 Save(l, "config", Without(mgr[l], command[l].arg), "done")
          PROVE  MirrorsOK(l)'
        <3>1. mgr'[l] = Without(mgr[l], command[l].arg) /\ saving'[l].value = mgr'[l] /\ pc'[l] = "write"
            BY <2>3
        <3>2. /\ guest'.mirrors = guest.mirrors \ {command[l].arg}
              /\ Without(mgr[l], command[l].arg).mirrors = mgr[l].mirrors \ {command[l].arg}
            BY <2>1, <2>3 DEF Without, Config
        <3> QED
            BY <2>1, <3>1, <3>2, MirrorsSave
    <2> QED
        BY <1>6, <2>2, <2>3 DEF MirrorRemove
<1>7. CASE EnsureSafe(l) \/ StartDownload(l) \/ FinishDownload(l) \/ VerifyDownload(l) \/ Promote(l)
    BY <1>7 DEF EnsureSafe, StartDownload, FinishDownload, VerifyDownload, Promote, Downloaded, Working
<1>8. CASE StartPrepare(l) \/ FinishPrepare(l) \/ WriteSeed(l) \/ Guard(l)
    BY <1>8 DEF StartPrepare, FinishPrepare, WriteSeed, Guard, Working
<1>9. CASE EnsureKey(l)
    BY <1>9 DEF EnsureKey, Working
<1>10. CASE StartDisk(l) \/ FinishDisk(l)
    BY <1>10 DEF StartDisk, FinishDisk, Working
<1>11. CASE NewVm(l)
    BY <1>11 DEF NewVm, Working
<1>12. CASE StartVm(l) \/ StopVm(l)
    <2>1. guest'.mirrors = guest.mirrors /\ UNCHANGED <<records, mgr>>
        BY <1>12 DEF StartVm, StopVm, VmStarts, VmStops
    <2>2. pc[l] \in Working /\ pc'[l] \in {"done", "failed", "discover", "ssh"}
        BY <1>12 DEF StartVm, StopVm, Working
    <2> QED
        BY <2>1, <2>2, MirrorsMove
<1>13. CASE DiscoverIp(l)
    <2>1. pc[l] = "discover" /\ pc[l] \in Working /\ mgr[l] \in Config /\ UNCHANGED <<records, guest>>
        BY <1>13 DEF DiscoverIp, Working, ProcOK
    <2> HIDE DEF Save
    <2>2. ASSUME NEW a \in vm_ip, mgr' = [mgr EXCEPT ![l] = [mgr[l] EXCEPT !.host = a]],
                 NEW next, Save(l, "config", [mgr[l] EXCEPT !.host = a], next)
          PROVE  MirrorsOK(l)'
        <3>1. [mgr[l] EXCEPT !.host = a].mirrors = mgr[l].mirrors
            BY <2>1 DEF Config
        <3>2. mgr'[l] = [mgr[l] EXCEPT !.host = a]
            BY <2>2
        <3>3. saving'[l].value = mgr'[l] /\ pc'[l] = "write"
            BY <2>2, <3>2, Saved
        <3> QED
            BY <2>1, <3>1, <3>2, <3>3, MirrorsSave
    <2>3. CASE pc'[l] \in {"discover", "failed"} /\ UNCHANGED mgr
        BY <2>1, <2>3, MirrorsMove
    <2> QED
        BY <1>13, <2>1, <2>2, <2>3 DEF DiscoverIp
<1>14. CASE AskAddress(l)
    <2>1. pc[l] \in Working /\ mgr[l] \in Config /\ UNCHANGED <<records, guest, mgr>>
        BY <1>14 DEF AskAddress, Working, ProcOK
    <2>2. ASSUME NEW a \in vm_ip, Save(l, "config", [mgr[l] EXCEPT !.host = a], "probe")
          PROVE  MirrorsOK(l)'
        <3>1. [mgr[l] EXCEPT !.host = a].mirrors = mgr[l].mirrors
            BY <2>1 DEF Config
        <3>2. saving'[l].value = [mgr[l] EXCEPT !.host = a] /\ pc'[l] = "write"
            BY <2>2
        <3> QED
            BY <2>1, <3>1, <3>2, MirrorsSave
    <2>3. CASE pc' = [pc EXCEPT ![l] = "probe"]
        BY <2>1, <2>3, MirrorsMove DEF Working
    <2> QED
        BY <1>14, <2>2, <2>3 DEF AskAddress
<1>15. CASE ProbeSsh(l) \/ Bootstrap(l)
    <2>1. pc[l] \in Working /\ UNCHANGED <<records, mgr>> /\ guest'.mirrors = guest.mirrors
        BY <1>15 DEF ProbeSsh, Bootstrap, Working
    <2>2. pc'[l] \in {"bootstrap", "ssh", "failed", "mirrors"}
        BY <1>15 DEF ProbeSsh, Bootstrap
    <2> QED
        BY <2>1, <2>2, MirrorsMove
<1> QED
    BY <1>1, <1>2, <1>3, <1>4, <1>5, <1>6, <1>7, <1>8, <1>9, <1>10, <1>11, <1>12, <1>13, <1>14,
       <1>15 DEF Step

-----------------------------------------------------------------------------
(* Begin, the end of a command, and what happens around them. *)

LEMMA BeginLone ==
    ASSUME IInv, NEW l \in Procs, LoneInv(l), Begin(l)
    PROVE  LoneInv(l)'
<1>1. /\ pc'[l] \in {"lock", "load"} /\ UNCHANGED <<given, format, files, vm, guest, records>>
    BY Typed DEF Begin, Goto, host, machine
<1> QED
    BY <1>1 DEF LoneInv, Alone, ImageOK, Using, DiskOK, MirrorsOK, Writing, Working

LEMMA KilledLone ==
    ASSUME IInv, NEW l \in Procs, LoneInv(l), Killed(l)
    PROVE  LoneInv(l)'
<1>1. /\ pc'[l] = "killed" /\ UNCHANGED <<given, format, files, vm, guest, records>>
    BY Typed DEF Killed, End, Goto, machine
<1> QED
    BY <1>1 DEF LoneInv, Alone, ImageOK, Using, DiskOK, MirrorsOK, Writing, Working

LEMMA StepLone ==
    ASSUME IInv, NEW l \in Procs, LoneInv(l), Step(l)
    PROVE  LoneInv(l)'
<1>1. given' = given
    BY DEF Step, CreateTemp, SyncTemp, ReplaceFile, WriteFails, TakeLock, LockTimesOut, ReadRegistry,
        LoadConfig, ApplyMirrors, MirrorRemove, EnsureSafe, StartDownload, FinishDownload,
        VerifyDownload, Promote, StartPrepare, FinishPrepare, EnsureKey, WriteSeed, Guard,
        StartDisk, FinishDisk, NewVm, StartVm, StopVm, DiscoverIp, AskAddress, ProbeSsh, Bootstrap
<1> QED
    BY <1>1, ImageStep, DiskStep, MirrorsStep DEF LoneInv, Alone

LEMMA PowerFailureLone ==
    ASSUME IInv, NEW l \in Procs, LoneInv(l), PowerFailure
    PROVE  LoneInv(l)'
<1>1. /\ pc'[l] \in Resting /\ UNCHANGED <<given, files, records>>
      /\ vm' # "absent" => vm # "absent"
      /\ guest'.mirrors = guest.mirrors
    BY PowerFailureStep, Typed DEF PowerFailure, Resting
<1> QED
    BY <1>1 DEF LoneInv, Alone, ImageOK, Using, DiskOK, MirrorsOK, Writing, Working, Resting

LEMMA AroundLone ==
    ASSUME IInv, NEW l \in Procs, LoneInv(l), GuestMoves \/ GuestStops \/ CleanUp
    PROVE  LoneInv(l)'
<1> USE DEF host, local
<1>1. CASE GuestMoves \/ GuestStops
    <2>1. /\ UNCHANGED <<given, format, files, records, pc, command, mgr, saving>>
          /\ vm # "absent" /\ guest'.mirrors = guest.mirrors
        BY <1>1, Typed DEF GuestMoves, GuestStops, VmStarts, VmStops
    <2>2. ImageOK(l)' /\ Alone(l)'
        BY <2>1 DEF LoneInv, Alone, ImageOK, Using
    <2>3. DiskOK(l)'
        BY <2>1 DEF LoneInv, DiskOK
    <2>4. MirrorsOK(l)'
        BY <2>1 DEF LoneInv, MirrorsOK
    <2> QED
        BY <2>2, <2>3, <2>4 DEF LoneInv
<1>2. CASE CleanUp
    <2>1. /\ pc[l] \in Resting /\ pc' = pc /\ vm' = "absent"
          /\ guest'.mirrors = {} /\ files'["prepared"] = files["prepared"]
          /\ UNCHANGED <<given, records>>
        BY <1>2 DEF CleanUp, Artifacts
    <2> QED
        BY <2>1 DEF LoneInv, Alone, ImageOK, Using, DiskOK, MirrorsOK, Writing, Working, Resting
<1> QED
    BY <1>1, <1>2

-----------------------------------------------------------------------------
(* The theorems. *)

LoneTerminal == \E l \in Procs : LoneInv(l)

LEMMA InitLone ==
    ASSUME OneTerminal, SoundHosts, Init
    PROVE  LoneTerminal
<1>1. PICK case \in Cases : given = case.given /\ files = case.files /\ vm = case.vm
    BY DEF Init
<1>2. PICK l \in Procs : Alone(l)
    BY <1>1 DEF OneTerminal, Alone, RegistryCommands
<1>3. ImageOK(l)
    BY <1>1 DEF Init, ImageOK, Using, SoundHosts, Writing
<1>4. DiskOK(l)
    BY <1>1 DEF Init, DiskOK, SoundHosts
<1>5. MirrorsOK(l)
    BY DEF Init, MirrorsOK, RecordFiles, Working, Writing
<1> QED
    BY <1>2, <1>3, <1>4, <1>5 DEF LoneTerminal, LoneInv

LEMMA NextLone ==
    ASSUME IInv, LoneTerminal, [Next]_vars
    PROVE  LoneTerminal'
<1>1. PICK l \in Procs : LoneInv(l)
    BY DEF LoneTerminal
<1>2. CASE UNCHANGED vars
    BY <1>1, <1>2, ScopeHolds DEF scope, vars, host, machine, local, LoneTerminal
<1>3. ASSUME NEW q \in Procs \ {l}, Begin(q) \/ Step(q) \/ Killed(q)
      PROVE  LoneInv(l)'
    BY <1>1, <1>3, OthersKeepScope, ScopeHolds DEF LoneInv
<1>4. CASE Begin(l) \/ Step(l) \/ Killed(l)
    BY <1>1, <1>4, BeginLone, StepLone, KilledLone DEF LoneTerminal
<1>5. CASE PowerFailure \/ GuestMoves \/ GuestStops \/ CleanUp
    BY <1>1, <1>5, PowerFailureLone, AroundLone DEF LoneTerminal
<1> QED
    BY <1>2, <1>3, <1>4, <1>5 DEF Next, LoneTerminal

\* What is so of the one terminal that works with the machine, always.
THEOREM LoneInvariant ==
    ASSUME OneTerminal, SoundHosts
    PROVE  Spec => [](IInv /\ LoneTerminal)
<1>1. Init => IInv /\ LoneTerminal
    BY InitHolds, InitLone
<1>2. IInv /\ LoneTerminal /\ [Next]_vars => IInv' /\ LoneTerminal'
    BY NextHolds, NextLone
<1> QED
    BY <1>1, <1>2, PTL DEF Spec

\* A machine is made from one whole disk, whatever killed commands have left
\* (hyperv, 13-36, 743-785).
THEOREM DiskStaysWhole ==
    ASSUME OneTerminal, SoundHosts
    PROVE  Spec => []VmDiskIsWhole
<1>1. IInv /\ LoneTerminal => VmDiskIsWhole
    BY DEF LoneTerminal, LoneInv, DiskOK, VmDiskIsWhole
<1> QED
    BY <1>1, LoneInvariant, PTL

\* Only bytes with the expected digest come under the name of the image or go
\* into a disk (hyperv, 646-727, 1098-1211).
THEOREM VerifiedIsUsed ==
    ASSUME OneTerminal, SoundHosts
    PROVE  Spec => []OnlyVerifiedIsUsed
<1>1. ASSUME IInv, NEW l \in Procs, LoneInv(l), NEW p \in Procs, command[p] # NULL, command[p].name = "init",
             pc[p] \in {"prepare", "preparing", "check_again", "key", "seed", "guard", "copy"}
      PROVE  files["image"] = "good" /\ files["prepared"] # "bad"
    <2>1. pc[p] \in Working
        BY <1>1 DEF Working
    <2>2. p = l
        BY <1>1, <2>1, Others DEF LoneInv
    <2> QED
        BY <1>1, <2>2 DEF LoneInv, ImageOK, Using
<1>2. IInv /\ LoneTerminal => OnlyVerifiedIsUsed
    BY <1>1 DEF LoneTerminal, OnlyVerifiedIsUsed
<1> QED
    BY <1>2, LoneInvariant, PTL

\* The configuration lists every mirror that is active in the guest
\* (hyperv, 1373-1407).
THEOREM MirrorsAreListed ==
    ASSUME OneTerminal, SoundHosts
    PROVE  Spec => []GuestMirrorsAreConfigured
<1>1. IInv /\ LoneTerminal => GuestMirrorsAreConfigured
    BY DEF LoneTerminal, LoneInv, MirrorsOK, GuestMirrorsAreConfigured
<1> QED
    BY <1>1, LoneInvariant, PTL

\* What one step may do to a file that is finished.
Spared == \A f \in Artifacts \ {"partial"} :
    (files[f] = "good" /\ files'[f] # "good" /\ ~CleanUp) => (f = "prepared" /\ format = "tar")

LEMMA StepSpares ==
    ASSUME IInv, NEW l \in Procs, LoneInv(l), Step(l)
    PROVE  Spared
<1> USE Typed DEF Put, Spared
<1>1. CASE Promote(l)
    <2>1. files["partial"] = "good"
        BY <1>1 DEF Promote, LoneInv, ImageOK
    <2> QED
        BY <1>1, <2>1 DEF Promote
<1>2. CASE StartPrepare(l)
    <2>1. format \in {"vhdx", "qcow2", "tar"}
        BY ProvisionAssumption DEF IInv, CoreInv
    <2> QED
        BY <1>2, <2>1 DEF StartPrepare
<1>3. CASE FinishPrepare(l)
    <2>1. files["image"] = "good"
        BY <1>3 DEF FinishPrepare, LoneInv, ImageOK, Using
    <2> QED
        BY <1>3, <2>1 DEF FinishPrepare
<1>4. CASE StartDownload(l) \/ FinishDownload(l) \/ VerifyDownload(l)
    BY <1>4 DEF StartDownload, FinishDownload, VerifyDownload
<1>5. CASE WriteSeed(l)
    BY <1>5 DEF WriteSeed
<1>6. CASE StartDisk(l) \/ FinishDisk(l)
    BY <1>6 DEF StartDisk, FinishDisk
<1>7. ASSUME ~Promote(l), ~StartPrepare(l), ~FinishPrepare(l), ~StartDownload(l), ~FinishDownload(l),
             ~VerifyDownload(l), ~WriteSeed(l), ~StartDisk(l), ~FinishDisk(l)
      PROVE  UNCHANGED files
    BY <1>7 DEF Step, CreateTemp, SyncTemp, ReplaceFile, WriteFails, TakeLock, LockTimesOut, ReadRegistry,
        LoadConfig, ApplyMirrors, MirrorRemove, EnsureSafe, EnsureKey, Guard, NewVm, StartVm, StopVm,
        DiscoverIp, AskAddress, ProbeSsh, Bootstrap, machine
<1> QED
    BY <1>1, <1>2, <1>3, <1>4, <1>5, <1>6, <1>7

\* What was finished before is not touched by any later command, but for an
\* archive that is unpacked again (hyperv, 1130-1211, 1223-1270).
THEOREM NothingIsLost ==
    ASSUME OneTerminal, SoundHosts
    PROVE  Spec => NothingIsOverwritten
<1>1. ASSUME IInv, LoneTerminal, [Next]_vars
      PROVE  [Spared]_vars
    <2>1. PICK l \in Procs : LoneInv(l)
        BY <1>1 DEF LoneTerminal
    <2>2. ASSUME NEW q \in Procs \ {l}, Begin(q) \/ Step(q) \/ Killed(q)
          PROVE  Spared
        BY <1>1, <2>1, <2>2, OthersKeepScope DEF LoneInv, scope, Spared
    <2>3. CASE Begin(l) \/ Killed(l) \/ PowerFailure \/ GuestMoves \/ GuestStops
        BY <2>3 DEF Begin, Killed, PowerFailure, GuestMoves, GuestStops, machine, Spared
    <2>4. CASE Step(l)
        BY <1>1, <2>1, <2>4, StepSpares
    <2>5. CASE CleanUp
        BY <2>5 DEF Spared
    <2> QED
        BY <1>1, <2>2, <2>3, <2>4, <2>5 DEF Next
<1> QED
    BY <1>1, LoneInvariant, PTL DEF Spec, NothingIsOverwritten, Spared
=============================================================================
