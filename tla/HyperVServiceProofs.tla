------------------------ MODULE HyperVServiceProofs ------------------------
(* Theorems about HyperVService.                                           *)
EXTENDS HyperVService, TLAPS

LoneManager == \A a, b \in Managers : a = b

(* What exists is told apart, and what worked last exists.                 *)
LayersAreTracked ==
    /\ slot \notin backups
    /\ \A c \in Layers : config[c] # NULL
    /\ proven # NULL => proven \in Layers

(* What the one manager may rely on between two commands.                  *)
Reliance(m) ==
    /\ pc[m] \notin {"idle", "remove"} => op[m].want \in Configs
    /\ pc[m] \in {"start", "health", "forward", "commit"} =>
          slot # NULL /\ config[slot] = op[m].want
    /\ pc[m] = "commit" => slot = proven
    /\ pc[m] \in {"reach", "inspect", "prepare", "start", "stop", "rename"} =>
          op[m].backup = NULL
    /\ pc[m] \in {"run", "health", "forward", "commit", "discard"} /\ op[m].backup # NULL =>
          op[m].backup \in backups
    /\ pc[m] = "run" /\ op[m].backup # NULL => slot = NULL
    /\ pc[m] \in {"health", "forward", "discard"} /\ op[m].backup # NULL =>
          slot = NULL \/ slot # proven
    /\ pc[m] = "discard" => op[m].backup # NULL
    /\ pc[m] = "restore" /\ smooth[m] => slot = NULL /\ op[m].backup \in backups
    /\ pc[m] = "revive" => slot # NULL /\ slot = op[m].backup
    /\ pc[m] = "forward_again" => slot = op[m].backup /\ (smooth[m] => slot \in running)
    /\ pc[m] \notin {"idle", "reach"} /\ smooth[m] => vm = "on" /\ op[m].host = addr
    /\ pc[m] = "commit" /\ op[m].caller = "cli" /\ smooth[m] =>
          \A p \in Wanted(m) : rules[p] = addr

IInv == TypeOK /\ LayersAreTracked /\ \A m \in Managers : Reliance(m)

-----------------------------------------------------------------------------
(* Type correctness.                                                       *)

LEMMA OpFields ==
    /\ NoOp \in Op
    /\ \A caller \in {"cli", "api"}, want \in Configs, host \in Addrs :
          [NoOp EXCEPT !.caller = caller, !.want = want,
                       !.loaded = host, !.host = host] \in Op
    /\ \A host \in Addrs : [NoOp EXCEPT !.loaded = host, !.host = host] \in Op
    /\ \A o \in Op, a \in Addrs : [o EXCEPT !.host = a] \in Op
    /\ \A o \in Op, c \in Containers : [o EXCEPT !.backup = c] \in Op
    /\ \A o \in Op, e \in BOOLEAN, w \in BOOLEAN :
          [o EXCEPT !.exists = e, !.was_running = w] \in Op
  BY DEF NoOp, Op

GuestTyped ==
    /\ slot \in Containers \cup {NULL}
    /\ backups \subseteq Containers
    /\ config \in [Containers -> Configs \cup {NULL}]
    /\ running \subseteq Layers

ControlTyped == pc \in [Managers -> Pcs] /\ op \in [Managers -> Op]

RulesTyped == rules \in [Ports -> Addrs \cup {NULL}]

LEMMA Moves ==
    ASSUME ControlTyped, NEW m \in Managers
    PROVE  /\ \A label \in Pcs : Goto(m, label) => ControlTyped'
           /\ \A label \in Pcs, o \in Op : GotoWith(m, label, o) => ControlTyped'
           /\ Return(m) => ControlTyped'
           /\ LaunchFails(m) => ControlTyped'
  <1>1. \A label \in Pcs : Goto(m, label) => ControlTyped'
    BY DEF Goto, ControlTyped
  <1>2. \A label \in Pcs, o \in Op : GotoWith(m, label, o) => ControlTyped'
    BY DEF GotoWith, ControlTyped
  <1>3. Return(m) => ControlTyped'
    BY <1>2, OpFields DEF Return, Pcs
  <1>4. QED
    BY <1>1, <1>2, <1>3 DEF LaunchFails, Pcs

LEMMA Effects ==
    ASSUME GuestTyped
    PROVE  /\ UNCHANGED guest => GuestTyped'
           /\ slot # NULL /\ StartSlot => GuestTyped'
           /\ StopSlot => GuestTyped'
           /\ RemoveSlot => GuestTyped'
           /\ slot # NULL /\ RenameSlot => GuestTyped'
           /\ \A c : RemoveBackup(c) => GuestTyped'
           /\ \A c \in backups : slot = NULL /\ RenameBack(c) => GuestTyped'
           /\ PowerOn => GuestTyped'
  <1> USE DEF GuestTyped, Layers
  <1>1. UNCHANGED guest => GuestTyped'
    BY DEF guest
  <1>2. slot # NULL /\ StartSlot => GuestTyped'
    BY DEF StartSlot
  <1>3. StopSlot => GuestTyped'
    BY DEF StopSlot
  <1>4. RemoveSlot => GuestTyped'
    BY DEF RemoveSlot
  <1>5. slot # NULL /\ RenameSlot => GuestTyped'
    BY DEF RenameSlot
  <1>6. \A c : RemoveBackup(c) => GuestTyped'
    BY DEF RemoveBackup
  <1>7. \A c \in backups : slot = NULL /\ RenameBack(c) => GuestTyped'
    BY HyperVAssumption DEF RenameBack
  <1>8. PowerOn => GuestTyped'
    BY DEF PowerOn
  <1>9. QED
    BY <1>1, <1>2, <1>3, <1>4, <1>5, <1>6, <1>7, <1>8

LEMMA Forwards ==
    ASSUME RulesTyped, NEW m, NEW a \in Addrs \cup {NULL},
           ForwardsTo(m, a) \/ ForwardsPartly(m, a)
    PROVE  RulesTyped'
  <1>1. CASE ForwardsTo(m, a)
    BY <1>1 DEF ForwardsTo, RulesTyped
  <1>2. CASE ForwardsPartly(m, a)
    <2>1. PICK bad \in Wanted(m), done \in SUBSET Wanted(m) :
             rules' = [p \in Ports |-> IF p = bad THEN NULL
                                       ELSE IF p \in done THEN a ELSE rules[p]]
      BY <1>2 DEF ForwardsPartly
    <2>2. QED
      BY <2>1 DEF RulesTyped
  <1>3. QED
    BY <1>1, <1>2

LEMMA TypeParts ==
    TypeOK <=> /\ GuestTyped /\ ControlTyped /\ RulesTyped
               /\ vm \in {"on", "off"} /\ addr \in Addrs /\ ssh_host \in Addrs
               /\ proven \in Containers \cup {NULL}
               /\ smooth \in [Managers -> BOOLEAN]
  BY DEF TypeOK, GuestTyped, ControlTyped, RulesTyped

LEMMA TypeStep ==
    ASSUME TypeOK, [Next]_vars
    PROVE  TypeOK'
  <1> USE DEF TypeOK, Layers
  <1>1. ASSUME NEW m \in Managers, NEW caller \in {"cli", "api"}, NEW want \in Configs,
               CallStart(m, caller, want)
        PROVE  TypeOK'
    BY <1>1, OpFields DEF CallStart, GotoWith, guest, machine, Pcs
  <1>2. ASSUME NEW m \in Managers, NEW known \in Configs, CallStop(m, known)
        PROVE  TypeOK'
    BY <1>2, OpFields DEF CallStop, GotoWith, guest, machine, Pcs
  <1>3. ASSUME NEW m \in Managers, Reached(m)
        PROVE  TypeOK'
    BY <1>3, OpFields DEF Reached, Goto, GotoWith, Return, Disturbed, Answered, Unanswered, LaunchFails, Succeed, StartSlot, StopSlot, RemoveSlot, RenameSlot, RemoveBackup, RenameBack, PowerOn, ForwardsTo, ForwardsPartly, Wanted, guest, machine, Pcs
  <1>4. ASSUME NEW m \in Managers, Recover(m)
        PROVE  TypeOK'
    BY <1>4, OpFields DEF Recover, Goto, GotoWith, Return, Disturbed, Answered, Unanswered, LaunchFails, Succeed, StartSlot, StopSlot, RemoveSlot, RenameSlot, RemoveBackup, RenameBack, PowerOn, ForwardsTo, ForwardsPartly, Wanted, guest, machine, Pcs
  <1>5. ASSUME NEW m \in Managers, CannotRecover(m)
        PROVE  TypeOK'
    BY <1>5, OpFields DEF CannotRecover, Goto, GotoWith, Return, Disturbed, Answered, Unanswered, LaunchFails, Succeed, StartSlot, StopSlot, RemoveSlot, RenameSlot, RemoveBackup, RenameBack, PowerOn, ForwardsTo, ForwardsPartly, Wanted, guest, machine, Pcs
  <1>6. ASSUME NEW m \in Managers, Inspects(m)
        PROVE  TypeOK'
    <2>1. ControlTyped /\ GuestTyped
      BY TypeParts
    <2>2. [op[m] EXCEPT !.exists = slot # NULL, !.was_running = slot \in running] \in Op
      <3>1. (slot # NULL) \in BOOLEAN /\ (slot \in running) \in BOOLEAN
        OBVIOUS
      <3>2. op[m] \in Op
        BY <2>1 DEF ControlTyped
      <3>3. QED
        BY <3>1, <3>2, OpFields, Zenon
    <2>3. ControlTyped'
      BY <1>6, <2>1, <2>2, Moves DEF Inspects, Pcs
    <2>4. QED
      BY <1>6, <2>3 DEF Inspects, Succeed, ControlTyped, guest, machine
  <1>7. ASSUME NEW m \in Managers, InspectionUnanswered(m)
        PROVE  TypeOK'
    BY <1>7, OpFields DEF InspectionUnanswered, Goto, GotoWith, Return, Disturbed, Answered, Unanswered, LaunchFails, Succeed, StartSlot, StopSlot, RemoveSlot, RenameSlot, RemoveBackup, RenameBack, PowerOn, ForwardsTo, ForwardsPartly, Wanted, guest, machine, Pcs
  <1>8. ASSUME NEW m \in Managers, StartExisting(m)
        PROVE  TypeOK'
    BY <1>8, OpFields, ZenonT(60) DEF StartExisting, Goto, GotoWith, Return, Disturbed, Answered, Unanswered, LaunchFails, Succeed, StartSlot, StopSlot, RemoveSlot, RenameSlot, RemoveBackup, RenameBack, PowerOn, ForwardsTo, ForwardsPartly, Wanted, guest, machine, Pcs
  <1>9. ASSUME NEW m \in Managers, Prepare(m)
        PROVE  TypeOK'
    BY <1>9, OpFields DEF Prepare, Goto, GotoWith, Return, Disturbed, Answered, Unanswered, LaunchFails, Succeed, StartSlot, StopSlot, RemoveSlot, RenameSlot, RemoveBackup, RenameBack, PowerOn, ForwardsTo, ForwardsPartly, Wanted, guest, machine, Pcs
  <1>10. ASSUME NEW m \in Managers, StopOld(m)
        PROVE  TypeOK'
    BY <1>10, OpFields, ZenonT(60) DEF StopOld, Goto, GotoWith, Return, Disturbed, Answered, Unanswered, LaunchFails, Succeed, StartSlot, StopSlot, RemoveSlot, RenameSlot, RemoveBackup, RenameBack, PowerOn, ForwardsTo, ForwardsPartly, Wanted, guest, machine, Pcs
  <1>11. ASSUME NEW m \in Managers, RenameOld(m)
        PROVE  TypeOK'
    <2>1. ControlTyped /\ GuestTyped
      BY TypeParts
    <2>2. slot # NULL => [op[m] EXCEPT !.backup = slot] \in Op
      BY <2>1, OpFields DEF ControlTyped, GuestTyped
    <2>3. ControlTyped'
      BY <1>11, <2>1, <2>2, Moves DEF RenameOld, Pcs
    <2>4. GuestTyped'
      BY <1>11, <2>1, Effects DEF RenameOld, Unanswered
    <2>5. QED
      BY <1>11, <2>3, <2>4 DEF RenameOld, Answered, Unanswered, Disturbed, machine, GuestTyped, ControlTyped, RulesTyped
  <1>12. ASSUME NEW m \in Managers, Run(m)
        PROVE  TypeOK'
    <2>1. ControlTyped /\ GuestTyped
      BY TypeParts
    <2>2. ControlTyped'
      BY <1>12, <2>1, Moves DEF Run, Pcs
    <2>3. op[m].want \in Configs \cup {NULL}
      BY <2>1 DEF ControlTyped, Op
    <2>4. GuestTyped'
      <3>1. CASE UNCHANGED guest
        BY <3>1, <2>1, Effects
      <3>2. CASE \E c \in Containers :
                   /\ config' = [config EXCEPT ![c] = op[m].want]
                   /\ slot' = c
                   /\ UNCHANGED backups
                   /\ running' \in {running, running \cup {c}}
                   /\ slot = NULL
        BY <3>2, <2>1, <2>3, HyperVAssumption DEF GuestTyped, Layers
      <3>3. QED
        BY <1>12, <3>1, <3>2 DEF Run
    <2>5. QED
      BY <1>12, <2>2, <2>4 DEF Run, machine, GuestTyped, ControlTyped, RulesTyped
  <1>13. ASSUME NEW m \in Managers, WaitForHealth(m)
        PROVE  TypeOK'
    BY <1>13, OpFields DEF WaitForHealth, Goto, GotoWith, Return, Disturbed, Answered, Unanswered, LaunchFails, Succeed, StartSlot, StopSlot, RemoveSlot, RenameSlot, RemoveBackup, RenameBack, PowerOn, ForwardsTo, ForwardsPartly, Wanted, guest, machine, Pcs
  <1>14. ASSUME NEW m \in Managers, Forward(m)
        PROVE  TypeOK'
    <2>1. ControlTyped /\ GuestTyped /\ RulesTyped
      BY TypeParts
    <2>2. ControlTyped'
      BY <1>14, <2>1, Moves DEF Forward, Pcs
    <2>3. op[m].host \in Addrs \cup {NULL}
      BY <2>1 DEF ControlTyped, Op
    <2>4. RulesTyped'
      BY <1>14, <2>1, <2>3, Forwards DEF Forward
    <2>5. GuestTyped'
      BY <1>14, <2>1, Effects DEF Forward
    <2>6. QED
      BY <1>14, <2>2, <2>4, <2>5 DEF Forward, machine, Succeed, GuestTyped, ControlTyped, RulesTyped
  <1>15. ASSUME NEW m \in Managers, Commit(m)
        PROVE  TypeOK'
    BY <1>15, OpFields DEF Commit, Goto, GotoWith, Return, Disturbed, Answered, Unanswered, LaunchFails, Succeed, StartSlot, StopSlot, RemoveSlot, RenameSlot, RemoveBackup, RenameBack, PowerOn, ForwardsTo, ForwardsPartly, Wanted, guest, machine, Pcs
  <1>16. ASSUME NEW m \in Managers, ForwardLater(m)
        PROVE  TypeOK'
    <2>1. ControlTyped /\ GuestTyped /\ RulesTyped
      BY TypeParts
    <2>2. ControlTyped'
      BY <1>16, <2>1, Moves DEF ForwardLater, Pcs
    <2>3. op[m].loaded \in Addrs \cup {NULL}
      BY <2>1 DEF ControlTyped, Op
    <2>4. RulesTyped'
      BY <1>16, <2>1, <2>3, Forwards DEF ForwardLater
    <2>5. GuestTyped'
      BY <1>16, <2>1, Effects DEF ForwardLater
    <2>6. QED
      BY <1>16, <2>2, <2>4, <2>5 DEF ForwardLater, machine, GuestTyped, ControlTyped, RulesTyped
  <1>17. ASSUME NEW m \in Managers, DiscardNew(m)
        PROVE  TypeOK'
    BY <1>17, OpFields DEF DiscardNew, Goto, GotoWith, Return, Disturbed, Answered, Unanswered, LaunchFails, Succeed, StartSlot, StopSlot, RemoveSlot, RenameSlot, RemoveBackup, RenameBack, PowerOn, ForwardsTo, ForwardsPartly, Wanted, guest, machine, Pcs
  <1>18. ASSUME NEW m \in Managers, RestoreOld(m)
        PROVE  TypeOK'
    <2>1. ControlTyped /\ GuestTyped
      BY TypeParts
    <2>2. ControlTyped'
      BY <1>18, <2>1, Moves DEF RestoreOld, Pcs
    <2>3. GuestTyped'
      BY <1>18, <2>1, Effects DEF RestoreOld, Unanswered
    <2>4. QED
      BY <1>18, <2>2, <2>3 DEF RestoreOld, Answered, Unanswered, Disturbed, machine, GuestTyped, ControlTyped, RulesTyped
  <1>19. ASSUME NEW m \in Managers, ReviveOld(m)
        PROVE  TypeOK'
    BY <1>19, OpFields DEF ReviveOld, Goto, GotoWith, Return, Disturbed, Answered, Unanswered, LaunchFails, Succeed, StartSlot, StopSlot, RemoveSlot, RenameSlot, RemoveBackup, RenameBack, PowerOn, ForwardsTo, ForwardsPartly, Wanted, guest, machine, Pcs
  <1>20. ASSUME NEW m \in Managers, ForwardAgain(m)
        PROVE  TypeOK'
    <2>1. ControlTyped /\ GuestTyped /\ RulesTyped
      BY TypeParts
    <2>2. ControlTyped'
      BY <1>20, <2>1, Moves DEF ForwardAgain, Pcs
    <2>3. op[m].host \in Addrs \cup {NULL}
      BY <2>1 DEF ControlTyped, Op
    <2>4. RulesTyped'
      BY <1>20, <2>1, <2>3, Forwards DEF ForwardAgain
    <2>5. GuestTyped'
      BY <1>20, <2>1, Effects DEF ForwardAgain
    <2>6. QED
      BY <1>20, <2>2, <2>4, <2>5 DEF ForwardAgain, machine, GuestTyped, ControlTyped, RulesTyped
  <1>21. ASSUME NEW m \in Managers, RemoveContainer(m)
        PROVE  TypeOK'
    BY <1>21, OpFields DEF RemoveContainer, Goto, GotoWith, Return, Disturbed, Answered, Unanswered, LaunchFails, Succeed, StartSlot, StopSlot, RemoveSlot, RenameSlot, RemoveBackup, RenameBack, PowerOn, ForwardsTo, ForwardsPartly, Wanted, guest, machine, Pcs
  <1>22. ASSUME NEW m \in Managers, Crash(m)
        PROVE  TypeOK'
    BY <1>22, OpFields DEF Crash, Goto, GotoWith, Return, Disturbed, Answered, Unanswered, LaunchFails, Succeed, StartSlot, StopSlot, RemoveSlot, RenameSlot, RemoveBackup, RenameBack, PowerOn, ForwardsTo, ForwardsPartly, Wanted, guest, machine, Pcs
  <1>23. ASSUME GuestStops
        PROVE  TypeOK'
    BY <1>23 DEF GuestStops, PowerOn, guest, machine
  <1>24. ASSUME GuestStarts
        PROVE  TypeOK'
    BY <1>24 DEF GuestStarts, PowerOn, guest, machine
  <1>25. ASSUME UNCHANGED vars
        PROVE  TypeOK'
    BY <1>25 DEF vars, guest, machine
  <1> HIDE DEF TypeOK, Layers
  <1>26. QED
    BY <1>1, <1>2, <1>3, <1>4, <1>5, <1>6, <1>7, <1>8, <1>9, <1>10, <1>11, <1>12, <1>13, <1>14, <1>15, <1>16, <1>17, <1>18, <1>19, <1>20, <1>21, <1>22, <1>23, <1>24, <1>25 DEF Next, Start, Rollback

(* Each variable stays within its type, whatever fails.                    *)
THEOREM TypeCorrect == Spec => []TypeOK
  <1>1. Init => TypeOK
    BY OpFields DEF Init, TypeOK, Layers, Pcs
  <1>2. QED
    BY <1>1, TypeStep, PTL DEF Spec

-----------------------------------------------------------------------------
(* The invariant of a lone manager.                                        *)

SafeFor(m) == LayersAreTracked /\ Reliance(m)

LEMMA InvStep ==
    ASSUME TypeOK, TypeOK', [Next]_vars, NEW m \in Managers, SafeFor(m),
           \A n \in Managers : n = m
    PROVE  SafeFor(m)'
  <1>a. /\ slot \in Containers \cup {NULL} /\ backups \subseteq Containers
        /\ config \in [Containers -> Configs \cup {NULL}]
        /\ rules \in [Ports -> Addrs \cup {NULL}]
        /\ pc \in [Managers -> Pcs] /\ op \in [Managers -> Op] /\ op[m] \in Op
        /\ proven \in Containers \cup {NULL}
        /\ smooth \in [Managers -> BOOLEAN]
        /\ vm \in {"on", "off"} /\ addr \in Addrs /\ ssh_host \in Addrs
    BY DEF TypeOK
  <1>b. NULL \notin Containers \cup Configs \cup Addrs
    BY HyperVAssumption
  <1> USE <1>a, <1>b DEF SafeFor, LayersAreTracked, Reliance, Layers, Op
  <1>1. ASSUME NEW caller \in {"cli", "api"}, NEW want \in Configs,
               CallStart(m, caller, want)
        PROVE  SafeFor(m)'
    BY <1>1 DEF CallStart, GotoWith, NoOp, guest, machine
  <1>2. ASSUME NEW known \in Configs, CallStop(m, known)
        PROVE  SafeFor(m)'
    <2>1. CASE vm = "on" /\ ssh_host = addr
      <3>1. pc'[m] = "remove" /\ op'[m].host = addr
        <4>1. GotoWith(m, "remove", [NoOp EXCEPT !.loaded = ssh_host, !.host = ssh_host])
          BY <1>2, <2>1 DEF CallStop
        <4>2. [NoOp EXCEPT !.loaded = ssh_host, !.host = ssh_host].host = ssh_host
          BY DEF NoOp
        <4>3. QED
          BY <2>1, <4>1, <4>2 DEF GotoWith
      <3>2. QED
        BY <1>2, <2>1, <3>1 DEF CallStop, guest, machine
    <2>2. CASE ~(vm = "on" /\ ssh_host = addr)
      <3>1. pc'[m] = "idle"
        BY <1>2, <2>2 DEF CallStop
      <3>2. QED
        BY <1>2, <3>1 DEF CallStop, guest, machine
    <2>3. QED
      BY <2>1, <2>2
  <1>3. ASSUME Reached(m)
        PROVE  SafeFor(m)'
    BY <1>3 DEF Reached, Goto, GotoWith, Return, NoOp, guest, machine, Reachable
  <1>4. ASSUME Recover(m)
        PROVE  SafeFor(m)'
    BY <1>4 DEF Recover, Goto, GotoWith, Return, NoOp, guest, machine, Reachable, PowerOn
  <1>5. ASSUME CannotRecover(m)
        PROVE  SafeFor(m)'
    BY <1>5 DEF CannotRecover, Goto, GotoWith, Return, NoOp, guest, machine, Reachable, PowerOn
  <1>6. ASSUME Inspects(m)
        PROVE  SafeFor(m)'
    <2>1. pc[m] = "inspect" /\ op[m].backup = NULL /\ op[m].want \in Configs
      BY <1>6 DEF Inspects
    <2>2. UNCHANGED <<guest, machine, ssh_host, rules, smooth>> /\ Reachable(m)
      BY <1>6 DEF Inspects
    <2>3. CASE slot # NULL /\ config[slot] = op[m].want /\ op' = op
               /\ proven' \in {proven, slot}
               /\ pc'[m] \in {"forward", "forward_later", "start"}
      BY <2>1, <2>2, <2>3 DEF guest, machine, Reachable
    <2>4. CASE pc'[m] = "prepare" /\ UNCHANGED proven
               /\ op' = [op EXCEPT ![m] = [op[m] EXCEPT !.exists = slot # NULL,
                                                       !.was_running = slot \in running]]
      <3>1. /\ op'[m].backup = op[m].backup /\ op'[m].want = op[m].want
            /\ op'[m].host = op[m].host
        BY <2>4
      <3>2. QED
        BY <2>1, <2>2, <2>4, <3>1 DEF guest, machine, Reachable
    <2>5. QED
      BY <1>6, <2>3, <2>4 DEF Inspects, Goto, GotoWith, Succeed
  <1>7. ASSUME InspectionUnanswered(m)
        PROVE  SafeFor(m)'
    BY <1>7 DEF InspectionUnanswered, Goto, GotoWith, Return, NoOp, guest, machine, Reachable, Answered, Unanswered, Disturbed
  <1>8. ASSUME StartExisting(m)
        PROVE  SafeFor(m)'
    BY <1>8 DEF StartExisting, Goto, GotoWith, Return, NoOp, guest, machine, Reachable, StartSlot, Answered, Unanswered, Disturbed, Succeed
  <1>9. ASSUME Prepare(m)
        PROVE  SafeFor(m)'
    BY <1>9 DEF Prepare, Goto, GotoWith, Return, NoOp, guest, machine, Reachable
  <1>10. ASSUME StopOld(m)
        PROVE  SafeFor(m)'
    BY <1>10 DEF StopOld, Goto, GotoWith, Return, NoOp, guest, machine, Reachable, StopSlot, Answered, Unanswered, Disturbed
  <1>11. ASSUME RenameOld(m)
        PROVE  SafeFor(m)'
    BY <1>11 DEF RenameOld, Goto, GotoWith, Return, NoOp, guest, machine, Reachable, RenameSlot, Answered, Unanswered, Disturbed
  <1>12. ASSUME Run(m)
        PROVE  SafeFor(m)'
    BY <1>12 DEF Run, Goto, GotoWith, Return, NoOp, guest, machine, Reachable, LaunchFails
  <1>13. ASSUME WaitForHealth(m)
        PROVE  SafeFor(m)'
    BY <1>13 DEF WaitForHealth, Goto, GotoWith, Return, NoOp, guest, machine, Reachable, LaunchFails, Wanted
  <1>14. ASSUME Forward(m)
        PROVE  SafeFor(m)'
    <2>1. pc[m] = "forward" /\ UNCHANGED <<guest, machine, ssh_host, smooth>>
      BY <1>14 DEF Forward
    <2>2. CASE ForwardsTo(m, op[m].host) /\ Goto(m, "commit") /\ Succeed
      <3>1. pc'[m] = "commit" /\ op' = op /\ proven' = slot
        BY <2>2 DEF Goto, Succeed
      <3>2. smooth[m] => \A p \in PortsOf[op[m].want] : rules'[p] = addr
        <4>1. PortsOf[op[m].want] \subseteq Ports
          BY <2>1, HyperVAssumption
        <4>2. QED
          BY <2>1, <2>2, <4>1 DEF ForwardsTo, Wanted
      <3>3. QED
        BY <2>1, <3>1, <3>2 DEF guest, machine, Wanted
    <2>3. CASE LaunchFails(m) /\ UNCHANGED proven
      <3>1. \/ pc'[m] = "idle"
            \/ pc'[m] = "discard" /\ op' = op /\ op[m].backup # NULL
        BY <2>3 DEF LaunchFails, Goto, Return, GotoWith
      <3>2. QED
        BY <2>1, <2>3, <3>1 DEF guest, machine
    <2>4. QED
      BY <1>14, <2>2, <2>3 DEF Forward
  <1>15. ASSUME Commit(m)
        PROVE  SafeFor(m)'
    BY <1>15 DEF Commit, Goto, GotoWith, Return, NoOp, guest, machine, Reachable, RemoveBackup, Answered, Unanswered, Disturbed, Wanted
  <1>16. ASSUME ForwardLater(m)
        PROVE  SafeFor(m)'
    BY <1>16 DEF ForwardLater, Goto, GotoWith, Return, NoOp, guest, machine, Reachable, ForwardsTo, ForwardsPartly, Wanted
  <1>17. ASSUME DiscardNew(m)
        PROVE  SafeFor(m)'
    BY <1>17 DEF DiscardNew, Goto, GotoWith, Return, NoOp, guest, machine, Reachable, RemoveSlot, Answered, Unanswered, Disturbed
  <1>18. ASSUME RestoreOld(m)
        PROVE  SafeFor(m)'
    BY <1>18 DEF RestoreOld, Goto, GotoWith, Return, NoOp, guest, machine, Reachable, RenameBack, Answered, Unanswered, Disturbed
  <1>19. ASSUME ReviveOld(m)
        PROVE  SafeFor(m)'
    BY <1>19 DEF ReviveOld, Goto, GotoWith, Return, NoOp, guest, machine, Reachable, StartSlot, Answered, Unanswered, Disturbed
  <1>20. ASSUME ForwardAgain(m)
        PROVE  SafeFor(m)'
    BY <1>20 DEF ForwardAgain, Goto, GotoWith, Return, NoOp, guest, machine, Reachable, ForwardsTo, ForwardsPartly, Wanted
  <1>21. ASSUME RemoveContainer(m)
        PROVE  SafeFor(m)'
    BY <1>21 DEF RemoveContainer, Goto, GotoWith, Return, NoOp, guest, machine, Reachable, RemoveSlot, Answered, Unanswered, Disturbed
  <1>22. ASSUME Crash(m)
        PROVE  SafeFor(m)'
    BY <1>22 DEF Crash, Goto, GotoWith, Return, NoOp, guest, machine, Reachable
  <1>23. ASSUME GuestStops
        PROVE  SafeFor(m)'
    BY <1>23 DEF GuestStops, PowerOn, guest, machine, Wanted
  <1>24. ASSUME GuestStarts
        PROVE  SafeFor(m)'
    BY <1>24 DEF GuestStarts, PowerOn, guest, machine, Wanted
  <1>25. ASSUME UNCHANGED vars
        PROVE  SafeFor(m)'
    BY <1>25 DEF vars, guest, machine, Wanted
  <1> HIDE <1>a, <1>b DEF SafeFor, LayersAreTracked, Reliance, Layers, Op
  <1>26. QED
    BY <1>1, <1>2, <1>3, <1>4, <1>5, <1>6, <1>7, <1>8, <1>9, <1>10, <1>11, <1>12, <1>13, <1>14, <1>15, <1>16, <1>17, <1>18, <1>19, <1>20, <1>21, <1>22, <1>23, <1>24, <1>25 DEF Next, Start, Rollback

LEMMA InvInit == ASSUME Init PROVE IInv
  <1>1. TypeOK
    BY OpFields DEF Init, TypeOK, Layers, Pcs
  <1>2. LayersAreTracked
    BY DEF Init, LayersAreTracked, Layers
  <1>3. \A m \in Managers : Reliance(m)
    BY DEF Init, Reliance
  <1>4. QED
    BY <1>1, <1>2, <1>3 DEF IInv

LEMMA InvPreserved ==
    ASSUME LoneManager, IInv, [Next]_vars
    PROVE  IInv'
  <1>1. TypeOK /\ TypeOK'
    BY TypeStep DEF IInv
  <1>2. \A m \in Managers : SafeFor(m)'
    <2>1. SUFFICES ASSUME NEW m \in Managers PROVE SafeFor(m)'
      OBVIOUS
    <2>2. SafeFor(m) /\ \A n \in Managers : n = m
      BY DEF IInv, SafeFor, LoneManager
    <2>3. QED
      BY <1>1, <2>2, InvStep
  <1>3. LayersAreTracked'
    <2>1. CASE Managers = {}
      <3>1. \/ UNCHANGED vars \/ GuestStops \/ GuestStarts
        BY <2>1 DEF Next
      <3>2. QED
        BY <3>1 DEF IInv, LayersAreTracked, Layers, vars, guest, GuestStops, GuestStarts, PowerOn
    <2>2. CASE Managers # {}
      BY <1>2, <2>2 DEF SafeFor
    <2>3. QED
      BY <2>1, <2>2
  <1>4. QED
    BY <1>1, <1>2, <1>3 DEF IInv, SafeFor

-----------------------------------------------------------------------------
(* What a lone manager guarantees.                                         *)

THEOREM InvHolds == ASSUME LoneManager PROVE Spec => []IInv
  <1>1. Init => IInv
    BY InvInit
  <1>2. IInv /\ [Next]_vars => IInv'
    BY InvPreserved
  <1>3. QED
    BY <1>1, <1>2, PTL DEF Spec

Unseen == UNCHANGED <<Layers, proven>>

LEMMA LayerStep ==
    ASSUME TypeOK, NEW m \in Managers, SafeFor(m), [Next]_vars,
           \A n \in Managers : n = m
    PROVE  [Abstract!Next]_<<Layers, proven>>
  <1>a. /\ slot \in Containers \cup {NULL} /\ backups \subseteq Containers
        /\ config \in [Containers -> Configs \cup {NULL}]
        /\ pc \in [Managers -> Pcs] /\ op \in [Managers -> Op]
        /\ proven \in Containers \cup {NULL}
    BY DEF TypeOK
  <1>b. NULL \notin Containers \cup Configs \cup Addrs
    BY HyperVAssumption
  <1> USE <1>a, <1>b DEF SafeFor, LayersAreTracked, Reliance, Layers, Unseen
  <1>c. ASSUME slot # NULL, proven' \in {proven, slot}, UNCHANGED <<slot, backups>>
        PROVE  Unseen \/ Abstract!Prove
    BY <1>c DEF Abstract!Prove
  <1>1. ASSUME NEW caller \in {"cli", "api"}, NEW want \in Configs,
               CallStart(m, caller, want)
        PROVE  Unseen
    BY <1>1 DEF CallStart, guest
  <1>2. ASSUME NEW known \in Configs, CallStop(m, known)
        PROVE  Unseen
    BY <1>2 DEF CallStop, guest
  <1>3. ASSUME Reached(m)
        PROVE  Unseen
    BY <1>3 DEF Reached, guest
  <1>4. ASSUME Recover(m)
        PROVE  Unseen
    BY <1>4 DEF Recover, guest, PowerOn
  <1>5. ASSUME CannotRecover(m)
        PROVE  Unseen
    BY <1>5 DEF CannotRecover, guest, PowerOn
  <1>6. ASSUME InspectionUnanswered(m)
        PROVE  Unseen
    BY <1>6 DEF InspectionUnanswered, guest
  <1>7. ASSUME Prepare(m)
        PROVE  Unseen
    BY <1>7 DEF Prepare, guest
  <1>8. ASSUME StopOld(m)
        PROVE  Unseen
    BY <1>8 DEF StopOld, guest, StopSlot, Answered, Unanswered
  <1>9. ASSUME RenameOld(m)
        PROVE  Unseen
    BY <1>9 DEF RenameOld, guest, RenameSlot, Answered, Unanswered
  <1>10. ASSUME ForwardLater(m)
        PROVE  Unseen
    BY <1>10 DEF ForwardLater, guest
  <1>11. ASSUME RestoreOld(m)
        PROVE  Unseen
    BY <1>11 DEF RestoreOld, guest, RenameBack, Answered, Unanswered
  <1>12. ASSUME ReviveOld(m)
        PROVE  Unseen
    BY <1>12 DEF ReviveOld, guest, StartSlot, Answered, Unanswered
  <1>13. ASSUME ForwardAgain(m)
        PROVE  Unseen
    BY <1>13 DEF ForwardAgain, guest
  <1>14. ASSUME Crash(m)
        PROVE  Unseen
    BY <1>14 DEF Crash, guest
  <1>15. ASSUME Inspects(m)
        PROVE  Unseen \/ Abstract!Prove
    BY <1>15, <1>c DEF Inspects, Succeed, guest
  <1>16. ASSUME StartExisting(m)
        PROVE  Unseen \/ Abstract!Prove
    BY <1>16, <1>c DEF StartExisting, Succeed, guest, Answered, Unanswered, StartSlot
  <1>17. ASSUME WaitForHealth(m)
        PROVE  Unseen \/ Abstract!Prove
    BY <1>17, <1>c DEF WaitForHealth, guest
  <1>18. ASSUME Forward(m)
        PROVE  Unseen \/ Abstract!Prove
    BY <1>18, <1>c DEF Forward, Succeed, guest
  <1>19. ASSUME Run(m)
        PROVE  Unseen \/ Abstract!Create
    <2>1. CASE UNCHANGED guest
      BY <1>19, <2>1 DEF Run, guest
    <2>2. ASSUME NEW c \in Containers, config[c] = NULL, slot = NULL, slot' = c,
                 UNCHANGED backups, UNCHANGED proven
          PROVE  Abstract!Create
      <3>1. c \notin Layers /\ Layers' = Layers \cup {c}
        BY <2>2
      <3>2. QED
        BY <2>2, <3>1 DEF Abstract!Create
    <2>3. QED
      BY <1>19, <2>1, <2>2 DEF Run
  <1>20. ASSUME Commit(m)
        PROVE  Unseen \/ Abstract!Discard
    <2>1. CASE UNCHANGED guest
      BY <1>20, <2>1 DEF Commit, guest
    <2>2. CASE op[m].backup # NULL /\ RemoveBackup(op[m].backup)
      <3>1. /\ op[m].backup \in Layers \ {proven}
            /\ Layers' = Layers \ {op[m].backup}
            /\ UNCHANGED proven
        BY <1>20, <2>2 DEF Commit, RemoveBackup
      <3>2. QED
        BY <3>1 DEF Abstract!Discard
    <2>3. QED
      BY <1>20, <2>1, <2>2 DEF Commit, Answered, Unanswered, guest
  <1>21. ASSUME DiscardNew(m)
        PROVE  Unseen \/ Abstract!Discard
    <2>1. CASE UNCHANGED guest \/ slot = NULL
      BY <1>21, <2>1 DEF DiscardNew, guest, Answered, Unanswered, RemoveSlot
    <2>2. CASE slot # NULL /\ RemoveSlot
      <3>1. slot \in Layers \ {proven} /\ Layers' = Layers \ {slot} /\ UNCHANGED proven
        BY <1>21, <2>2 DEF DiscardNew, RemoveSlot
      <3>2. QED
        BY <3>1 DEF Abstract!Discard
    <2>3. QED
      BY <1>21, <2>1, <2>2 DEF DiscardNew, Answered, Unanswered
  <1>22. ASSUME RemoveContainer(m)
        PROVE  Unseen \/ Abstract!Discard \/ Abstract!TakeDown
    <2>1. CASE UNCHANGED guest \/ slot = NULL
      BY <1>22, <2>1 DEF RemoveContainer, guest, Answered, Unanswered, RemoveSlot
    <2>2. CASE slot # NULL /\ RemoveSlot
      <3>1. slot \in Layers /\ Layers' = Layers \ {slot} /\ slot' = NULL
        BY <2>2 DEF RemoveSlot
      <3>2. proven' = IF proven = slot THEN NULL ELSE proven
        BY <1>22, <2>2, <3>1 DEF RemoveContainer
      <3>3. QED
        BY <2>2, <3>1, <3>2 DEF Abstract!Discard, Abstract!TakeDown
    <2>3. QED
      BY <1>22, <2>1, <2>2 DEF RemoveContainer, Answered, Unanswered
  <1>23. ASSUME GuestStops
        PROVE  Unseen
    BY <1>23 DEF GuestStops, PowerOn
  <1>24. ASSUME GuestStarts
        PROVE  Unseen
    BY <1>24 DEF GuestStarts, PowerOn
  <1>25. ASSUME UNCHANGED vars
        PROVE  Unseen
    BY <1>25 DEF vars, guest
  <1> HIDE <1>a, <1>b DEF SafeFor, LayersAreTracked, Reliance, Layers
  <1>26. QED
    BY <1>1, <1>2, <1>3, <1>4, <1>5, <1>6, <1>7, <1>8, <1>9, <1>10, <1>11, <1>12, <1>13, <1>14, <1>15, <1>16, <1>17, <1>18, <1>19, <1>20, <1>21, <1>22, <1>23, <1>24, <1>25
       DEF Next, Start, Rollback, Abstract!Next

(* With one manager at a time, whatever fails and wherever it is cut off,  *)
(* the service manager implements ServiceLayers: no start deletes the      *)
(* container that worked last before another one has worked.               *)
THEOREM ProvenLayerIsKept == ASSUME LoneManager PROVE Spec => KeepsProvenLayer
  <1>1. Init => Abstract!Init
    BY DEF Init, Abstract!Init, Layers
  <1>2. IInv /\ [Next]_vars => [Abstract!Next]_<<Layers, proven>>
    <2>1. SUFFICES ASSUME IInv, [Next]_vars
                   PROVE  [Abstract!Next]_<<Layers, proven>>
      OBVIOUS
    <2>2. CASE Managers = {}
      <3>1. UNCHANGED vars \/ GuestStops \/ GuestStarts
        BY <2>1, <2>2 DEF Next
      <3>2. QED
        BY <3>1 DEF vars, guest, GuestStops, GuestStarts, PowerOn, Layers
    <2>3. ASSUME NEW m \in Managers
          PROVE  [Abstract!Next]_<<Layers, proven>>
      BY <2>1, LayerStep DEF IInv, SafeFor, LoneManager
    <2>4. QED
      BY <2>2, <2>3
  <1>3. Spec => []IInv
    BY InvHolds
  <1>4. QED
    BY <1>1, <1>2, <1>3, PTL DEF Spec, KeepsProvenLayer, Abstract!Spec

(* With one manager at a time, a failed launch that nothing else disturbs  *)
(* ends with the old container under its name, running if it ran.          *)
THEOREM FailedLaunchIsUndone == ASSUME LoneManager PROVE Spec => FailedLaunchRestores
  <1>1. IInv /\ [Next]_vars =>
          [\A m \in Managers :
             Rollback(m) /\ pc'[m] = "idle" /\ smooth'[m] =>
                /\ slot' = op[m].backup
                /\ op[m].was_running => slot' \in running']_vars
    <2>1. SUFFICES ASSUME IInv, NEW m \in Managers,
                          Rollback(m), pc'[m] = "idle", smooth'[m]
                   PROVE  /\ slot' = op[m].backup
                          /\ op[m].was_running => slot' \in running'
      OBVIOUS
    <2>2. TypeOK /\ Reliance(m) /\ pc \in [Managers -> Pcs]
          /\ smooth \in [Managers -> BOOLEAN]
      BY <2>1 DEF IInv, TypeOK
    <2>3. ~DiscardNew(m)
      BY <2>1, <2>2 DEF DiscardNew, Goto
    <2>4. CASE RestoreOld(m)
      BY <2>1, <2>2, <2>4
         DEF RestoreOld, Answered, Unanswered, Disturbed, RenameBack, Goto, Reliance
    <2>5. CASE ReviveOld(m)
      BY <2>1, <2>2, <2>5
         DEF ReviveOld, Answered, Unanswered, Disturbed, StartSlot, Goto, Reliance
    <2>6. CASE ForwardAgain(m)
      BY <2>1, <2>2, <2>6 DEF ForwardAgain, guest, Reliance
    <2>7. QED
      BY <2>1, <2>3, <2>4, <2>5, <2>6 DEF Rollback
  <1>2. Spec => []IInv
    BY InvHolds
  <1>3. QED
    BY <1>1, <1>2, PTL DEF Spec, FailedLaunchRestores

(* With one manager at a time, a start from the CLI succeeds only with a   *)
(* container of the wanted configuration, and with rules that lead to the  *)
(* guest unless that restarted meanwhile.                                  *)
THEOREM StartsDeliver == ASSUME LoneManager PROVE Spec => StartDelivers
  <1>1. IInv /\ [Next]_vars =>
          [\A m \in Managers :
             Commit(m) /\ op[m].caller = "cli" =>
                /\ slot # NULL /\ config[slot] = op[m].want
                /\ smooth[m] => \A p \in Wanted(m) : rules[p] = addr]_vars
    BY DEF IInv, Reliance, Commit
  <1>2. Spec => []IInv
    BY InvHolds
  <1>3. QED
    BY <1>1, <1>2, PTL DEF Spec, StartDelivers
=============================================================================
