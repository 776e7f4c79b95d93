-------------------------- MODULE DockerApiProofs --------------------------
(* Theorems about DockerApi, for any requests, ids, names and ports. *)
EXTENDS DockerApi, TLAPS

-----------------------------------------------------------------------------
(* The invariant for any number of requests.                               *)

\* Its start has been announced in the file, or has happened.
Touched(i) == records[i].started \/ records[i].pending

\* Between the committed intent and the end of a start.
Starting == {"inspect", "launch", "release", "forward", "identify", "persist",
             "undo_forward", "undo_identify", "undo_persist"}

\* The copy of a record that a request goes by has its name and its ports.
CopiesMatch(r) ==
    op[r].id # NULL =>
        /\ op[r].id \in issued
        /\ op[r].id \in Recorded => /\ records[op[r].id].name = op[r].name
                                    /\ records[op[r].id].ports = op[r].ports

\* What the intent of a start has announced nobody takes back under it.
IntentStands(r) ==
    pc[r] \in Starting =>
        op[r].id # NULL /\ (op[r].id \in Recorded => Touched(op[r].id))

IInv ==
    /\ TypeOK
    /\ Recorded \subseteq issued
    /\ PortsAreReserved
    /\ \A r \in Requests : CopiesMatch(r) /\ IntentStands(r)
    /\ server = "down" => \A r \in Requests : pc[r] = "idle" /\ op[r] = NoOp

-----------------------------------------------------------------------------
(* Types.                                                                  *)

LEMMA MetaTyped ==
    ASSUME TypeOK, NEW i \in Recorded
    PROVE  /\ i \in Ids /\ records[i] \in ContainerMeta
           /\ records[i].name \in Names /\ records[i].ports \in SUBSET Ports
           /\ records[i].started \in BOOLEAN /\ records[i].pending \in BOOLEAN
<1>1. i \in Ids /\ records[i] \in ContainerMeta
    BY DEF TypeOK, Recorded
<1> QED
    BY <1>1 DEF ContainerMeta

LEMMA OpTyped ==
    ASSUME TypeOK, NEW r \in Requests
    PROVE  /\ op[r] \in Op
           /\ op[r].name \in Names \cup {NULL} /\ op[r].id \in Ids \cup {NULL}
           /\ op[r].ports \in SUBSET Ports
           /\ op[r].existed \in BOOLEAN /\ op[r].running \in BOOLEAN /\ op[r].answered \in BOOLEAN
           /\ op[r].seen \in SUBSET Names /\ op[r].phantoms \in SUBSET Ids
<1>1. op[r] \in Op
    BY DEF TypeOK
<1> QED
    BY <1>1 DEF Op

LEMMA NoOpTyped == NoOp \in Op
    BY DEF NoOp, Op

LEMMA GotoTyped ==
    ASSUME TypeOK, NEW r \in Requests, NEW label \in Pcs, Goto(r, label)
    PROVE  /\ pc' \in [Requests -> Pcs] /\ pc'[r] = label
           /\ \A q \in Requests \ {r} : pc'[q] = pc[q]
    BY DEF TypeOK, Goto

LEMMA ReturnTyped ==
    ASSUME TypeOK, NEW r \in Requests, Return(r)
    PROVE  /\ pc' \in [Requests -> Pcs] /\ op' \in [Requests -> Op]
           /\ pc'[r] = "idle" /\ op'[r] = NoOp
           /\ \A q \in Requests \ {r} : pc'[q] = pc[q] /\ op'[q] = op[q]
<1>1. "idle" \in Pcs
    BY DEF Pcs
<1> QED
    BY <1>1, GotoTyped, NoOpTyped DEF TypeOK, Return

\* A request takes a new operation in hand.
LEMMA HandTyped ==
    ASSUME TypeOK, NEW r \in Requests, NEW o \in Op, op' = [op EXCEPT ![r] = o]
    PROVE  /\ op' \in [Requests -> Op] /\ op'[r] = o
           /\ \A q \in Requests \ {r} : op'[q] = op[q]
    BY DEF TypeOK

LEMMA TakeTyped ==
    ASSUME TypeOK, NEW r \in Requests, NEW n \in Names, NEW i \in Recorded, NEW label \in Pcs,
           Take(r, n, i, label)
    PROVE  /\ pc' \in [Requests -> Pcs] /\ op' \in [Requests -> Op]
           /\ pc'[r] = label
           /\ op'[r].name = n /\ op'[r].id = i /\ op'[r].ports = records[i].ports
           /\ ~op'[r].answered
           /\ \A q \in Requests \ {r} : pc'[q] = pc[q] /\ op'[q] = op[q]
<1> DEFINE o == [NoOp EXCEPT !.name = n, !.id = i, !.ports = records[i].ports]
<1>1. o \in Op /\ o.name = n /\ o.id = i /\ o.ports = records[i].ports /\ ~o.answered
    BY MetaTyped DEF Op, NoOp
<1>2. op' = [op EXCEPT ![r] = o]
    BY DEF Take
<1> HIDE DEF o
<1>3. /\ op' \in [Requests -> Op] /\ op'[r] = o
      /\ \A q \in Requests \ {r} : op'[q] = op[q]
    BY <1>1, <1>2, HandTyped
<1>4. Goto(r, label)
    BY DEF Take
<1> QED
    BY <1>1, <1>3, <1>4, GotoTyped

LEMMA TakeRawTyped ==
    ASSUME TypeOK, NEW r \in Requests, NEW n \in Names, NEW label \in Pcs, TakeRaw(r, n, label)
    PROVE  /\ pc' \in [Requests -> Pcs] /\ op' \in [Requests -> Op]
           /\ pc'[r] = label /\ op'[r].name = n /\ op'[r].id = NULL
           /\ ~op'[r].answered
           /\ \A q \in Requests \ {r} : pc'[q] = pc[q] /\ op'[q] = op[q]
<1> DEFINE o == [NoOp EXCEPT !.name = n]
<1>1. o \in Op /\ o.name = n /\ o.id = NULL /\ ~o.answered
    BY DEF Op, NoOp
<1>2. op' = [op EXCEPT ![r] = o]
    BY DEF TakeRaw
<1> HIDE DEF o
<1>3. /\ op' \in [Requests -> Op] /\ op'[r] = o
      /\ \A q \in Requests \ {r} : op'[q] = op[q]
    BY <1>1, <1>2, HandTyped
<1>4. Goto(r, label)
    BY DEF TakeRaw
<1> QED
    BY <1>1, <1>3, <1>4, GotoTyped

LEMMA WriteTyped ==
    ASSUME TypeOK, NEW i, NEW meta \in ContainerMeta \cup {NULL}, Write(i, meta)
    PROVE  /\ records' \in [Ids -> ContainerMeta \cup {NULL}]
           /\ i \in Ids => records'[i] = meta
           /\ \A j \in Ids \ {i} : records'[j] = records[j]
    BY DEF TypeOK, Write

LEMMA ReachTyped ==
    ASSUME TypeOK, NEW n, NEW st \in {"none", "stopped", "running"}, MayReach(n, st)
    PROVE  /\ guest' \in [Names -> {"none", "stopped", "running"}]
           /\ \A k \in Names : guest'[k] = guest[k] \/ (k = n /\ guest'[k] = st)
<1>1. guest' = guest \/ guest' = [guest EXCEPT ![n] = st]
    BY DEF MayReach
<1> QED
    BY <1>1 DEF TypeOK

LEMMA ReserveTyped ==
    ASSUME TypeOK, NEW r \in Requests, reserve_meta_ports(r)
    PROVE  /\ held' \in [Ids -> SUBSET Ports]
           /\ \/ held' = held
              \/ /\ \A p \in op[r].ports : Bindable(p, proxy')
                 /\ held' = [held EXCEPT ![op[r].id] = op[r].ports]
                 /\ \A i \in Ids : held'[i] = IF i = op[r].id THEN op[r].ports ELSE held[i]
    BY OpTyped DEF TypeOK, reserve_meta_ports

LEMMA ReleaseTyped ==
    ASSUME TypeOK, NEW i, release_port_reservations(i)
    PROVE  /\ held' \in [Ids -> SUBSET Ports]
           /\ \A j \in Ids : held'[j] = IF j = i THEN {} ELSE held[j]
    BY DEF TypeOK, release_port_reservations

-----------------------------------------------------------------------------
(* What most steps do to the file and the reservations.                    *)

\* No record is made or changes its name or its ports, none goes back to
\* untouched, and one that stays untouched keeps its ports bound.
Preserves ==
    /\ issued' = issued
    /\ \A i \in Recorded' :
         /\ i \in Recorded
         /\ records'[i].name = records[i].name /\ records'[i].ports = records[i].ports
         /\ Touched(i) => Touched(i)'
         /\ Touched(i)' \/ held'[i] \in {held[i], records[i].ports}

LEMMA StillReserved ==
    ASSUME IInv, Preserves, server' = server
    PROVE  PortsAreReserved' /\ Recorded' \subseteq issued'
<1>1. Recorded' \subseteq issued'
    BY DEF Preserves, IInv
<1>2. ASSUME NEW i \in Recorded', NEW j \in Recorded' \ {i}
      PROVE  records'[i].ports \cap records'[j].ports = {}
    BY <1>2 DEF Preserves, IInv, PortsAreReserved
<1>3. ASSUME NEW i \in Recorded', server' = "up", ~Touched(i)'
      PROVE  held'[i] = records'[i].ports
    BY <1>3 DEF Preserves, IInv, PortsAreReserved, Touched
<1> QED
    BY <1>1, <1>2, <1>3 DEF PortsAreReserved, Touched

LEMMA StillMatch ==
    ASSUME IInv, Preserves, NEW r \in Requests,
           op'[r].id = op[r].id, op'[r].name = op[r].name, op'[r].ports = op[r].ports
    PROVE  CopiesMatch(r)'
    BY DEF IInv, Preserves, CopiesMatch

LEMMA StillStands ==
    ASSUME IInv, Preserves, NEW r \in Requests, op'[r].id = op[r].id,
           pc'[r] \in Starting => pc[r] \in Starting
    PROVE  IntentStands(r)'
    BY DEF IInv, Preserves, IntentStands

LEMMA RequestStep ==
    ASSUME IInv, NEW r \in Requests, Preserves, TypeOK', server = "up", server' = "up",
           \A q \in Requests \ {r} : pc'[q] = pc[q] /\ op'[q] = op[q],
           CopiesMatch(r)', IntentStands(r)'
    PROVE  IInv'
<1>1. \A q \in Requests \ {r} : CopiesMatch(q)' /\ IntentStands(q)'
    BY StillMatch, StillStands
<1> QED
    BY <1>1, StillReserved DEF IInv

\* The request goes on with the record it has in hand.
LEMMA Moves ==
    ASSUME IInv, NEW r \in Requests, NEW label \in Pcs, Goto(r, label), UNCHANGED op,
           label \in Starting => pc[r] \in Starting,
           Preserves, TypeOK', server = "up", server' = "up"
    PROVE  IInv'
<1>1. TypeOK
    BY DEF IInv
<1> QED
    BY <1>1, GotoTyped, StillMatch, StillStands, RequestStep

LEMMA Ends ==
    ASSUME IInv, NEW r \in Requests, Return(r),
           Preserves, TypeOK', server = "up", server' = "up"
    PROVE  IInv'
<1>1. TypeOK
    BY DEF IInv
<1>2. pc'[r] = "idle" /\ op'[r].id = NULL
    BY <1>1, ReturnTyped DEF NoOp
<1>3. CopiesMatch(r)' /\ IntentStands(r)'
    BY <1>2 DEF CopiesMatch, IntentStands, Starting
<1> QED
    BY <1>1, <1>3, ReturnTyped, RequestStep

LEMMA Untouched ==
    ASSUME UNCHANGED inside
    PROVE  Preserves
    BY DEF inside, Preserves, Touched, Recorded

LEMMA LabelsTyped ==
    /\ Starting \subseteq Pcs
    /\ {"intent", "unforward", "stop", "forget_unstarted", "stop_service", "verify", "forget",
        "compare", "forget_phantoms"} \subseteq Pcs \ Starting
    BY DEF Starting, Pcs

-----------------------------------------------------------------------------
(* Start: every step keeps the invariant.                                  *)

LEMMA CallStartStep ==
    ASSUME IInv, NEW r \in Requests, NEW n \in Names, NEW i \in state_match(n),
           NEW label \in {"intent", "unforward", "forget_unstarted", "stop_service"},
           Take(r, n, i, label), At(r, "idle"), UNCHANGED <<inside, outside, server>>
    PROVE  IInv'
<1>1. TypeOK /\ label \in Pcs \ Starting /\ i \in Recorded /\ records[i].name = n
    BY LabelsTyped DEF IInv, state_match
<1>2. /\ pc' \in [Requests -> Pcs] /\ op' \in [Requests -> Op]
      /\ pc'[r] = label
      /\ op'[r].name = n /\ op'[r].id = i /\ op'[r].ports = records[i].ports
      /\ \A q \in Requests \ {r} : pc'[q] = pc[q] /\ op'[q] = op[q]
    BY <1>1, TakeTyped
<1>3. TypeOK'
    BY <1>1, <1>2 DEF TypeOK, inside, outside
<1>4. CopiesMatch(r)' /\ IntentStands(r)'
    BY <1>1, <1>2 DEF CopiesMatch, IntentStands, inside, IInv, Recorded
<1>5. server = "up" /\ server' = "up"
    BY DEF At
<1> QED
    BY <1>2, <1>3, <1>4, <1>5, Untouched, RequestStep

LEMMA CallRawStep ==
    ASSUME IInv, NEW r \in Requests, NEW n \in Names, NEW label \in {"stop", "stop_service"},
           TakeRaw(r, n, label), At(r, "idle"), UNCHANGED <<inside, outside, server>>
    PROVE  IInv'
<1>1. TypeOK /\ label \in Pcs \ Starting
    BY LabelsTyped DEF IInv
<1>2. /\ pc' \in [Requests -> Pcs] /\ op' \in [Requests -> Op]
      /\ pc'[r] = label /\ op'[r].id = NULL
      /\ \A q \in Requests \ {r} : pc'[q] = pc[q] /\ op'[q] = op[q]
    BY <1>1, TakeRawTyped
<1>3. TypeOK'
    BY <1>1, <1>2 DEF TypeOK, inside, outside
<1>4. CopiesMatch(r)' /\ IntentStands(r)'
    BY <1>1, <1>2 DEF CopiesMatch, IntentStands
<1>5. server = "up" /\ server' = "up"
    BY DEF At
<1> QED
    BY <1>2, <1>3, <1>4, <1>5, Untouched, RequestStep

LEMMA CallListStep ==
    ASSUME IInv, NEW r \in Requests, CallList(r)
    PROVE  IInv'
<1> DEFINE o == [NoOp EXCEPT !.seen = {n \in Names : guest[n] # "none"}]
<1>1. TypeOK /\ "compare" \in Pcs \ Starting
    BY LabelsTyped DEF IInv
<1>2. o \in Op /\ o.id = NULL
    BY DEF Op, NoOp
<1>3. op' = [op EXCEPT ![r] = o]
    BY DEF CallList
<1> HIDE DEF o
<1>4. op' \in [Requests -> Op] /\ op'[r].id = NULL /\ \A q \in Requests \ {r} : op'[q] = op[q]
    BY <1>1, <1>2, <1>3, HandTyped
<1>5. /\ pc' \in [Requests -> Pcs] /\ pc'[r] = "compare"
      /\ \A q \in Requests \ {r} : pc'[q] = pc[q]
    BY <1>1, GotoTyped DEF CallList
<1>6. TypeOK' /\ server = "up" /\ server' = "up" /\ Preserves
    BY <1>1, <1>4, <1>5, Untouched DEF TypeOK, CallList, At, inside, outside
<1>7. CopiesMatch(r)' /\ IntentStands(r)'
    BY <1>1, <1>4, <1>5 DEF CopiesMatch, IntentStands
<1> QED
    BY <1>4, <1>5, <1>6, <1>7, RequestStep

LEMMA StartRawStep ==
    ASSUME IInv, NEW r \in Requests, NEW n \in Names, StartRaw(r, n)
    PROVE  IInv'
<1>1. TypeOK' /\ server = "up" /\ server' = "up" /\ Preserves
    BY Untouched DEF IInv, TypeOK, StartRaw, At, inside
<1>2. CopiesMatch(r)' /\ IntentStands(r)'
    BY <1>1, StillMatch, StillStands DEF StartRaw
<1> QED
    BY <1>1, <1>2, RequestStep DEF StartRaw

LEMMA IntentStep ==
    ASSUME IInv, NEW r \in Requests, StartIntent(r)
    PROVE  IInv'
<1> DEFINE i == op[r].id
           meta == [records[i] EXCEPT !.pending = TRUE]
<1>1. TypeOK /\ "inspect" \in Pcs /\ "inspect" \in Starting
    BY LabelsTyped DEF IInv, Starting
<1>2. server = "up" /\ server' = "up"
    BY DEF StartIntent, At
<1>3. CASE i \in Recorded
    <2>1. records[i] \in ContainerMeta /\ i \in Ids /\ i # NULL
        BY <1>1, <1>3, MetaTyped, DockerApiAssumption
    <2>2. /\ meta \in ContainerMeta /\ meta.pending = TRUE /\ meta.started = records[i].started
          /\ meta.name = records[i].name /\ meta.ports = records[i].ports
        BY <2>1 DEF ContainerMeta
    <2>3. Write(i, meta) /\ Goto(r, "inspect") /\ UNCHANGED <<op, issued, held, outside, server>>
        BY <1>3 DEF StartIntent
    <2> HIDE DEF meta
    <2>4. /\ records' \in [Ids -> ContainerMeta \cup {NULL}] /\ records'[i] = meta
          /\ \A j \in Ids \ {i} : records'[j] = records[j]
        BY <1>1, <2>1, <2>2, <2>3, WriteTyped
    <2>5. /\ pc' \in [Requests -> Pcs] /\ pc'[r] = "inspect"
          /\ \A q \in Requests \ {r} : pc'[q] = pc[q]
        BY <1>1, <2>3, GotoTyped
    <2>6. TypeOK'
        BY <1>1, <2>3, <2>4, <2>5 DEF TypeOK, outside
    <2>7. Preserves
        BY <1>3, <2>2, <2>3, <2>4 DEF Preserves, Recorded, Touched
    <2>8. CopiesMatch(r)'
        BY <2>3, <2>7, StillMatch
    <2>9. IntentStands(r)'
        BY <2>1, <2>2, <2>3, <2>4 DEF IntentStands, Touched
    <2> QED
        BY <1>2, <2>3, <2>5, <2>6, <2>7, <2>8, <2>9, RequestStep
<1>4. CASE i \notin Recorded
    <2>1. Return(r) /\ UNCHANGED <<inside, outside, server>>
        BY <1>4 DEF StartIntent, inside
    <2>2. TypeOK'
        BY <1>1, <2>1, ReturnTyped DEF TypeOK, inside, outside
    <2> QED
        BY <1>2, <2>1, <2>2, Untouched, Ends
<1> QED
    BY <1>3, <1>4

\* A request changes nothing of the server's own, and goes on or ends.
LEMMA OutsideStep ==
    ASSUME IInv, NEW r \in Requests, NEW label \in Pcs, UNCHANGED <<inside, server>>, server = "up",
           guest' \in [Names -> {"none", "stopped", "running"}],
           vm' \in {"on", "off"}, proxy' \in SUBSET Ports,
           \/ Return(r)
           \/ Goto(r, label) /\ UNCHANGED op /\ (label \in Starting => pc[r] \in Starting)
    PROVE  IInv'
<1>1. TypeOK /\ Preserves
    BY Untouched DEF IInv
<1>2. CASE Return(r)
    <2>1. TypeOK'
        BY <1>1, <1>2, ReturnTyped DEF TypeOK, inside
    <2> QED
        BY <1>1, <1>2, <2>1, Ends
<1>3. CASE Goto(r, label) /\ UNCHANGED op /\ (label \in Starting => pc[r] \in Starting)
    <2>1. TypeOK'
        BY <1>1, <1>3, GotoTyped DEF TypeOK, inside
    <2> QED
        BY <1>1, <1>3, <2>1, Moves
<1> QED
    BY <1>2, <1>3

LEMMA InspectsStep ==
    ASSUME IInv, NEW r \in Requests, StartInspects(r)
    PROVE  IInv'
<1>1. TypeOK /\ "launch" \in Pcs /\ pc[r] \in Starting /\ server = "up" /\ Goto(r, "launch")
    BY DEF IInv, Pcs, Starting, StartInspects, At
<1>2. PICK x \in BOOLEAN, y \in BOOLEAN :
        op' = op \/ op' = [op EXCEPT ![r].existed = x, ![r].running = y]
    BY DEF StartInspects
<1> DEFINE o1 == [op[r] EXCEPT !.existed = x]
           o2 == [o1 EXCEPT !.running = y]
<1>3. /\ o1 \in Op /\ o1.id = op[r].id /\ o1.name = op[r].name /\ o1.ports = op[r].ports
    BY <1>1, OpTyped DEF Op
<1>4. o2 \in Op /\ o2.id = op[r].id /\ o2.name = op[r].name /\ o2.ports = op[r].ports
    <2> HIDE DEF o1
    <2> QED
        BY <1>3 DEF Op
<1>5. op' = op \/ op' = [op EXCEPT ![r] = o2]
    BY <1>1, <1>2 DEF TypeOK
<1> HIDE DEF o1, o2
<1>6. /\ op' \in [Requests -> Op] /\ \A q \in Requests \ {r} : op'[q] = op[q]
      /\ op'[r].id = op[r].id /\ op'[r].name = op[r].name /\ op'[r].ports = op[r].ports
    <2>1. CASE op' = op
        BY <1>1, <2>1 DEF TypeOK
    <2>2. CASE op' = [op EXCEPT ![r] = o2]
        BY <1>1, <1>4, <2>2, HandTyped
    <2> QED
        BY <1>5, <2>1, <2>2
<1>7. /\ pc' \in [Requests -> Pcs] /\ pc'[r] = "launch"
      /\ \A q \in Requests \ {r} : pc'[q] = pc[q]
    BY <1>1, GotoTyped
<1>8. TypeOK' /\ Preserves /\ server' = "up"
    BY <1>1, <1>6, <1>7, Untouched DEF TypeOK, StartInspects, inside, outside
<1> QED
    BY <1>1, <1>6, <1>7, <1>8, StillMatch, StillStands, RequestStep

\* The verification: what it changes of the operation names no record.
LEMMA VerifiesStep ==
    ASSUME IInv, NEW r \in Requests, RemoveVerifies(r)
    PROVE  IInv'
<1>1. /\ TypeOK /\ "forget" \in Pcs \ Starting /\ server = "up" /\ UNCHANGED <<inside, outside, server>>
    BY LabelsTyped DEF IInv, RemoveVerifies, At
<1>2. /\ guest \in [Names -> {"none", "stopped", "running"}]
      /\ vm \in {"on", "off"} /\ proxy \in SUBSET Ports
    BY <1>1 DEF TypeOK
<1>3. CASE Return(r) \/ (Goto(r, "forget") /\ UNCHANGED op)
    BY <1>1, <1>2, <1>3, OutsideStep DEF outside
<1>4. CASE op' = [op EXCEPT ![r].answered = TRUE] /\ Goto(r, "forget")
    <2> DEFINE o == [op[r] EXCEPT !.answered = TRUE]
    <2>1. o \in Op /\ o.id = op[r].id /\ o.name = op[r].name /\ o.ports = op[r].ports
        BY <1>1, OpTyped DEF Op
    <2>2. op' = [op EXCEPT ![r] = o]
        BY <1>1, <1>4 DEF TypeOK
    <2> HIDE DEF o
    <2>3. op' \in [Requests -> Op] /\ op'[r] = o /\ \A q \in Requests \ {r} : op'[q] = op[q]
        BY <1>1, <2>1, <2>2, HandTyped
    <2>4. /\ pc' \in [Requests -> Pcs] /\ pc'[r] = "forget"
          /\ \A q \in Requests \ {r} : pc'[q] = pc[q]
        BY <1>1, <1>4, GotoTyped
    <2>5. TypeOK' /\ Preserves /\ server' = "up"
        BY <1>1, <2>3, <2>4, Untouched DEF TypeOK, inside, outside
    <2>6. CopiesMatch(r)' /\ IntentStands(r)'
        BY <1>1, <2>1, <2>3, <2>4, <2>5, StillMatch, StillStands
    <2> QED
        BY <1>1, <2>3, <2>4, <2>5, <2>6, RequestStep
<1> QED
    BY <1>3, <1>4 DEF RemoveVerifies

LEMMA LaunchesStep ==
    ASSUME IInv, NEW r \in Requests, StartLaunches(r)
    PROVE  IInv'
<1>1. "release" \in Pcs /\ pc[r] \in Starting /\ server = "up"
    BY DEF Pcs, Starting, StartLaunches, At
<1>2. /\ guest' \in [Names -> {"none", "stopped", "running"}]
      /\ vm' \in {"on", "off"} /\ proxy' \in SUBSET Ports
    BY DEF IInv, TypeOK, StartLaunches
<1> QED
    BY <1>1, <1>2, OutsideStep DEF StartLaunches

LEMMA ReleasesStep ==
    ASSUME IInv, NEW r \in Requests, StartReleases(r)
    PROVE  IInv'
<1>1. /\ TypeOK /\ "forward" \in Pcs /\ pc[r] \in Starting /\ server = "up" /\ server' = "up"
      /\ Goto(r, "forward")
    BY DEF IInv, Pcs, Starting, StartReleases, At
<1>2. /\ held' \in [Ids -> SUBSET Ports]
      /\ \A j \in Ids : held'[j] = IF j = op[r].id THEN {} ELSE held[j]
    BY <1>1, ReleaseTyped DEF StartReleases
<1>3. op[r].id \in Recorded => Touched(op[r].id)
    BY <1>1 DEF IInv, IntentStands
<1>4. Preserves
    BY <1>1, <1>2, <1>3 DEF StartReleases, Preserves, Touched, Recorded
<1>5. TypeOK'
    BY <1>1, <1>2, GotoTyped DEF TypeOK, StartReleases, outside
<1> QED
    BY <1>1, <1>4, <1>5, Moves DEF StartReleases

LEMMA ForwardsStep ==
    ASSUME IInv, NEW r \in Requests, StartForwards(r)
    PROVE  IInv'
<1>1. {"identify", "undo_forward"} \subseteq Pcs /\ pc[r] \in Starting /\ server = "up"
    BY DEF Pcs, Starting, StartForwards, At
<1>2. op[r].ports \in SUBSET Ports /\ TypeOK
    BY OpTyped DEF IInv
<1>3. /\ guest' \in [Names -> {"none", "stopped", "running"}]
      /\ vm' \in {"on", "off"} /\ proxy' \in SUBSET Ports
    BY <1>2 DEF TypeOK, StartForwards
<1> QED
    BY <1>1, <1>3, OutsideStep DEF StartForwards

LEMMA IdentifiesStep ==
    ASSUME IInv, NEW r \in Requests, StartIdentifies(r)
    PROVE  IInv'
<1>1. {"persist", "undo_identify"} \subseteq Pcs /\ pc[r] \in Starting /\ server = "up"
    BY DEF Pcs, Starting, StartIdentifies, At
<1>2. /\ guest' \in [Names -> {"none", "stopped", "running"}]
      /\ vm' \in {"on", "off"} /\ proxy' \in SUBSET Ports
    BY DEF IInv, TypeOK, StartIdentifies, outside
<1> QED
    BY <1>1, <1>2, OutsideStep DEF StartIdentifies

LEMMA PersistsStep ==
    ASSUME IInv, NEW r \in Requests, StartPersists(r)
    PROVE  IInv'
<1> DEFINE i == op[r].id
           m1 == [records[i] EXCEPT !.started = TRUE]
           m2 == [m1 EXCEPT !.pending = FALSE]
<1>1. /\ TypeOK /\ server = "up" /\ server' = "up" /\ i \in Recorded
      /\ Return(r) /\ UNCHANGED <<issued, held, outside, server>>
    BY DEF IInv, StartPersists, At
<1>2. i \in Ids /\ records[i] \in ContainerMeta
    BY <1>1, MetaTyped
<1>3. m1 \in ContainerMeta /\ m1.started = TRUE /\ m1.name = records[i].name /\ m1.ports = records[i].ports
    BY <1>2 DEF ContainerMeta
<1>4. m2 \in ContainerMeta /\ m2.started = TRUE /\ m2.name = records[i].name /\ m2.ports = records[i].ports
    <2> HIDE DEF m1
    <2> QED
        BY <1>3 DEF ContainerMeta
<1>5. Write(i, m2)
    BY DEF StartPersists
<1> HIDE DEF m1, m2
<1>6. /\ records' \in [Ids -> ContainerMeta \cup {NULL}] /\ records'[i] = m2
      /\ \A j \in Ids \ {i} : records'[j] = records[j]
    BY <1>1, <1>2, <1>4, <1>5, WriteTyped
<1>7. TypeOK'
    BY <1>1, <1>6, ReturnTyped DEF TypeOK, outside
<1>8. Preserves
    BY <1>1, <1>4, <1>6 DEF Preserves, Recorded, Touched
<1> QED
    BY <1>1, <1>7, <1>8, Ends

LEMMA CannotPersistStep ==
    ASSUME IInv, NEW r \in Requests, StartCannotPersist(r)
    PROVE  IInv'
<1>1. "undo_persist" \in Pcs /\ pc[r] \in Starting /\ server = "up"
    BY DEF Pcs, Starting, StartCannotPersist, At
<1>2. /\ guest' \in [Names -> {"none", "stopped", "running"}]
      /\ vm' \in {"on", "off"} /\ proxy' \in SUBSET Ports
    BY DEF IInv, TypeOK, StartCannotPersist, outside
<1> QED
    BY <1>1, <1>2, OutsideStep DEF StartCannotPersist

\* The ports of the record in hand are bound again, or not.
LEMMA UndoStep ==
    ASSUME IInv, NEW r \in Requests, server = "up", Return(r), reserve_meta_ports(r),
           guest' \in [Names -> {"none", "stopped", "running"}], proxy' \in SUBSET Ports,
           UNCHANGED <<records, issued, vm, server>>
    PROVE  IInv'
<1>1. TypeOK
    BY DEF IInv
<1>2. held' \in [Ids -> SUBSET Ports]
    BY <1>1, ReserveTyped
<1>3. \A i \in Ids : held'[i] = held[i] \/ (i = op[r].id /\ held'[i] = op[r].ports)
    BY <1>1, ReserveTyped
<1>4. op[r].id \in Recorded => records[op[r].id].ports = op[r].ports
    BY DockerApiAssumption DEF IInv, CopiesMatch, Recorded
<1>5. Preserves
    BY <1>3, <1>4 DEF Preserves, Recorded, Touched
<1>6. TypeOK'
    BY <1>1, <1>2, ReturnTyped DEF TypeOK
<1> QED
    BY <1>5, <1>6, Ends

LEMMA UndoesStep ==
    ASSUME IInv, NEW r \in Requests, UndoNew(r) \/ UndoForward(r) \/ UndoPersist(r) \/ UndoNothing(r)
    PROVE  IInv'
<1>1. TypeOK /\ op[r].ports \in SUBSET Ports /\ "idle" \in Pcs
    BY OpTyped DEF IInv, Pcs
<1>2. proxy \ op[r].ports \in SUBSET Ports /\ proxy \in SUBSET Ports
    BY <1>1 DEF TypeOK
<1>3. guest \in [Names -> {"none", "stopped", "running"}]
    BY <1>1 DEF TypeOK
<1>4. CASE UndoNew(r)
    BY <1>1, <1>2, <1>4, ReachTyped, UndoStep DEF UndoNew
<1>5. CASE UndoForward(r)
    <2>1. guest' \in [Names -> {"none", "stopped", "running"}]
        BY <1>1, <1>3, <1>5, ReachTyped DEF UndoForward
    <2> QED
        BY <1>2, <1>5, <2>1, UndoStep DEF UndoForward, At
<1>6. CASE UndoPersist(r)
    <2>1. guest' \in [Names -> {"none", "stopped", "running"}]
        BY <1>1, <1>3, <1>6, ReachTyped DEF UndoPersist
    <2> QED
        BY <1>2, <1>6, <2>1, UndoStep DEF UndoPersist, At
<1>7. CASE UndoNothing(r)
    <2>1. /\ guest' \in [Names -> {"none", "stopped", "running"}]
          /\ vm' \in {"on", "off"} /\ proxy' \in SUBSET Ports
        BY <1>1, <1>7 DEF TypeOK, UndoNothing, outside
    <2> QED
        BY <1>1, <1>7, <2>1, OutsideStep DEF UndoNothing, At
<1> QED
    BY <1>4, <1>5, <1>6, <1>7

-----------------------------------------------------------------------------
(* Create, stop, remove and list.                                          *)

LEMMA CreateStep ==
    ASSUME IInv, NEW r \in Requests, NEW n \in Names, NEW ports \in SUBSET Ports,
           create_container(r, n, ports)
    PROVE  IInv'
<1>1. TypeOK
    BY DEF IInv
<1>2. PICK id \in Ids \ issued :
         /\ issued' = issued \cup {id}
         /\ Write(id, [name |-> n, ports |-> ports, started |-> FALSE, pending |-> FALSE])
         /\ held' = [held EXCEPT ![id] = ports]
    BY DEF create_container
<1> DEFINE meta == [name |-> n, ports |-> ports, started |-> FALSE, pending |-> FALSE]
<1>3. /\ meta \in ContainerMeta /\ meta # NULL
      /\ meta.name = n /\ meta.ports = ports /\ ~meta.started /\ ~meta.pending
    <2>1. meta \in ContainerMeta
        BY DEF ContainerMeta
    <2> QED
        BY <2>1, DockerApiAssumption
<1> HIDE DEF meta
<1>4. /\ records' \in [Ids -> ContainerMeta \cup {NULL}] /\ records'[id] = meta
      /\ \A j \in Ids \ {id} : records'[j] = records[j]
    BY <1>1, <1>2, <1>3, WriteTyped DEF meta
<1>5. /\ held' \in [Ids -> SUBSET Ports] /\ held'[id] = ports
      /\ \A j \in Ids \ {id} : held'[j] = held[j]
    BY <1>1, <1>2 DEF TypeOK
<1>6. /\ server = "up" /\ UNCHANGED <<outside, server, pc, op>>
      /\ \A i \in Recorded : records[i].ports \cap ports = {}
    BY DEF create_container, At
<1>7. TypeOK'
    BY <1>1, <1>2, <1>4, <1>5, <1>6 DEF TypeOK, outside
<1>8. id \notin Recorded /\ Recorded' = Recorded \cup {id} /\ Recorded' \subseteq issued'
    BY <1>2, <1>3, <1>4 DEF IInv, Recorded
<1>9. PortsAreReserved'
    <2>1. ASSUME NEW i \in Recorded', NEW j \in Recorded' \ {i}
          PROVE  records'[i].ports \cap records'[j].ports = {}
        <3>1. CASE i = id
            BY <1>3, <1>4, <1>6, <1>8, <2>1, <3>1 DEF Recorded
        <3>2. CASE j = id
            BY <1>3, <1>4, <1>6, <1>8, <2>1, <3>2 DEF Recorded
        <3>3. CASE i # id /\ j # id
            <4>1. i \in Recorded /\ j \in Recorded \ {i}
                BY <1>8, <2>1, <3>3
            <4>2. records'[i] = records[i] /\ records'[j] = records[j]
                BY <1>4, <3>3, <4>1 DEF Recorded
            <4> QED
                BY <4>1, <4>2 DEF IInv, PortsAreReserved
        <3> QED
            BY <3>1, <3>2, <3>3
    <2>2. ASSUME NEW i \in Recorded', ~Touched(i)'
          PROVE  held'[i] = records'[i].ports
        <3>1. CASE i = id
            BY <1>3, <1>4, <1>5, <3>1
        <3>2. CASE i # id
            <4>1. i \in Recorded /\ records'[i] = records[i] /\ held'[i] = held[i]
                BY <1>4, <1>5, <1>8, <3>2 DEF Recorded
            <4> QED
                BY <1>6, <2>2, <4>1 DEF IInv, PortsAreReserved, Touched
        <3> QED
            BY <3>1, <3>2
    <2> QED
        BY <2>1, <2>2 DEF PortsAreReserved, Touched
<1>10. ASSUME NEW q \in Requests PROVE CopiesMatch(q)' /\ IntentStands(q)'
    <2>1. op[q].id # id
        BY <1>1, <1>2, OpTyped, DockerApiAssumption DEF IInv, CopiesMatch
    <2>2. /\ op[q].id \in Recorded' => op[q].id \in Recorded
          /\ op[q].id \in Recorded => records'[op[q].id] = records[op[q].id]
        BY <1>4, <1>8, <2>1 DEF Recorded
    <2> QED
        BY <1>2, <1>6, <2>2 DEF IInv, CopiesMatch, IntentStands, Touched
<1> QED
    BY <1>6, <1>7, <1>8, <1>9, <1>10 DEF IInv

\* Some records go, and the reservations of some that go.
LEMMA Drops ==
    ASSUME IInv, NEW r \in Requests, server = "up", Return(r),
           records' \in [Ids -> ContainerMeta \cup {NULL}], held' \in [Ids -> SUBSET Ports],
           \A i \in Ids : records'[i] \in {records[i], NULL},
           \A i \in Recorded' : held'[i] = held[i],
           UNCHANGED <<issued, outside, server>>
    PROVE  IInv'
<1>1. Preserves
    BY DEF Preserves, Recorded, Touched
<1>2. TypeOK'
    BY ReturnTyped DEF IInv, TypeOK, outside
<1> QED
    BY <1>1, <1>2, Ends

LEMMA RemoveUnstartedStep ==
    ASSUME IInv, NEW r \in Requests, RemoveUnstarted(r)
    PROVE  IInv'
<1>1. TypeOK /\ NULL \in ContainerMeta \cup {NULL} /\ server = "up"
    BY DEF IInv, RemoveUnstarted, At
<1>2. /\ records' \in [Ids -> ContainerMeta \cup {NULL}]
      /\ op[r].id \in Ids => records'[op[r].id] = NULL
      /\ \A j \in Ids \ {op[r].id} : records'[j] = records[j]
    BY <1>1, WriteTyped DEF RemoveUnstarted
<1>3. /\ held' \in [Ids -> SUBSET Ports]
      /\ \A j \in Ids : held'[j] = IF j = op[r].id THEN {} ELSE held[j]
    BY <1>1, ReleaseTyped DEF RemoveUnstarted
<1>4. \A i \in Recorded' : i \in Ids /\ i # op[r].id
    BY <1>2 DEF Recorded
<1> QED
    BY <1>1, <1>2, <1>3, <1>4, Drops DEF RemoveUnstarted

LEMMA RemoveForgetsStep ==
    ASSUME IInv, NEW r \in Requests, RemoveForgets(r)
    PROVE  IInv'
<1>1. TypeOK /\ server = "up" /\ Return(r) /\ UNCHANGED <<issued, outside, server>>
    BY DEF IInv, RemoveForgets, At
<1>2. /\ records' \in [Ids -> ContainerMeta \cup {NULL}]
      /\ \A i \in Ids : records'[i] = IF i \in state_match(op[r].name) THEN NULL ELSE records[i]
    BY <1>1 DEF RemoveForgets, TypeOK
<1>3. /\ held' \in [Ids -> SUBSET Ports]
      /\ \A j \in Ids : held'[j] = held[j] \/ (j = op[r].id /\ op[r].id # NULL)
    BY <1>1, ReleaseTyped DEF RemoveForgets, TypeOK
<1>4. ASSUME NEW i \in Recorded', i = op[r].id, op[r].id # NULL PROVE FALSE
    <2>1. i \in Recorded /\ i \in Ids
        BY <1>2, <1>4 DEF Recorded
    <2>2. i \in state_match(op[r].name)
        BY <1>4, <2>1 DEF IInv, CopiesMatch, state_match
    <2> QED
        BY <1>2, <1>4, <2>1, <2>2 DEF Recorded
<1>5. \A i \in Recorded' : held'[i] = held[i]
    BY <1>3, <1>4 DEF Recorded
<1> QED
    BY <1>1, <1>2, <1>3, <1>5, Drops

LEMMA ListForgetsStep ==
    ASSUME IInv, NEW r \in Requests, ListForgets(r)
    PROVE  IInv'
<1>1. TypeOK /\ server = "up" /\ Return(r) /\ UNCHANGED <<issued, held, outside, server>>
    BY DEF IInv, ListForgets, At
<1>2. /\ records' \in [Ids -> ContainerMeta \cup {NULL}]
      /\ \A i \in Ids : records'[i] \in {records[i], NULL}
    BY <1>1 DEF ListForgets, TypeOK
<1>3. held' \in [Ids -> SUBSET Ports] /\ \A i \in Recorded' : held'[i] = held[i]
    BY <1>1 DEF TypeOK
<1> QED
    BY <1>1, <1>2, <1>3, Drops

LEMMA ListComparesStep ==
    ASSUME IInv, NEW r \in Requests, ListCompares(r)
    PROVE  IInv'
<1> DEFINE phantoms == {i \in Recorded : /\ records[i].name \notin op[r].seen
                                          /\ guest[records[i].name] = "none"
                                          /\ records[i].started}
           o == [NoOp EXCEPT !.phantoms = phantoms]
<1>1. /\ TypeOK /\ "forget_phantoms" \in Pcs \ Starting /\ "idle" \in Pcs
      /\ server = "up" /\ server' = "up" /\ UNCHANGED <<inside, outside>>
    BY LabelsTyped DEF IInv, ListCompares, At, Pcs
<1>2. CASE op' = [op EXCEPT ![r] = o] /\ Goto(r, "forget_phantoms")
    <2>1. phantoms \in SUBSET Ids
        BY DEF Recorded
    <2> HIDE DEF phantoms
    <2>2. o \in Op /\ o.id = NULL
        BY <2>1 DEF Op, NoOp
    <2> HIDE DEF o
    <2>3. op' \in [Requests -> Op] /\ op'[r].id = NULL /\ \A q \in Requests \ {r} : op'[q] = op[q]
        BY <1>1, <1>2, <2>2, HandTyped
    <2>4. /\ pc' \in [Requests -> Pcs] /\ pc'[r] = "forget_phantoms"
          /\ \A q \in Requests \ {r} : pc'[q] = pc[q]
        BY <1>1, <1>2, GotoTyped
    <2>5. TypeOK' /\ Preserves
        BY <1>1, <2>3, <2>4, Untouched DEF TypeOK, inside, outside
    <2>6. CopiesMatch(r)' /\ IntentStands(r)'
        BY <1>1, <2>3, <2>4 DEF CopiesMatch, IntentStands
    <2> QED
        BY <1>1, <2>3, <2>4, <2>5, <2>6, RequestStep
<1>3. CASE Return(r)
    <2>1. TypeOK'
        BY <1>1, <1>3, ReturnTyped DEF TypeOK, inside, outside
    <2> QED
        BY <1>1, <1>3, <2>1, Untouched, Ends
<1> QED
    BY <1>2, <1>3 DEF ListCompares

\* The steps of stop and remove outside the server, and a failed write.
LEMMA StopsStep ==
    ASSUME IInv, NEW r \in Requests,
           \/ StopUnforwards(r) \/ StopStops(r) \/ RemoveStops(r) \/ StateWriteFails(r)
    PROVE  IInv'
<1>1. TypeOK /\ op[r].ports \in SUBSET Ports /\ {"stop", "verify", "forget"} \subseteq Pcs \ Starting
    BY OpTyped, LabelsTyped DEF IInv
<1>2. /\ guest \in [Names -> {"none", "stopped", "running"}]
      /\ vm \in {"on", "off"} /\ proxy \in SUBSET Ports
    BY <1>1 DEF TypeOK
<1>3. [guest EXCEPT ![op[r].name] = "none"] \in [Names -> {"none", "stopped", "running"}]
    BY <1>2
<1>4. CASE StopUnforwards(r)
    BY <1>1, <1>2, <1>4, OutsideStep DEF StopUnforwards, At
<1>5. CASE StopStops(r)
    <2>1. guest' \in [Names -> {"none", "stopped", "running"}]
        BY <1>1, <1>2, <1>5, ReachTyped DEF StopStops
    <2> QED
        BY <1>1, <1>2, <1>5, <2>1, OutsideStep DEF StopStops, At
<1>6. CASE RemoveStops(r)
    <2>1. guest' \in [Names -> {"none", "stopped", "running"}] /\ proxy' \in SUBSET Ports
        BY <1>1, <1>2, <1>3, <1>6 DEF RemoveStops
    <2> QED
        BY <1>1, <1>2, <1>6, <2>1, OutsideStep DEF RemoveStops, At
<1>7. CASE StateWriteFails(r)
    BY <1>1, <1>2, <1>7, OutsideStep DEF StateWriteFails, outside
<1> QED
    BY <1>4, <1>5, <1>6, <1>7

-----------------------------------------------------------------------------
(* The server and the machines; the conclusion.                            *)

LEMMA AroundStep ==
    ASSUME IInv, Crash \/ Serve \/ ServeFails \/ VmGoesDown \/ VmComesUp
    PROVE  IInv'
<1>1. CASE Crash
    <2>1. TypeOK'
        BY <1>1, NoOpTyped DEF IInv, TypeOK, Crash, outside, Pcs
    <2>2. PortsAreReserved' /\ Recorded' \subseteq issued'
        BY <1>1 DEF IInv, PortsAreReserved, Recorded, Crash
    <2>3. \A q \in Requests : pc'[q] = "idle" /\ op'[q] = NoOp
        BY <1>1 DEF Crash
    <2>4. \A q \in Requests : CopiesMatch(q)' /\ IntentStands(q)'
        BY <2>3 DEF CopiesMatch, IntentStands, Starting, NoOp
    <2> QED
        BY <2>1, <2>2, <2>3, <2>4 DEF IInv
<1>2. CASE Serve
    <2>1. /\ TypeOK /\ \A i \in Recorded : records[i].ports \in SUBSET Ports
          /\ Unstarted \subseteq Recorded
        BY MetaTyped DEF IInv, Unstarted
    <2>2. TypeOK'
        BY <1>2, <2>1 DEF TypeOK, Serve, outside
    <2>3. PortsAreReserved' /\ Recorded' \subseteq issued'
        BY <1>2 DEF IInv, PortsAreReserved, Recorded, Unstarted, Serve
    <2>4. \A q \in Requests : CopiesMatch(q)' /\ IntentStands(q)'
        BY <1>2 DEF IInv, CopiesMatch, IntentStands, Serve, Recorded, Touched
    <2> QED
        BY <1>2, <2>2, <2>3, <2>4 DEF IInv, Serve
<1>3. CASE VmGoesDown \/ VmComesUp
    <2>1. TypeOK'
        BY <1>3 DEF IInv, TypeOK, VmGoesDown, VmComesUp, inside
    <2>2. UNCHANGED <<records, issued, held, server, pc, op>>
        BY <1>3 DEF VmGoesDown, VmComesUp, inside
    <2> QED
        BY <2>1, <2>2 DEF IInv, PortsAreReserved, CopiesMatch, IntentStands, Recorded, Touched
<1>4. CASE ServeFails
    BY <1>4 DEF ServeFails, vars, IInv, TypeOK, PortsAreReserved, CopiesMatch, IntentStands, Recorded, Touched
<1> QED
    BY <1>1, <1>2, <1>3, <1>4

LEMMA CallsStep ==
    ASSUME IInv, NEW r \in Requests, Call(r)
    PROVE  IInv'
<1>1. CASE CallList(r)
    BY <1>1, CallListStep
<1>2. ASSUME NEW n \in Names, CallStart(r, n)
      PROVE  IInv'
    BY <1>2, CallStartStep DEF CallStart
<1>3. ASSUME NEW n \in Names, CallStop(r, n)
      PROVE  IInv'
    BY <1>3, CallStartStep, CallRawStep DEF CallStop
<1>4. ASSUME NEW n \in Names, CallRemove(r, n)
      PROVE  IInv'
    BY <1>4, CallStartStep, CallRawStep DEF CallRemove
<1> QED
    BY <1>1, <1>2, <1>3, <1>4, StartRawStep, CreateStep DEF Call

LEMMA NextStep == IInv /\ [Next]_vars => IInv'
<1> SUFFICES ASSUME IInv, [Next]_vars PROVE IInv'
    OBVIOUS
<1>1. CASE UNCHANGED vars
    BY <1>1 DEF vars, IInv, TypeOK, PortsAreReserved, CopiesMatch, IntentStands, Recorded, Touched
<1>2. ASSUME NEW r \in Requests, Start(r) \/ Remove(r)
      PROVE  IInv'
    BY <1>2, IntentStep, InspectsStep, LaunchesStep, ReleasesStep, ForwardsStep, IdentifiesStep,
       PersistsStep, CannotPersistStep, UndoesStep, RemoveUnstartedStep, VerifiesStep, RemoveForgetsStep,
       StopsStep
       DEF Start, Remove
<1>3. ASSUME NEW r \in Requests,
             StopUnforwards(r) \/ StopStops(r) \/ ListCompares(r) \/ ListForgets(r) \/ StateWriteFails(r)
      PROVE  IInv'
    BY <1>3, StopsStep, ListComparesStep, ListForgetsStep
<1> QED
    BY <1>1, <1>2, <1>3, CallsStep, AroundStep DEF Next

THEOREM Invariant == Spec => []IInv
<1>1. Init => IInv
    <2> SUFFICES ASSUME Init PROVE IInv
        OBVIOUS
    <2>1. TypeOK
        BY NoOpTyped DEF Init, TypeOK, Pcs
    <2>2. Recorded = {}
        BY DEF Init, Recorded
    <2> QED
        BY <2>1, <2>2 DEF Init, IInv, PortsAreReserved, CopiesMatch, IntentStands, Starting, NoOp
<1> QED
    BY <1>1, NextStep, PTL DEF Spec

(* For any requests at once the records, the reservations, what requests   *)
(* have in hand and the machines have their types.                         *)
THEOREM TypeCorrect == Spec => []TypeOK
<1>1. IInv => TypeOK
    BY DEF IInv
<1> QED
    BY <1>1, Invariant, PTL

(* For any requests at once a host port belongs to one record, and one     *)
(* whose start was never announced has its ports bound as long as the      *)
(* server is up.                                                           *)
THEOREM PortsStayReserved == Spec => []PortsAreReserved
<1>1. IInv => PortsAreReserved
    BY DEF IInv
<1> QED
    BY <1>1, Invariant, PTL

-----------------------------------------------------------------------------
(***************************************************************************)
(* One request at a time: commands, answers and writes fail, the server    *)
(* crashes and the guest stops, at any step.                               *)
(***************************************************************************)

OneRequest == \A q, r \in Requests : q = r

NamesAreUnique ==
    \A i, j \in Recorded : records[i].name = records[j].name => i = j

\* A rule leads to the container of the record that owns its port, whose
\* start has been announced.
RulesLeadToContainers ==
    \A p \in proxy : \E i \in Recorded :
        p \in records[i].ports /\ Touched(i) /\ guest[records[i].name] # "none"

\* Nobody but a record itself keeps its ports bound.
HeldByOwner ==
    \A i \in Recorded, j \in Ids : i # j => held[j] \cap records[i].ports = {}

\* What the request at work has found, and made.
Progress(r) ==
    /\ op[r].id # NULL => op[r].id \in Recorded
    /\ pc[r] \in {"intent", "unforward", "forget_unstarted"} => op[r].id # NULL
    /\ pc[r] \in {"stop", "stop_service", "verify", "forget"} /\ op[r].id = NULL =>
          state_match(op[r].name) = {}
    /\ pc[r] \in {"stop_service", "verify", "forget"} => op[r].name \in Names
    /\ pc[r] \in {"release", "forward"} => guest[op[r].name] # "none"
    /\ pc[r] = "forward" => held[op[r].id] = {}
    /\ pc[r] = "forget_unstarted" => ~Touched(op[r].id)
    /\ pc[r] \in {"verify", "forget"} => op[r].ports \cap proxy = {}
    /\ pc[r] \in {"stop_service", "verify"} => ~op[r].answered
    /\ pc[r] = "forget" /\ op[r].answered => guest[op[r].name] = "none"
    /\ pc[r] = "forget_phantoms" =>
          \A i \in op[r].phantoms : i \in Recorded /\ guest[records[i].name] = "none"

Agreement == NamesAreUnique /\ RulesLeadToContainers /\ HeldByOwner /\ OneListener

LoneInv == Agreement /\ \A r \in Requests : Progress(r)

-----------------------------------------------------------------------------
(* What keeps the records, the guest, the rules and the sockets in         *)
(* agreement.                                                              *)

\* The records stay, and what they say of starts at most grows.
SameRecords ==
    /\ Recorded' = Recorded
    /\ \A i \in Recorded : /\ records'[i].name = records[i].name
                           /\ records'[i].ports = records[i].ports
                           /\ Touched(i) => Touched(i)'

LEMMA RecordsUntouched == ASSUME UNCHANGED records PROVE SameRecords
    BY DEF SameRecords, Touched, Recorded

LEMMA NamesKept ==
    ASSUME NamesAreUnique, SameRecords
    PROVE  NamesAreUnique'
    BY DEF NamesAreUnique, SameRecords

LEMMA RulesKept ==
    ASSUME TypeOK, RulesLeadToContainers, SameRecords, proxy' \subseteq proxy,
           \A p \in proxy', i \in Recorded :
               p \in records[i].ports /\ guest[records[i].name] # "none"
                   => guest'[records[i].name] # "none"
    PROVE  RulesLeadToContainers'
<1>1. ASSUME NEW p \in proxy'
      PROVE  \E i \in Recorded' :
                p \in records'[i].ports /\ Touched(i)' /\ guest'[records'[i].name] # "none"
    <2>1. PICK i \in Recorded :
            p \in records[i].ports /\ Touched(i) /\ guest[records[i].name] # "none"
        BY <1>1 DEF RulesLeadToContainers
    <2> QED
        BY <1>1, <2>1 DEF SameRecords
<1> QED
    BY <1>1 DEF RulesLeadToContainers

LEMMA OwnersKept ==
    ASSUME HeldByOwner, SameRecords, \A j \in Ids : held'[j] \subseteq held[j]
    PROVE  HeldByOwner'
    BY DEF HeldByOwner, SameRecords

LEMMA ListenersKept ==
    ASSUME OneListener, proxy' \subseteq proxy, \A j \in Ids : held'[j] \subseteq held[j]
    PROVE  OneListener'
    BY DEF OneListener

\* Records at most grow more certain, containers only change between stopped
\* and running, rules and sockets at most go.
LEMMA AgreementKept ==
    ASSUME TypeOK, Agreement, SameRecords, proxy' \subseteq proxy,
           \A j \in Ids : held'[j] \subseteq held[j],
           \A n \in Names : guest'[n] # "none" <=> guest[n] # "none"
    PROVE  Agreement'
<1>1. \A i \in Recorded : records[i].name \in Names
    BY MetaTyped
<1>2. RulesLeadToContainers'
    BY <1>1, RulesKept DEF Agreement
<1> QED
    BY <1>2, NamesKept, OwnersKept, ListenersKept DEF Agreement

\* Some records without rules, and the sockets of some, go.
LEMMA AgreementDrops ==
    ASSUME TypeOK, Agreement, Recorded' \subseteq Recorded,
           \A i \in Recorded' : records'[i] = records[i],
           \A i \in Recorded \ Recorded' : records[i].ports \cap proxy = {},
           \A j \in Ids : held'[j] \subseteq held[j], UNCHANGED <<guest, proxy>>
    PROVE  Agreement'
<1>1. NamesAreUnique' /\ HeldByOwner' /\ OneListener'
    BY DEF Agreement, NamesAreUnique, HeldByOwner, OneListener
<1>2. RulesLeadToContainers'
    BY DEF Agreement, RulesLeadToContainers, Touched
<1> QED
    BY <1>1, <1>2 DEF Agreement

\* A record of no container, and one whose start was never announced, has no
\* rules.
LEMMA NoRules ==
    ASSUME IInv, LoneInv, NEW i \in Recorded,
           ~Touched(i) \/ guest[records[i].name] = "none"
    PROVE  records[i].ports \cap proxy = {}
<1>1. ASSUME NEW p \in records[i].ports, p \in proxy PROVE FALSE
    <2>1. PICK j \in Recorded :
            p \in records[j].ports /\ Touched(j) /\ guest[records[j].name] # "none"
        BY <1>1 DEF LoneInv, Agreement, RulesLeadToContainers
    <2>2. i = j
        BY <1>1, <2>1 DEF IInv, PortsAreReserved
    <2> QED
        BY <2>1, <2>2
<1> QED
    BY <1>1

\* A request that ends leaves nothing to claim.
LEMMA EndsQuietly ==
    ASSUME TypeOK, NEW r \in Requests, Return(r)
    PROVE  Progress(r)'
<1>1. pc'[r] = "idle" /\ op'[r].id = NULL
    BY ReturnTyped DEF NoOp
<1> QED
    BY <1>1 DEF Progress

-----------------------------------------------------------------------------
(* Start.                                                                  *)

\* The record a request works on.
LEMMA InHand ==
    ASSUME IInv, LoneInv, NEW r \in Requests, op[r].id # NULL
    PROVE  /\ op[r].id \in Recorded /\ op[r].id \in Ids /\ op[r].name \in Names
           /\ records[op[r].id].name = op[r].name /\ records[op[r].id].ports = op[r].ports
           /\ op[r].id \in state_match(op[r].name)
<1>1. TypeOK /\ op[r].id \in Recorded
    BY DEF IInv, LoneInv, Progress
<1> QED
    BY <1>1, MetaTyped DEF IInv, CopiesMatch, state_match

LEMMA Announced ==
    ASSUME IInv, LoneInv, NEW r \in Requests, pc[r] \in Starting
    PROVE  op[r].id # NULL /\ Touched(op[r].id)
    BY InHand DEF IInv, IntentStands

LEMMA SoloTakes ==
    ASSUME OneRequest, IInv, LoneInv, NEW r \in Requests, NEW n \in Names, NEW i \in state_match(n),
           NEW label \in {"intent", "unforward", "forget_unstarted", "stop_service"},
           Take(r, n, i, label), label = "forget_unstarted" => ~Touched(i),
           UNCHANGED <<inside, outside, server>>
    PROVE  LoneInv'
<1>1. TypeOK /\ i \in Recorded /\ i # NULL /\ label \in Pcs
    BY LabelsTyped, DockerApiAssumption DEF IInv, state_match, Recorded
<1>2. pc'[r] = label /\ op'[r].id = i /\ op'[r].name = n /\ ~op'[r].answered
    BY <1>1, TakeTyped
<1>3. Agreement'
    BY <1>1, RecordsUntouched, AgreementKept DEF LoneInv, Agreement, inside, outside
<1>4. Progress(r)'
    BY <1>1, <1>2 DEF Progress, Touched, Recorded, inside
<1> QED
    BY <1>3, <1>4 DEF OneRequest, LoneInv

LEMMA SoloTakesRaw ==
    ASSUME OneRequest, IInv, LoneInv, NEW r \in Requests, NEW n \in Names, state_match(n) = {},
           NEW label \in {"stop", "stop_service"}, TakeRaw(r, n, label),
           UNCHANGED <<inside, outside, server>>
    PROVE  LoneInv'
<1>1. TypeOK /\ label \in Pcs
    BY LabelsTyped DEF IInv
<1>2. pc'[r] = label /\ op'[r].id = NULL /\ op'[r].name = n /\ ~op'[r].answered
    BY <1>1, TakeRawTyped
<1>3. Agreement'
    BY <1>1, RecordsUntouched, AgreementKept DEF LoneInv, Agreement, inside, outside
<1>4. Progress(r)'
    BY <1>1, <1>2 DEF Progress, state_match, Recorded, inside
<1> QED
    BY <1>3, <1>4 DEF OneRequest, LoneInv

LEMMA SoloStartRaw ==
    ASSUME OneRequest, IInv, LoneInv, NEW r \in Requests, NEW n \in Names, StartRaw(r, n)
    PROVE  LoneInv'
<1>1. TypeOK
    BY DEF IInv
<1>2. \A k \in Names : guest'[k] # "none" <=> guest[k] # "none"
    BY <1>1 DEF StartRaw, TypeOK
<1>3. Agreement'
    BY <1>1, <1>2, RecordsUntouched, AgreementKept DEF LoneInv, Agreement, StartRaw, inside
<1>4. Progress(r)'
    BY DEF StartRaw, At, LoneInv, Progress, Recorded, inside
<1> QED
    BY <1>3, <1>4 DEF OneRequest, LoneInv

LEMMA SoloIntent ==
    ASSUME OneRequest, IInv, IInv', LoneInv, NEW r \in Requests, StartIntent(r)
    PROVE  LoneInv'
<1> DEFINE i == op[r].id
           meta == [records[i] EXCEPT !.pending = TRUE]
<1>1. TypeOK /\ TypeOK' /\ "inspect" \in Pcs
    BY DEF IInv, Pcs
<1>2. i # NULL /\ i \in Recorded /\ i \in Ids
    BY InHand DEF StartIntent, At, LoneInv, Progress
<1>3. records[i] \in ContainerMeta
    BY <1>1, <1>2, MetaTyped
<1>4. /\ meta \in ContainerMeta /\ meta.pending = TRUE
      /\ meta.name = records[i].name /\ meta.ports = records[i].ports
    BY <1>3 DEF ContainerMeta
<1>5. Write(i, meta) /\ Goto(r, "inspect") /\ UNCHANGED <<op, held, outside>>
    BY <1>2 DEF StartIntent
<1> HIDE DEF meta
<1>6. records'[i] = meta /\ \A j \in Ids \ {i} : records'[j] = records[j]
    BY <1>1, <1>2, <1>4, <1>5, WriteTyped
<1>7. SameRecords
    BY <1>2, <1>4, <1>6, DockerApiAssumption DEF SameRecords, Touched, Recorded
<1>8. Agreement'
    BY <1>1, <1>5, <1>7, AgreementKept DEF LoneInv, Agreement, outside
<1>9. Progress(r)'
    BY <1>1, <1>2, <1>5, <1>7, GotoTyped DEF Progress, SameRecords
<1> QED
    BY <1>8, <1>9 DEF OneRequest, LoneInv

LEMMA SoloInspects ==
    ASSUME OneRequest, IInv, LoneInv, NEW r \in Requests, StartInspects(r)
    PROVE  LoneInv'
<1>1. TypeOK /\ "launch" \in Pcs /\ Goto(r, "launch") /\ UNCHANGED <<inside, outside>>
    BY DEF IInv, Pcs, StartInspects
<1>2. Agreement'
    BY <1>1, RecordsUntouched, AgreementKept DEF LoneInv, Agreement, inside, outside
<1>3. op'[r].id = op[r].id
    BY <1>1, OpTyped DEF StartInspects, TypeOK, Op
<1>4. Progress(r)'
    BY <1>1, <1>3, GotoTyped DEF LoneInv, Progress, inside, Recorded
<1> QED
    BY <1>2, <1>4 DEF OneRequest, LoneInv

LEMMA SoloLaunches ==
    ASSUME OneRequest, IInv, LoneInv, NEW r \in Requests, StartLaunches(r)
    PROVE  LoneInv'
<1>1. /\ TypeOK /\ "release" \in Pcs /\ pc[r] \in Starting
      /\ UNCHANGED <<inside, proxy, server>>
    BY DEF IInv, Pcs, Starting, StartLaunches, At
<1>2. op[r].id # NULL /\ Touched(op[r].id) /\ op[r].id \in state_match(op[r].name) /\ op[r].name \in Names
    BY <1>1, Announced, InHand
<1>3. \A n \in Names : guest'[n] = guest[n] \/ (n = op[r].name /\ guest'[n] = "running")
    BY <1>1 DEF StartLaunches, TypeOK
<1>4. SameRecords /\ UNCHANGED records
    BY <1>1, RecordsUntouched DEF inside
<1>5. \A i \in Recorded : guest[records[i].name] # "none" => guest'[records[i].name] # "none"
    BY <1>1, <1>3, MetaTyped
<1>6. Agreement'
    BY <1>1, <1>4, <1>5, NamesKept, RulesKept, OwnersKept, ListenersKept DEF LoneInv, Agreement, inside
<1>7. Progress(r)'
    <2>1. CASE Return(r)
        BY <1>1, <2>1, EndsQuietly
    <2>2. CASE Goto(r, "release") /\ UNCHANGED op /\ guest' = [guest EXCEPT ![op[r].name] = "running"]
        <3>1. pc'[r] = "release" /\ guest'[op[r].name] = "running"
            BY <1>1, <1>2, <2>2, GotoTyped DEF TypeOK
        <3> QED
            BY <1>1, <2>2, <3>1 DEF LoneInv, Progress, inside, Recorded
    <2> QED
        BY <2>1, <2>2 DEF StartLaunches
<1> QED
    BY <1>6, <1>7 DEF OneRequest, LoneInv

LEMMA SoloReleases ==
    ASSUME OneRequest, IInv, LoneInv, NEW r \in Requests, StartReleases(r)
    PROVE  LoneInv'
<1>1. /\ TypeOK /\ "forward" \in Pcs /\ pc[r] = "release" /\ pc[r] \in Starting
      /\ Goto(r, "forward") /\ UNCHANGED <<records, outside, op>>
    BY DEF IInv, Pcs, Starting, StartReleases, At
<1>2. \A j \in Ids : held'[j] = IF j = op[r].id THEN {} ELSE held[j]
    BY <1>1, ReleaseTyped DEF StartReleases
<1>3. Agreement'
    BY <1>1, <1>2, RecordsUntouched, AgreementKept DEF LoneInv, Agreement, outside
<1>4. op[r].id \in Ids
    BY <1>1, Announced, InHand
<1>5. Progress(r)'
    BY <1>1, <1>2, <1>4, GotoTyped DEF LoneInv, Progress, outside, Recorded
<1> QED
    BY <1>3, <1>5 DEF OneRequest, LoneInv

LEMMA SoloForwards ==
    ASSUME OneRequest, IInv, LoneInv, NEW r \in Requests, StartForwards(r)
    PROVE  LoneInv'
<1> DEFINE i == op[r].id
<1>1. /\ TypeOK /\ {"identify", "undo_forward"} \subseteq Pcs /\ pc[r] = "forward" /\ pc[r] \in Starting
      /\ UNCHANGED <<inside, guest, vm, op>>
    BY DEF IInv, Pcs, Starting, StartForwards, At
<1>2. /\ i # NULL /\ i \in Recorded /\ i \in Ids /\ records[i].name = op[r].name
      /\ records[i].ports = op[r].ports /\ Touched(i)
    BY <1>1, Announced, InHand
<1>3. guest[op[r].name] # "none" /\ held[i] = {}
    BY <1>1 DEF LoneInv, Progress
<1>4. proxy' \subseteq proxy \cup op[r].ports
    BY DEF StartForwards
<1>5. RulesLeadToContainers'
    BY <1>1, <1>2, <1>3, <1>4 DEF LoneInv, Agreement, RulesLeadToContainers, Touched, Recorded, inside
<1>6. OneListener'
    <2>1. \A j \in Ids : held[j] \cap op[r].ports = {}
        BY <1>2, <1>3 DEF LoneInv, Agreement, HeldByOwner
    <2> QED
        BY <1>1, <1>4, <2>1 DEF LoneInv, Agreement, OneListener, inside
<1>7. Agreement'
    BY <1>1, <1>5, <1>6, RecordsUntouched, NamesKept, OwnersKept DEF LoneInv, Agreement, inside
<1>8. Progress(r)'
    <2>1. pc'[r] \in {"identify", "undo_forward"}
        BY <1>1, GotoTyped DEF StartForwards
    <2> QED
        BY <1>1, <2>1 DEF LoneInv, Progress, inside, Recorded
<1> QED
    BY <1>7, <1>8 DEF OneRequest, LoneInv

\* A step that changes nothing but where the request is.
LEMMA SoloGoesOn ==
    ASSUME OneRequest, IInv, LoneInv, NEW r \in Requests, UNCHANGED <<inside, outside>>,
           \/ Return(r)
           \/ UNCHANGED op /\ \E label \in Starting \ {"release", "forward"} : Goto(r, label)
    PROVE  LoneInv'
<1>1. TypeOK
    BY DEF IInv
<1>2. Agreement'
    BY <1>1, RecordsUntouched, AgreementKept DEF LoneInv, Agreement, inside, outside
<1>3. Progress(r)'
    <2>1. CASE Return(r)
        BY <1>1, <2>1, EndsQuietly
    <2>2. CASE UNCHANGED op /\ \E label \in Starting \ {"release", "forward"} : Goto(r, label)
        <3>1. PICK label \in Starting \ {"release", "forward"} : Goto(r, label)
            BY <2>2
        <3>2. pc'[r] = label
            BY <1>1, <3>1, GotoTyped, LabelsTyped
        <3> QED
            BY <2>2, <3>1, <3>2 DEF LoneInv, Progress, Starting, inside, Recorded
    <2> QED
        BY <2>1, <2>2
<1> QED
    BY <1>2, <1>3 DEF OneRequest, LoneInv

LEMMA SoloPersists ==
    ASSUME OneRequest, IInv, LoneInv, NEW r \in Requests, StartPersists(r)
    PROVE  LoneInv'
<1> DEFINE i == op[r].id
           m1 == [records[i] EXCEPT !.started = TRUE]
           m2 == [m1 EXCEPT !.pending = FALSE]
<1>1. TypeOK /\ i \in Recorded /\ Return(r) /\ UNCHANGED <<held, outside>>
    BY DEF IInv, StartPersists
<1>2. i \in Ids /\ records[i] \in ContainerMeta
    BY <1>1, MetaTyped
<1>3. m1 \in ContainerMeta /\ m1.started = TRUE /\ m1.name = records[i].name /\ m1.ports = records[i].ports
    BY <1>2 DEF ContainerMeta
<1>4. m2 \in ContainerMeta /\ m2.started = TRUE /\ m2.name = records[i].name /\ m2.ports = records[i].ports
    <2> HIDE DEF m1
    <2> QED
        BY <1>3 DEF ContainerMeta
<1>5. Write(i, m2)
    BY DEF StartPersists
<1> HIDE DEF m1, m2
<1>6. records'[i] = m2 /\ \A j \in Ids \ {i} : records'[j] = records[j]
    BY <1>1, <1>2, <1>4, <1>5, WriteTyped
<1>7. SameRecords
    BY <1>1, <1>4, <1>6, DockerApiAssumption DEF SameRecords, Touched, Recorded
<1>8. Agreement'
    BY <1>1, <1>7, AgreementKept DEF LoneInv, Agreement, outside
<1>9. Progress(r)'
    BY <1>1, EndsQuietly
<1> QED
    BY <1>8, <1>9 DEF OneRequest, LoneInv

\* Binding the ports again breaks neither ownership nor exclusion.
LEMMA SocketsAgree ==
    ASSUME IInv, LoneInv, NEW r \in Requests, op[r].id # NULL, reserve_meta_ports(r),
           UNCHANGED records, proxy' \subseteq proxy
    PROVE  HeldByOwner' /\ OneListener'
<1>1. TypeOK
    BY DEF IInv
<1>2. /\ op[r].id \in Recorded /\ op[r].id \in Ids
      /\ records[op[r].id].ports = op[r].ports
    BY InHand
<1>3. CASE held' = held
    BY <1>3 DEF LoneInv, Agreement, HeldByOwner, OneListener, Recorded
<1>4. CASE /\ \A p \in op[r].ports : Bindable(p, proxy')
           /\ \A i \in Ids : held'[i] = IF i = op[r].id THEN op[r].ports ELSE held[i]
    <2>1. HeldByOwner'
        <3>1. ASSUME NEW i \in Recorded, i # op[r].id
              PROVE  records[i].ports \cap op[r].ports = {}
            BY <1>2, <3>1 DEF IInv, PortsAreReserved
        <3> QED
            BY <1>2, <1>4, <3>1 DEF LoneInv, Agreement, HeldByOwner, Recorded
    <2>2. OneListener'
        <3>1. ASSUME NEW i \in Ids, NEW p \in held'[i] PROVE p \notin proxy'
            BY <1>4, <3>1 DEF LoneInv, Agreement, OneListener, Bindable
        <3>2. ASSUME NEW i \in Ids, NEW p \in held'[i], NEW j \in Ids \ {i}
              PROVE  p \notin held'[j]
            BY <1>4, <3>2 DEF LoneInv, Agreement, OneListener, Bindable
        <3> QED
            BY <3>1, <3>2 DEF OneListener
    <2> QED
        BY <2>1, <2>2
<1> QED
    BY <1>1, <1>3, <1>4, ReserveTyped

LEMMA SoloUndoes ==
    ASSUME OneRequest, IInv, LoneInv, NEW r \in Requests,
           UndoNew(r) \/ UndoForward(r) \/ UndoPersist(r)
    PROVE  LoneInv'
<1>1. /\ TypeOK /\ pc[r] \in Starting /\ Return(r) /\ reserve_meta_ports(r) /\ UNCHANGED <<records, vm>>
      /\ proxy' \subseteq proxy
    BY DEF IInv, UndoNew, UndoForward, UndoPersist, At, Starting
<1>2. /\ op[r].id # NULL /\ op[r].id \in Recorded /\ op[r].name \in Names
      /\ records[op[r].id].name = op[r].name /\ records[op[r].id].ports = op[r].ports
    BY <1>1, Announced, InHand
<1>3. HeldByOwner' /\ OneListener' /\ SameRecords
    BY <1>1, <1>2, SocketsAgree, RecordsUntouched
<1>4. Progress(r)'
    BY <1>1, EndsQuietly
<1>5. CASE UndoNew(r)
    <2>1. \A n \in Names : guest'[n] = guest[n] \/ (n = op[r].name /\ guest'[n] = "none")
        BY <1>1, <1>5, ReachTyped DEF UndoNew
    <2>2. ASSUME NEW p \in proxy', NEW i \in Recorded, p \in records[i].ports
          PROVE  records[i].name # op[r].name
        BY <1>2, <1>5, <2>2 DEF UndoNew, LoneInv, Agreement, NamesAreUnique
    <2>3. RulesLeadToContainers'
        BY <1>1, <1>3, <2>1, <2>2, MetaTyped, RulesKept DEF LoneInv, Agreement
    <2> QED
        BY <1>1, <1>3, <1>4, <2>3, NamesKept DEF OneRequest, LoneInv, Agreement
<1>6. CASE UndoForward(r) \/ UndoPersist(r)
    <2>1. \A n \in Names : \/ guest'[n] = guest[n]
                           \/ n = op[r].name /\ guest[n] # "none" /\ guest'[n] = "stopped"
        BY <1>1, <1>6, ReachTyped DEF UndoForward, UndoPersist
    <2>2. \A i \in Recorded : guest[records[i].name] # "none" => guest'[records[i].name] # "none"
        BY <1>1, <2>1, MetaTyped
    <2>3. RulesLeadToContainers'
        BY <1>1, <1>3, <2>2, RulesKept DEF LoneInv, Agreement
    <2> QED
        BY <1>1, <1>3, <1>4, <2>3, NamesKept DEF OneRequest, LoneInv, Agreement
<1> QED
    BY <1>5, <1>6

-----------------------------------------------------------------------------
(* Create, stop, remove and list.                                          *)

LEMMA SoloCreates ==
    ASSUME OneRequest, IInv, IInv', LoneInv, NEW r \in Requests, NEW n \in Names,
           NEW ports \in SUBSET Ports, create_container(r, n, ports)
    PROVE  LoneInv'
<1> DEFINE meta == [name |-> n, ports |-> ports, started |-> FALSE, pending |-> FALSE]
<1>1. TypeOK /\ UNCHANGED <<outside, server, pc, op>> /\ pc[r] = "idle" /\ state_match(n) = {}
    BY DEF IInv, create_container, At
<1>2. PICK id \in Ids \ issued : Write(id, meta) /\ held' = [held EXCEPT ![id] = ports]
    BY DEF create_container
<1>3. meta \in ContainerMeta /\ meta # NULL /\ meta.name = n /\ meta.ports = ports
    <2>1. meta \in ContainerMeta
        BY DEF ContainerMeta
    <2> QED
        BY <2>1, DockerApiAssumption
<1> HIDE DEF meta
<1>4. records'[id] = meta /\ \A j \in Ids \ {id} : records'[j] = records[j]
    BY <1>1, <1>2, <1>3, WriteTyped
<1>5. held'[id] = ports /\ \A j \in Ids \ {id} : held'[j] = held[j]
    BY <1>1, <1>2 DEF TypeOK
<1>6. id \notin Recorded /\ Recorded' = Recorded \cup {id} /\ id \in Ids
    BY <1>2, <1>3, <1>4 DEF IInv, Recorded
<1>7. \A i \in Recorded : i \in Ids \ {id} /\ records'[i] = records[i]
    BY <1>4, <1>6 DEF Recorded
<1>8. /\ \A i \in Recorded : records[i].ports \cap ports = {} /\ records[i].name # n
      /\ \A p \in ports : Bindable(p, proxy)
    BY <1>1 DEF create_container, state_match
<1>9. NamesAreUnique'
    BY <1>3, <1>4, <1>6, <1>7, <1>8 DEF LoneInv, Agreement, NamesAreUnique
<1>10. RulesLeadToContainers'
    BY <1>1, <1>6, <1>7 DEF LoneInv, Agreement, RulesLeadToContainers, Touched, outside
<1>11. HeldByOwner'
    <2>1. ASSUME NEW i \in Recorded', NEW j \in Ids, i # j
          PROVE  held'[j] \cap records'[i].ports = {}
        <3>1. CASE i = id
            BY <1>3, <1>4, <1>5, <1>8, <2>1, <3>1 DEF Bindable
        <3>2. CASE i # id /\ j = id
            BY <1>5, <1>6, <1>7, <1>8, <3>2
        <3>3. CASE i # id /\ j # id
            BY <1>5, <1>6, <1>7, <2>1, <3>3 DEF LoneInv, Agreement, HeldByOwner
        <3> QED
            BY <3>1, <3>2, <3>3
    <2> QED
        BY <2>1 DEF HeldByOwner
<1>12. OneListener'
    <2>1. \A j \in Ids : held'[j] = held[j] \/ (j = id /\ held'[j] = ports)
        BY <1>5
    <2> QED
        BY <1>1, <1>8, <2>1 DEF LoneInv, Agreement, OneListener, Bindable, outside
<1>13. Progress(r)'
    <2>1. op[r].id # NULL => op[r].id \in Recorded
        BY DEF LoneInv, Progress
    <2> QED
        BY <1>1, <1>6, <2>1 DEF Progress
<1> QED
    BY <1>1, <1>9, <1>10, <1>11, <1>12, <1>13 DEF OneRequest, LoneInv, Agreement, outside

LEMMA SoloStops ==
    ASSUME OneRequest, IInv, LoneInv, NEW r \in Requests, StopUnforwards(r) \/ StopStops(r)
    PROVE  LoneInv'
<1>1. TypeOK /\ UNCHANGED <<inside, vm>> /\ proxy' \subseteq proxy /\ "stop" \in Pcs
    BY DEF IInv, StopUnforwards, StopStops, Pcs
<1>2. \A n \in Names : guest'[n] # "none" <=> guest[n] # "none"
    <2>1. CASE UNCHANGED guest
        BY <2>1
    <2>2. CASE guest[op[r].name] # "none" /\ MayReach(op[r].name, "stopped")
        BY <1>1, <2>2, ReachTyped
    <2> QED
        BY <2>1, <2>2 DEF StopUnforwards, StopStops
<1>3. Agreement'
    BY <1>1, <1>2, RecordsUntouched, AgreementKept DEF LoneInv, Agreement, inside
<1>4. Progress(r)'
    <2>1. CASE StopUnforwards(r)
        <3>1. pc'[r] = "stop" /\ UNCHANGED op /\ op[r].id # NULL
            BY <1>1, <2>1, GotoTyped DEF StopUnforwards, At, LoneInv, Progress
        <3> QED
            BY <1>1, <3>1 DEF LoneInv, Progress, inside, Recorded
    <2>2. CASE StopStops(r)
        BY <1>1, <2>2, EndsQuietly DEF StopStops
    <2> QED
        BY <2>1, <2>2
<1> QED
    BY <1>3, <1>4 DEF OneRequest, LoneInv

LEMMA SoloRemovesUnstarted ==
    ASSUME OneRequest, IInv, LoneInv, NEW r \in Requests, RemoveUnstarted(r)
    PROVE  LoneInv'
<1> DEFINE i == op[r].id
<1>1. TypeOK /\ Return(r) /\ UNCHANGED outside /\ pc[r] = "forget_unstarted"
    BY DEF IInv, RemoveUnstarted, At
<1>2. /\ i # NULL /\ i \in Recorded /\ i \in Ids /\ records[i].name = op[r].name
      /\ op[r].name \in Names /\ ~Touched(i)
    BY <1>1, InHand DEF LoneInv, Progress
<1>3. records'[i] = NULL /\ \A j \in Ids \ {i} : records'[j] = records[j]
    BY <1>1, <1>2, WriteTyped DEF RemoveUnstarted
<1>4. Recorded' = Recorded \ {i} /\ \A j \in Recorded' : records'[j] = records[j]
    BY <1>2, <1>3 DEF Recorded
<1>5. records[i].ports \cap proxy = {}
    BY <1>2, NoRules
<1>6. \A j \in Ids : held'[j] \subseteq held[j]
    BY <1>1, ReleaseTyped DEF RemoveUnstarted
<1>7. Agreement'
    BY <1>1, <1>2, <1>4, <1>5, <1>6, AgreementDrops DEF LoneInv, outside
<1>8. Progress(r)'
    BY <1>1, EndsQuietly
<1> QED
    BY <1>7, <1>8 DEF OneRequest, LoneInv

LEMMA SoloRemoves ==
    ASSUME OneRequest, IInv, LoneInv, NEW r \in Requests, RemoveStops(r)
    PROVE  LoneInv'
<1>1. /\ TypeOK /\ "verify" \in Pcs /\ pc[r] = "stop_service"
      /\ UNCHANGED inside /\ proxy' = proxy \ op[r].ports
    BY DEF IInv, Pcs, RemoveStops, At
<1>2. \A n \in Names : guest'[n] = guest[n] \/ (n = op[r].name /\ guest'[n] = "none")
    BY <1>1 DEF RemoveStops, TypeOK
<1>3. SameRecords
    BY <1>1, RecordsUntouched DEF inside
<1>4. ASSUME NEW p \in proxy', NEW i \in Recorded, p \in records[i].ports
      PROVE  records[i].name # op[r].name
    <2>1. CASE op[r].id = NULL
        BY <1>1, <2>1 DEF LoneInv, Progress, state_match
    <2>2. CASE op[r].id # NULL
        BY <1>1, <1>4, <2>2, InHand DEF LoneInv, Agreement, NamesAreUnique
    <2> QED
        BY <2>1, <2>2
<1>5. RulesLeadToContainers'
    BY <1>1, <1>2, <1>3, <1>4, MetaTyped, RulesKept DEF LoneInv, Agreement
<1>6. Agreement'
    BY <1>1, <1>3, <1>5, NamesKept, OwnersKept, ListenersKept DEF LoneInv, Agreement, inside
<1>7. Progress(r)'
    <2>1. CASE Return(r)
        BY <1>1, <2>1, EndsQuietly
    <2>2. CASE Goto(r, "verify") /\ UNCHANGED op
        <3>1. pc'[r] = "verify" /\ op'[r].ports \cap proxy' = {}
            BY <1>1, <2>2, GotoTyped
        <3> QED
            BY <1>1, <2>2, <3>1 DEF LoneInv, Progress, inside, Recorded, state_match
    <2> QED
        BY <1>1, <2>1, <2>2 DEF RemoveStops
<1> QED
    BY <1>6, <1>7 DEF OneRequest, LoneInv

LEMMA SoloVerifies ==
    ASSUME OneRequest, IInv, LoneInv, NEW r \in Requests, RemoveVerifies(r)
    PROVE  LoneInv'
<1>1. TypeOK /\ "forget" \in Pcs /\ pc[r] = "verify" /\ UNCHANGED <<inside, outside>>
    BY DEF IInv, Pcs, RemoveVerifies, At
<1>2. Agreement'
    BY <1>1, RecordsUntouched, AgreementKept DEF LoneInv, Agreement, inside, outside
<1>3. Progress(r)'
    <2>1. CASE Return(r)
        BY <1>1, <2>1, EndsQuietly
    <2>2. CASE /\ Goto(r, "forget")
               /\ \/ UNCHANGED op
                  \/ guest[op[r].name] = "none" /\ op' = [op EXCEPT ![r].answered = TRUE]
        <3>1. pc'[r] = "forget"
            BY <1>1, <2>2, GotoTyped
        <3>2. /\ op'[r].id = op[r].id /\ op'[r].name = op[r].name /\ op'[r].ports = op[r].ports
            BY <1>1, <2>2, OpTyped DEF TypeOK, Op
        <3>3. op'[r].answered => op[r].answered \/ guest[op[r].name] = "none"
            BY <1>1, <2>2
        <3>4. ~op[r].answered
            BY <1>1 DEF LoneInv, Progress
        <3>5. UNCHANGED <<records, guest, proxy>>
            BY <1>1 DEF inside, outside
        <3> QED
            BY <1>1, <3>1, <3>2, <3>3, <3>4, <3>5 DEF LoneInv, Progress, Recorded, state_match
    <2> QED
        BY <2>1, <2>2 DEF RemoveVerifies
<1> QED
    BY <1>2, <1>3 DEF OneRequest, LoneInv

LEMMA SoloForgets ==
    ASSUME OneRequest, IInv, LoneInv, NEW r \in Requests, RemoveForgets(r)
    PROVE  LoneInv'
<1>1. TypeOK /\ Return(r) /\ UNCHANGED outside /\ pc[r] = "forget"
    BY DEF IInv, RemoveForgets, At
<1>2. \A i \in Ids : records'[i] = IF i \in state_match(op[r].name) THEN NULL ELSE records[i]
    BY DEF RemoveForgets
<1>3. /\ Recorded' = Recorded \ state_match(op[r].name)
      /\ \A j \in Recorded' : records'[j] = records[j]
    BY <1>2 DEF Recorded
<1>4. ASSUME NEW i \in Recorded \ Recorded' PROVE records[i].ports \cap proxy = {}
    <2>1. i \in state_match(op[r].name)
        BY <1>3
    <2>2. op[r].id # NULL
        BY <1>1, <2>1 DEF LoneInv, Progress
    <2>3. i = op[r].id /\ records[i].ports = op[r].ports
        BY <2>1, <2>2, InHand DEF LoneInv, Agreement, NamesAreUnique, state_match
    <2> QED
        BY <1>1, <2>3 DEF LoneInv, Progress
<1>5. \A j \in Ids : held'[j] \subseteq held[j]
    BY <1>1, ReleaseTyped DEF RemoveForgets
<1>6. Agreement'
    BY <1>1, <1>3, <1>4, <1>5, AgreementDrops DEF LoneInv, outside
<1>7. Progress(r)'
    BY <1>1, EndsQuietly
<1> QED
    BY <1>6, <1>7 DEF OneRequest, LoneInv

LEMMA SoloLists ==
    ASSUME OneRequest, IInv, LoneInv, NEW r \in Requests, CallList(r)
    PROVE  LoneInv'
<1> DEFINE o == [NoOp EXCEPT !.seen = {n \in Names : guest[n] # "none"}]
<1>1. TypeOK /\ "compare" \in Pcs /\ UNCHANGED <<inside, outside>> /\ Goto(r, "compare")
    BY DEF IInv, Pcs, CallList
<1>2. op' = [op EXCEPT ![r] = o] /\ o.id = NULL
    BY DEF CallList, NoOp
<1> HIDE DEF o
<1>3. pc'[r] = "compare" /\ op'[r].id = NULL
    BY <1>1, <1>2, GotoTyped DEF TypeOK
<1>4. Agreement'
    BY <1>1, RecordsUntouched, AgreementKept DEF LoneInv, Agreement, inside, outside
<1>5. Progress(r)'
    BY <1>3 DEF Progress
<1> QED
    BY <1>4, <1>5 DEF OneRequest, LoneInv

LEMMA SoloCompares ==
    ASSUME OneRequest, IInv, LoneInv, NEW r \in Requests, ListCompares(r)
    PROVE  LoneInv'
<1> DEFINE phantoms == {i \in Recorded : /\ records[i].name \notin op[r].seen
                                          /\ guest[records[i].name] = "none"
                                          /\ records[i].started}
           o == [NoOp EXCEPT !.phantoms = phantoms]
<1>1. TypeOK /\ "forget_phantoms" \in Pcs /\ UNCHANGED <<inside, outside>>
    BY DEF IInv, Pcs, ListCompares
<1>2. Agreement'
    BY <1>1, RecordsUntouched, AgreementKept DEF LoneInv, Agreement, inside, outside
<1>3. Progress(r)'
    <2>1. CASE Return(r)
        BY <1>1, <2>1, EndsQuietly
    <2>2. CASE op' = [op EXCEPT ![r] = o] /\ Goto(r, "forget_phantoms")
        <3>1. \A i \in phantoms : i \in Recorded /\ guest[records[i].name] = "none"
            OBVIOUS
        <3> HIDE DEF phantoms
        <3>2. o.id = NULL /\ o.phantoms = phantoms
            BY DEF NoOp
        <3> HIDE DEF o
        <3>3. pc'[r] = "forget_phantoms" /\ op'[r].id = NULL /\ op'[r].phantoms = phantoms
            BY <1>1, <2>2, <3>2, GotoTyped DEF TypeOK
        <3> QED
            BY <1>1, <3>1, <3>3 DEF Progress, inside, outside, Recorded
    <2> QED
        BY <2>1, <2>2 DEF ListCompares
<1> QED
    BY <1>2, <1>3 DEF OneRequest, LoneInv

LEMMA SoloDropsPhantoms ==
    ASSUME OneRequest, IInv, LoneInv, NEW r \in Requests, ListForgets(r)
    PROVE  LoneInv'
<1>1. TypeOK /\ Return(r) /\ UNCHANGED <<held, outside>> /\ pc[r] = "forget_phantoms"
    BY DEF IInv, ListForgets, At
<1>2. \A i \in Ids : records'[i] = IF i \in op[r].phantoms THEN NULL ELSE records[i]
    BY DEF ListForgets
<1>3. Recorded' = Recorded \ op[r].phantoms /\ \A j \in Recorded' : records'[j] = records[j]
    BY <1>2 DEF Recorded
<1>4. \A i \in Recorded \ Recorded' : records[i].ports \cap proxy = {}
    BY <1>1, <1>3, NoRules DEF LoneInv, Progress
<1>5. Agreement'
    BY <1>1, <1>3, <1>4, AgreementDrops DEF LoneInv, outside
<1>6. Progress(r)'
    BY <1>1, EndsQuietly
<1> QED
    BY <1>5, <1>6 DEF OneRequest, LoneInv

-----------------------------------------------------------------------------
(* The server; the conclusion.                                             *)

LEMMA SoloCrash ==
    ASSUME OneRequest, IInv, LoneInv, Crash
    PROVE  LoneInv'
<1>1. TypeOK /\ UNCHANGED <<records, outside>> /\ \A j \in Ids : held'[j] \subseteq held[j]
    BY DEF IInv, Crash
<1>2. Agreement'
    BY <1>1, RecordsUntouched, AgreementKept DEF LoneInv, Agreement, outside
<1>3. \A r \in Requests : Progress(r)'
    BY DEF Crash, Progress, NoOp
<1> QED
    BY <1>2, <1>3 DEF LoneInv

LEMMA SoloServe ==
    ASSUME OneRequest, IInv, LoneInv, Serve
    PROVE  LoneInv'
<1>1. /\ UNCHANGED <<records, outside, pc, op>>
      /\ \A i \in Ids : held'[i] = IF i \in Unstarted THEN records[i].ports ELSE {}
      /\ \A i \in Unstarted : i \in Recorded /\ records[i].ports \cap proxy = {}
    BY DEF Serve, CanRestore, Unstarted
<1>2. \A i, j \in Recorded : i # j => records[i].ports \cap records[j].ports = {}
    BY DEF IInv, PortsAreReserved
<1>3. HeldByOwner' /\ OneListener'
    BY <1>1, <1>2 DEF HeldByOwner, OneListener, Recorded, outside
<1>4. NamesAreUnique' /\ RulesLeadToContainers'
    BY <1>1 DEF LoneInv, Agreement, NamesAreUnique, RulesLeadToContainers, Touched, Recorded, outside
<1>5. \A r \in Requests : Progress(r)'
    BY <1>1 DEF IInv, Serve, Progress, NoOp
<1> QED
    BY <1>3, <1>4, <1>5 DEF LoneInv, Agreement

LEMMA SoloVm ==
    ASSUME OneRequest, IInv, LoneInv, VmGoesDown \/ VmComesUp
    PROVE  LoneInv'
<1>1. TypeOK /\ UNCHANGED <<inside, proxy, pc, op>>
    BY DEF IInv, VmGoesDown, VmComesUp
<1>2. \A n \in Names : guest'[n] # "none" <=> guest[n] # "none"
    BY DEF VmGoesDown, VmComesUp
<1>3. Agreement'
    BY <1>1, <1>2, RecordsUntouched, AgreementKept DEF LoneInv, inside
<1>4. ASSUME NEW r \in Requests PROVE Progress(r)'
    <2>1. pc[r] \in {"release", "forward", "forget"} => op[r].name \in Names
        BY Announced, InHand DEF Starting, LoneInv, Progress
    <2>2. pc[r] \in {"release", "forward", "forget"} =>
            (guest'[op[r].name] # "none" <=> guest[op[r].name] # "none")
        BY <1>2, <2>1
    <2>3. \A i \in Recorded : guest'[records[i].name] # "none" <=> guest[records[i].name] # "none"
        BY <1>1, <1>2, MetaTyped
    <2> QED
        BY <1>1, <2>1, <2>2, <2>3 DEF LoneInv, Progress, inside, Recorded, Touched, state_match
<1> QED
    BY <1>3, <1>4 DEF LoneInv

LEMMA SoloStart ==
    ASSUME OneRequest, IInv, IInv', LoneInv, NEW r \in Requests, Start(r)
    PROVE  LoneInv'
<1>1. CASE StartIdentifies(r) \/ StartCannotPersist(r) \/ UndoNothing(r)
    <2>1. UNCHANGED <<inside, outside>>
        BY <1>1 DEF StartIdentifies, StartCannotPersist, UndoNothing
    <2>2. \/ Return(r)
          \/ UNCHANGED op /\ \E label \in Starting \ {"release", "forward"} : Goto(r, label)
        BY <1>1 DEF StartIdentifies, StartCannotPersist, UndoNothing, Starting
    <2> QED
        BY <2>1, <2>2, SoloGoesOn
<1> QED
    BY <1>1, SoloIntent, SoloInspects, SoloLaunches, SoloReleases, SoloForwards, SoloPersists,
       SoloUndoes DEF Start

LEMMA SoloCalls ==
    ASSUME OneRequest, IInv, IInv', LoneInv, NEW r \in Requests, Call(r)
    PROVE  LoneInv'
<1>1. CASE CallList(r)
    BY <1>1, SoloLists
<1>2. ASSUME NEW n \in Names, CallStart(r, n)
      PROVE  LoneInv'
    BY <1>2, SoloTakes DEF CallStart
<1>3. ASSUME NEW n \in Names, CallStop(r, n)
      PROVE  LoneInv'
    BY <1>3, SoloTakes, SoloTakesRaw DEF CallStop
<1>4. ASSUME NEW n \in Names, CallRemove(r, n)
      PROVE  LoneInv'
    <2>1. ASSUME NEW i \in state_match(n),
                 Take(r, n, i, IF ~records[i].started /\ ~records[i].pending
                                 THEN "forget_unstarted" ELSE "stop_service")
          PROVE  LoneInv'
        <3>1. PICK label \in {"forget_unstarted", "stop_service"} :
                 Take(r, n, i, label) /\ (label = "forget_unstarted" => ~Touched(i))
            BY <2>1 DEF Touched
        <3> QED
            BY <1>4, <3>1, SoloTakes DEF CallRemove
    <2> QED
        BY <1>4, <2>1, SoloTakesRaw DEF CallRemove
<1> QED
    BY <1>1, <1>2, <1>3, <1>4, SoloStartRaw, SoloCreates DEF Call

LEMMA SoloNext == OneRequest /\ IInv /\ IInv' /\ LoneInv /\ [Next]_vars => LoneInv'
<1> SUFFICES ASSUME OneRequest, IInv, IInv', LoneInv, [Next]_vars PROVE LoneInv'
    OBVIOUS
<1>1. CASE UNCHANGED vars \/ ServeFails
    <2>1. TypeOK /\ UNCHANGED vars
        BY <1>1 DEF IInv, ServeFails
    <2>2. Agreement'
        BY <2>1, RecordsUntouched, AgreementKept DEF LoneInv, Agreement, vars
    <2> QED
        BY <2>1, <2>2 DEF LoneInv, Progress, vars, Recorded, Touched, state_match
<1>2. ASSUME NEW r \in Requests, Remove(r)
      PROVE  LoneInv'
    BY <1>2, SoloRemovesUnstarted, SoloRemoves, SoloVerifies, SoloForgets DEF Remove
<1>3. ASSUME NEW r \in Requests,
             StopUnforwards(r) \/ StopStops(r) \/ ListCompares(r) \/ ListForgets(r)
      PROVE  LoneInv'
    BY <1>3, SoloStops, SoloCompares, SoloDropsPhantoms
<1>4. ASSUME NEW r \in Requests, StateWriteFails(r)
      PROVE  LoneInv'
    BY <1>4, SoloGoesOn DEF StateWriteFails
<1> QED
    BY <1>1, <1>2, <1>3, <1>4, SoloStart, SoloCalls, SoloCrash, SoloServe, SoloVm DEF Next

THEOREM SoloInvariant == ASSUME OneRequest PROVE Spec => [](IInv /\ LoneInv)
<1>1. Init => LoneInv
    BY DEF Init, LoneInv, Agreement, NamesAreUnique, RulesLeadToContainers,
           HeldByOwner, OneListener, Progress, Recorded, NoOp
<1>2. IInv /\ IInv' /\ LoneInv /\ [Next]_vars => LoneInv'
    BY SoloNext
<1> QED
    BY <1>1, <1>2, Invariant, PTL DEF Spec

(* One request at a time: every portproxy rule is on a port of a record,   *)
(* and leads to its container.                                             *)
THEOREM EveryRuleIsOwned == ASSUME OneRequest PROVE Spec => []RulesAreOwned
<1>1. LoneInv => RulesAreOwned
    BY DEF LoneInv, Agreement, RulesLeadToContainers, RulesAreOwned
<1> QED
    BY <1>1, SoloInvariant, PTL

(* One request at a time: a host port has one listener, a socket of one    *)
(* reservation or the rule, over failed starts and what undoes them.       *)
THEOREM PortsHaveOneListener == ASSUME OneRequest PROVE Spec => []OneListener
<1>1. LoneInv => OneListener
    BY DEF LoneInv, Agreement
<1> QED
    BY <1>1, SoloInvariant, PTL

-----------------------------------------------------------------------------
(* Which step makes a container untracked.                                 *)

\* The step leaves the records of a container that is there as they are.
StaysTracked(n) == ~Untracked(n) => ~Untracked(n)'

LEMMA StillTracked ==
    ASSUME NEW n \in Names, SameRecords, guest'[n] # "none" => guest[n] # "none"
    PROVE  StaysTracked(n)
<1> SUFFICES ASSUME ~Untracked(n), guest'[n] # "none"
             PROVE  \E i \in state_match(n)' : Touched(i)'
    BY DEF StaysTracked, Untracked, Touched
<1>1. PICK i \in state_match(n) : Touched(i)
    BY DEF Untracked, Touched
<1>2. i \in state_match(n)' /\ Touched(i)'
    BY <1>1 DEF SameRecords, state_match
<1> QED
    BY <1>2

\* The records of containers that are there stay, or no start was announced.
LEMMA TrackedOverDrops ==
    ASSUME NEW n \in Names, UNCHANGED guest,
           \A i \in Recorded : (guest[records[i].name] # "none" /\ Touched(i)) =>
               i \in Recorded' /\ records'[i] = records[i]
    PROVE  StaysTracked(n)
<1> SUFFICES ASSUME ~Untracked(n), guest[n] # "none"
             PROVE  \E i \in state_match(n)' : Touched(i)'
    BY DEF StaysTracked, Untracked, Touched
<1>1. PICK i \in state_match(n) : Touched(i)
    BY DEF Untracked, Touched
<1>2. i \in Recorded /\ records[i].name = n
    BY <1>1 DEF state_match
<1>3. i \in state_match(n)' /\ Touched(i)'
    BY <1>1, <1>2 DEF state_match, Touched
<1> QED
    BY <1>3

LEMMA TrackedOverStart ==
    ASSUME OneRequest, IInv, LoneInv, NEW r \in Requests, Start(r), NEW n \in Names
    PROVE  StaysTracked(n)
<1>1. TypeOK
    BY DEF IInv
<1>2. CASE StartIntent(r)
    <2> DEFINE i == op[r].id
    <2>1. i # NULL /\ i \in Recorded /\ i \in Ids
        BY <1>2, InHand DEF StartIntent, At, LoneInv, Progress
    <2>2. records[i] \in ContainerMeta
        BY <1>1, <2>1, MetaTyped
    <2>3. records' = [records EXCEPT ![i] = [records[i] EXCEPT !.pending = TRUE]] /\ UNCHANGED guest
        BY <1>2, <2>1 DEF StartIntent, Write, outside
    <2>4. /\ records'[i].name = records[i].name /\ records'[i].ports = records[i].ports
          /\ records'[i].pending /\ records'[i] # NULL
          /\ \A j \in Ids \ {i} : records'[j] = records[j]
        <3> DEFINE meta == [records[i] EXCEPT !.pending = TRUE]
        <3>1. /\ meta \in ContainerMeta /\ meta.pending = TRUE
              /\ meta.name = records[i].name /\ meta.ports = records[i].ports
            BY <2>2 DEF ContainerMeta
        <3> HIDE DEF meta
        <3>2. records'[i] = meta /\ \A j \in Ids \ {i} : records'[j] = records[j]
            BY <1>1, <2>1, <2>3 DEF TypeOK, meta
        <3> QED
            BY <3>1, <3>2, DockerApiAssumption
    <2>5. SameRecords
        BY <2>1, <2>4 DEF SameRecords, Touched, Recorded
    <2> QED
        BY <2>3, <2>5, StillTracked
<1>3. CASE StartPersists(r)
    <2> DEFINE i == op[r].id
    <2>1. i \in Recorded /\ i \in Ids /\ records[i] \in ContainerMeta
        BY <1>1, <1>3, MetaTyped DEF StartPersists
    <2>2. /\ records' = [records EXCEPT ![i] = [records[i] EXCEPT !.started = TRUE, !.pending = FALSE]]
          /\ UNCHANGED guest
        BY <1>3 DEF StartPersists, Write, outside
    <2>3. /\ records'[i].name = records[i].name /\ records'[i].ports = records[i].ports
          /\ records'[i].started /\ records'[i] # NULL
          /\ \A j \in Ids \ {i} : records'[j] = records[j]
        <3> DEFINE m1 == [records[i] EXCEPT !.started = TRUE]
                   m2 == [m1 EXCEPT !.pending = FALSE]
        <3>1. /\ m1 \in ContainerMeta /\ m1.started = TRUE
              /\ m1.name = records[i].name /\ m1.ports = records[i].ports
            BY <2>1 DEF ContainerMeta
        <3>2. /\ m2 \in ContainerMeta /\ m2.started = TRUE
              /\ m2.name = records[i].name /\ m2.ports = records[i].ports
            <4> HIDE DEF m1
            <4> QED
                BY <3>1 DEF ContainerMeta
        <3>3. records' = [records EXCEPT ![i] = m2]
            BY <2>2
        <3> HIDE DEF m1, m2
        <3>4. records'[i] = m2 /\ \A j \in Ids \ {i} : records'[j] = records[j]
            BY <1>1, <2>1, <3>3 DEF TypeOK
        <3> QED
            BY <3>2, <3>4, DockerApiAssumption
    <2>4. SameRecords
        BY <2>1, <2>3 DEF SameRecords, Touched, Recorded
    <2> QED
        BY <2>2, <2>4, StillTracked
<1>4. CASE StartLaunches(r)
    <2>1. pc[r] \in Starting /\ UNCHANGED records
        BY <1>4 DEF StartLaunches, At, Starting, inside
    <2>2. op[r].id \in state_match(op[r].name) /\ Touched(op[r].id)
        BY <2>1, Announced, InHand
    <2>3. \A k \in Names : guest'[k] = guest[k] \/ k = op[r].name
        BY <1>1, <1>4 DEF StartLaunches, TypeOK
    <2>4. CASE n = op[r].name
        BY <2>1, <2>2, <2>4 DEF StaysTracked, Untracked, Touched, state_match, Recorded
    <2>5. CASE n # op[r].name
        BY <2>1, <2>3, <2>5, RecordsUntouched, StillTracked
    <2> QED
        BY <2>4, <2>5
<1>5. CASE UndoNew(r) \/ UndoForward(r) \/ UndoPersist(r)
    <2>1. UNCHANGED records
        BY <1>5 DEF UndoNew, UndoForward, UndoPersist
    <2>2. guest'[n] # "none" => guest[n] # "none"
        BY <1>1, <1>5, ReachTyped DEF UndoNew, UndoForward, UndoPersist
    <2> QED
        BY <2>1, <2>2, RecordsUntouched, StillTracked
<1>6. CASE \/ StartInspects(r) \/ StartReleases(r) \/ StartForwards(r)
           \/ StartIdentifies(r) \/ StartCannotPersist(r) \/ UndoNothing(r)
    <2>1. UNCHANGED <<records, guest>>
        BY <1>6 DEF StartInspects, StartReleases, StartForwards, StartIdentifies,
                    StartCannotPersist, UndoNothing, inside, outside
    <2> QED
        BY <2>1, RecordsUntouched, StillTracked
<1> QED
    BY <1>2, <1>3, <1>4, <1>5, <1>6 DEF Start

LEMMA TrackedOverCreate ==
    ASSUME IInv, NEW r \in Requests, NEW k \in Names, NEW ports \in SUBSET Ports,
           create_container(r, k, ports), NEW n \in Names
    PROVE  StaysTracked(n)
<1>1. UNCHANGED guest
    BY DEF create_container, outside
<1>2. PICK id \in Ids \ issued :
        Write(id, [name |-> k, ports |-> ports, started |-> FALSE, pending |-> FALSE])
    BY DEF create_container
<1>3. id \notin Recorded
    BY DEF IInv
<1>4. \A i \in Recorded : i \in Ids /\ i # id /\ records'[i] = records[i]
    BY <1>2, <1>3 DEF IInv, TypeOK, Write, Recorded
<1>5. \A i \in Recorded : i \in Recorded' /\ records'[i] = records[i]
    BY <1>4 DEF Recorded
<1> QED
    BY <1>1, <1>5, TrackedOverDrops

LEMMA TrackedOverRemove ==
    ASSUME OneRequest, IInv, LoneInv, NEW r \in Requests, Remove(r), NEW n \in Names,
           ~(pc[r] = "forget" /\ op[r].name = n /\ ~op[r].answered)
    PROVE  StaysTracked(n)
<1>1. TypeOK
    BY DEF IInv
<1>2. CASE RemoveUnstarted(r)
    <2>1. op[r].id \in Recorded /\ op[r].id \in Ids /\ ~Touched(op[r].id) /\ UNCHANGED guest
        BY <1>2, InHand DEF RemoveUnstarted, At, LoneInv, Progress, outside
    <2>2. \A j \in Ids \ {op[r].id} : records'[j] = records[j]
        BY <1>1, <1>2, <2>1, WriteTyped DEF RemoveUnstarted
    <2>3. \A i \in Recorded : Touched(i) => i \in Recorded' /\ records'[i] = records[i]
        BY <2>1, <2>2 DEF Recorded
    <2> QED
        BY <2>1, <2>3, TrackedOverDrops
<1>3. CASE RemoveStops(r)
    <2>1. UNCHANGED records /\ (guest'[n] # "none" => guest[n] # "none")
        BY <1>1, <1>3 DEF RemoveStops, TypeOK, inside
    <2> QED
        BY <2>1, RecordsUntouched, StillTracked
<1>4. CASE RemoveVerifies(r)
    BY <1>4, RecordsUntouched, StillTracked DEF RemoveVerifies, inside, outside
<1>5. CASE RemoveForgets(r)
    <2>1. pc[r] = "forget" /\ UNCHANGED guest
        BY <1>5 DEF RemoveForgets, At, outside
    <2>2. \A i \in Ids : records'[i] = IF i \in state_match(op[r].name) THEN NULL ELSE records[i]
        BY <1>5 DEF RemoveForgets
    <2>3. CASE n = op[r].name
        <3>1. op[r].answered
            BY <2>1, <2>3
        <3>2. guest[n] = "none"
            BY <2>1, <2>3, <3>1 DEF LoneInv, Progress
        <3> QED
            BY <2>1, <3>2 DEF StaysTracked, Untracked
    <2>4. CASE n # op[r].name
        <3>1. state_match(n)' = state_match(n)
            BY <2>2, <2>4 DEF state_match, Recorded
        <3>2. \A i \in state_match(n) : records'[i] = records[i]
            BY <2>2, <2>4 DEF state_match, Recorded
        <3> QED
            BY <2>1, <3>1, <3>2 DEF StaysTracked, Untracked
    <2> QED
        BY <2>3, <2>4
<1> QED
    BY <1>2, <1>3, <1>4, <1>5 DEF Remove

LEMMA TrackedOverLists ==
    ASSUME IInv, LoneInv, NEW r \in Requests, ListForgets(r), NEW n \in Names
    PROVE  StaysTracked(n)
<1>1. pc[r] = "forget_phantoms" /\ UNCHANGED guest
    BY DEF ListForgets, At, outside
<1>2. \A i \in op[r].phantoms : guest[records[i].name] = "none"
    BY <1>1 DEF LoneInv, Progress
<1>3. \A i \in Ids : records'[i] = IF i \in op[r].phantoms THEN NULL ELSE records[i]
    BY DEF ListForgets
<1>4. \A i \in Recorded : guest[records[i].name] # "none" => i \in Recorded' /\ records'[i] = records[i]
    BY <1>2, <1>3 DEF Recorded
<1> QED
    BY <1>1, <1>4, TrackedOverDrops

LEMMA TrackedOverRest ==
    ASSUME IInv, NEW n \in Names,
           \/ \E r \in Requests :
                \/ StopUnforwards(r) \/ StopStops(r) \/ ListCompares(r) \/ StateWriteFails(r)
                \/ CallList(r)
                \/ \E k \in Names : CallStart(r, k) \/ StartRaw(r, k) \/ CallStop(r, k) \/ CallRemove(r, k)
           \/ Crash \/ Serve \/ ServeFails \/ VmGoesDown \/ VmComesUp \/ UNCHANGED vars
    PROVE  StaysTracked(n)
<1>1. UNCHANGED records
    BY DEF StopUnforwards, StopStops, ListCompares, StateWriteFails, CallList, CallStart, StartRaw,
           CallStop, CallRemove, Crash, Serve, ServeFails, VmGoesDown, VmComesUp, vars, inside
<1>2. TypeOK
    BY DEF IInv
<1>3. CASE UNCHANGED guest
    BY <1>1, <1>3, RecordsUntouched, StillTracked
<1>4. CASE \E r \in Requests : StopStops(r)
    <2>1. guest'[n] # "none" => guest[n] # "none"
        BY <1>2, <1>4, ReachTyped DEF StopStops
    <2> QED
        BY <1>1, <2>1, RecordsUntouched, StillTracked
<1>5. CASE \E r \in Requests, k \in Names : StartRaw(r, k)
    <2>1. guest'[n] # "none" => guest[n] # "none"
        BY <1>2, <1>5 DEF StartRaw, TypeOK
    <2> QED
        BY <1>1, <2>1, RecordsUntouched, StillTracked
<1>6. CASE VmGoesDown
    <2>1. guest'[n] # "none" => guest[n] # "none"
        BY <1>6 DEF VmGoesDown
    <2> QED
        BY <1>1, <2>1, RecordsUntouched, StillTracked
<1> QED
    BY <1>3, <1>4, <1>5, <1>6
       DEF StopUnforwards, ListCompares, StateWriteFails, CallList, CallStart,
           CallStop, CallRemove, Crash, Serve, ServeFails, VmComesUp, vars, outside

(* One request at a time, whatever crashes, stops, fails or is answered    *)
(* wrongly: only a removal whose verification got no answer (api/lib.rs    *)
(* 1533) leaves a container whose record is gone or knows of no start.     *)
THEOREM ContainersStayTracked == ASSUME OneRequest PROVE Spec => OnlyUnansweredRemovalUntracks
<1> DEFINE A == \A n \in Names : ~Untracked(n) /\ Untracked(n)' =>
                  \E r \in Requests : pc[r] = "forget" /\ op[r].name = n /\ ~op[r].answered
<1>1. ASSUME IInv, LoneInv, [Next]_vars, NEW n \in Names,
             ~\E r \in Requests : pc[r] = "forget" /\ op[r].name = n /\ ~op[r].answered
      PROVE  StaysTracked(n)
    <2>1. ASSUME NEW r \in Requests, Call(r) PROVE StaysTracked(n)
        BY <1>1, <2>1, TrackedOverCreate, TrackedOverRest DEF Call
    <2>2. ASSUME NEW r \in Requests, Start(r) \/ Remove(r) \/ ListForgets(r) PROVE StaysTracked(n)
        BY <1>1, <2>2, TrackedOverStart, TrackedOverRemove, TrackedOverLists
    <2> QED
        BY <1>1, <2>1, <2>2, TrackedOverRest DEF Next
<1>2. IInv /\ LoneInv /\ [Next]_vars => [A]_vars
    BY <1>1 DEF StaysTracked
<1>3. Spec => []([A]_vars)
    BY <1>2, SoloInvariant, PTL DEF Spec
<1> QED
    BY <1>3 DEF OnlyUnansweredRemovalUntracks
=============================================================================
