----------------------------- MODULE StackFile -----------------------------
(***************************************************************************)
(* From a configuration file to a stack that may be run: the conversion of *)
(* a Compose project and the reading of stack.json (stackdeck-cli), the    *)
(* validation every `up` begins with, and what the Hyper-V backend and     *)
(* `down --volumes` make of the texts the conversion leaves behind.        *)
(*                                                                         *)
(* The machine takes one input through these stages; what it can refuse it *)
(* refuses at the stage where the code does.                               *)
(***************************************************************************)
EXTENDS ComposeFile

CONSTANT Inputs    \* files with the environment and the flags of a command

VARIABLES
    input,    \* the command: kind, file, os, profiles, backend
    stage,    \* "given", "parsed", "unreadable", "converted", "valid" or "refused"
    project,  \* the ComposeProject
    stack     \* the services of the StackConfig

vars == <<input, stage, project, stack>>

-----------------------------------------------------------------------------
(* What serde makes of a file: the types of the keys the code asks for.  A *)
(* mapping is typed with its merge keys expanded.                          *)

IsSeq(s) == Len(s) \in Nat /\ DOMAIN s = 1 .. Len(s)
FieldIn(m, key, S) == Get(m, key) \in S \cup {Absent}
OneShape(node) ==
    \A a, b \in {"list", "map", "text", "flag"} : Has(node, a) /\ Has(node, b) => a = b

\* Every line of an env file that is kept has a value, be it empty.
EnvFileTyped(file) ==
    file # Absent => IsSeq(file) /\ \A i \in DOMAIN file : file[i][2] # Absent

DurationTyped(raw) ==
    /\ Has(raw, "number") => raw.number \in Int
    /\ Has(raw, "text") => IsSeq(raw.text) /\ \A i \in DOMAIN raw.text : raw.text[i][1] \in Int

PartTyped(part) == Has(part, "range") => part.range \in Int \X Int
PortTextTyped(s) ==
    /\ PartTyped(s.target) /\ (s.published # Absent => PartTyped(s.published))
    /\ s.protocol # Absent

PortNodeTyped(node) ==
    /\ Has(node, "number") => node.number \in Int /\ ~Has(node, "text")
    /\ Has(node, "text") => PartTyped(node.text)

PortItemTyped(item) ==
    /\ Has(item, "text") => PortTextTyped(item.text)
    /\ Has(item, "number") => item.number \in Int
    /\ Has(item, "map") => \A key \in {"target", "published"} : PortNodeTyped(Node(item.map, key))

VolumeTextTyped(v) == v.source # Absent => v.source.form \in PathForms \cup {"name"}

RestartTyped(restart) ==
    \/ restart = <<>> \/ Has(restart, "flag")
    \/ Has(restart, "text") /\ restart.text # Absent
       /\ restart.count \in (0 .. U32 - 1) \cup {Absent}

ServiceTyped(raw) ==
    LET deploy  == Node(raw, "deploy")
        policy  == Node(deploy, "restart_policy")
        check   == Node(raw, "healthcheck")
        ports   == Node(raw, "ports")
        volumes == Node(raw, "volumes")
        own     == Node(raw, "environment")
    IN  /\ "<<" \notin DOMAIN raw
        /\ \A key \in {"build", "depends_on", "environment", "networks"} : OneShape(Node(raw, key))
        /\ "scale" \in DOMAIN raw => raw.scale \in Int
        /\ FieldIn(deploy, "replicas", Int) /\ FieldIn(policy, "max_attempts", 0 .. U32 - 1)
        /\ RestartTyped(Node(raw, "restart"))
        /\ IsSeq(Node(raw, "env_file"))
        /\ Has(own, "list") => IsSeq(own.list)
        /\ Has(own, "map") => IsSeq(own.map)
        /\ IsSeq(ports)
        /\ \A i \in DOMAIN ports : PortItemTyped(ports[i])
        /\ \A i \in DOMAIN volumes : Has(volumes[i], "text") => VolumeTextTyped(volumes[i].text)
        /\ Has(check, "map") =>
                \A key \in {"interval", "timeout"} : DurationTyped(Node(check.map, key))

FileKeys == {"name", "references", "dotenv", "env_files", "networks", "volumes", "services"}

ComposeTyped(file) ==
    /\ FileKeys \subseteq DOMAIN file
    /\ IsFiniteSet(DOMAIN file.services)
    /\ \A n \in DOMAIN file.services :
            n \in Seq(STRING) /\ ServiceTyped(expand_yaml_merge_keys(file.services[n]))
    /\ EnvFileTyped(file.dotenv)
    /\ \A f \in DOMAIN file.env_files : EnvFileTyped(file.env_files[f])

StackTyped(file) ==
    \A n \in DOMAIN file.services : LET check == Node(file.services[n], "healthcheck")
        IN  FieldIn(check, "timeout_seconds", Nat) /\ FieldIn(check, "interval_seconds", Nat)

\* The decimal numeral of a number.
Numeral(n) == ToString(n)

ASSUME StackFileAssumption ==
    /\ \A in \in Inputs : IF in.kind = "compose" THEN ComposeTyped(in.file) ELSE StackTyped(in.file)
    /\ Cardinality({Numeral(n) : n \in 1 .. U32 - 1}) = U32 - 1

-----------------------------------------------------------------------------
(* Compose services as services of a stack. *)

\* #[derive(Default)] of ServiceConfig, for the fields a loader leaves out.
DerivedDefault ==
    [command |-> Absent, entrypoint |-> Absent, env |-> <<>>, depends_on |-> <<>>,
     depends_on_conditions |-> <<>>, restart |-> "", max_restarts |-> 0,
     restart_backoff_seconds |-> 0, healthcheck |-> [type |-> "process", test |-> Absent,
     timeout |-> 20, interval |-> 2, retries |-> 1],
     ports |-> <<>>, volumes |-> <<>>, networks |-> <<>>, image |-> Absent,
     build |-> Absent, backend |-> "", replicas |-> 0, secrets |-> <<>>, configs |-> <<>>]

\* The defaults serde would use, were a ServiceConfig read from a file itself.
SerdeDefault ==
    [restart |-> "no", max_restarts |-> 5, restart_backoff_seconds |-> 3,
     backend |-> "native", replicas |-> 1]

Milliseconds ==
    [unit \in {"ms", "s", "", "m", "h"} |->
        CASE unit = "ms" -> 1 [] unit = "m" -> 60000 [] unit = "h" -> 3600000 [] OTHER -> 1000]

Total(parts) == FoldLeft(LAMBDA t, p : t + p[1] * Milliseconds[p[2]], 0, parts)

\* Mutant: an unknown unit leaves a duration that is no number.
parse_duration_seconds_keeps_text(parts) ==
    IF parts = Absent THEN Absent
    ELSE IF \E i \in DOMAIN parts : parts[i][2] \notin DOMAIN Milliseconds THEN Invalid
    ELSE Total(parts) \div 1000

\* Whole seconds, rounded up; an unknown unit makes the text no duration.
parse_duration_seconds(parts) ==
    IF parts = Absent \/ \E i \in DOMAIN parts : parts[i][2] \notin DOMAIN Milliseconds
    THEN Absent
    ELSE Max({0, (Total(parts) + 999) \div 1000})

compose_healthcheck(check) ==
    IF check = Absent \/ (check # Absent /\ check.disable) THEN DerivedDefault.healthcheck
    ELSE [type |-> "command", test |-> check.test,
          timeout  |-> Or(parse_duration_seconds(check.timeout), 20),
          interval |-> Or(parse_duration_seconds(check.interval), 2),
          retries  |-> Or(check.retries, 1)]

\* Mutant: the first env file that names a variable wins.
compose_environment_first_file(file, os, svc) ==
    LET files == [i \in DOMAIN svc.env_file |->
                    parse_env_file(Get(file.env_files, svc.env_file[i]))]
        base  == Layered(Reverse(files))
        dot   == IF file.dotenv = Absent THEN <<>> ELSE parse_env_file(file.dotenv)
        found == [k \in DOMAIN svc.environment |->
                    Or(svc.environment[k], Or(Get(dot, k), Get(os, k)))]
        own   == {k \in DOMAIN found : found[k] # Absent}
    IN  IF Invalid \in ToSet(files) THEN Invalid
        ELSE Restrict(found, own) ++ base

\* Later env files go before earlier ones, the service's own entries before
\* both.  A key without a value is looked up in .env, then in the process.
compose_environment(file, os, svc) ==
    LET files == [i \in DOMAIN svc.env_file |->
                    parse_env_file(Get(file.env_files, svc.env_file[i]))]
        base  == Layered(files)
        dot   == IF file.dotenv = Absent THEN <<>> ELSE parse_env_file(file.dotenv)
        found == [k \in DOMAIN svc.environment |->
                    Or(svc.environment[k], Or(Get(dot, k), Get(os, k)))]
        own   == {k \in DOMAIN found : found[k] # Absent}
    IN  IF Invalid \in ToSet(files) THEN Invalid ELSE Restrict(found, own) ++ base

\* Mutant: a target without a published port is published as it is.
compose_port_strings_publish_all(ports) ==
    Mapped(ports, LAMBDA p : [p EXCEPT !.published = Or(p.published, p.target)])

\* A target without a published port is not a port of the stack.
compose_port_strings(ports) ==
    FlattenSeq(Mapped(ports, LAMBDA p : IF p.published = Absent THEN <<>> ELSE <<p>>))

\* Mutant: a declared volume is mounted by its key in the file.
compose_volume_string_by_key(volumes, mount) ==
    [source    |-> IF mount.source = Absent THEN Absent
                   ELSE [mount.source EXCEPT !.key = <<mount.source.key>>],
     target    |-> mount.target,
     read_only |-> mount.read_only]

\* A declared volume goes by its name outside the file.
compose_volume_string(volumes, mount) ==
    [source    |-> IF mount.source # Absent /\ mount.type = "volume"
                      /\ mount.source.key \in DOMAIN volumes
                   THEN [form |-> "name", key |-> volumes[mount.source.key].name]
                   ELSE IF mount.source = Absent THEN Absent
                   ELSE [mount.source EXCEPT !.key = <<mount.source.key>>],
     target    |-> mount.target,
     read_only |-> mount.read_only]

\* What cannot be converted is refused, not dropped.
compose_service_to_stack_service(svc, volumes, env, backend) ==
    IF \/ svc.extra # {}
       \/ svc.container_name # Absent
       \/ \E i \in DOMAIN svc.networks : svc.networks[i].settings
       \/ backend = "native" /\ svc.command = Absent /\ svc.entrypoint = Absent
       \/ env = Invalid
    THEN Invalid
    ELSE [DerivedDefault EXCEPT
            !.command = svc.command, !.entrypoint = svc.entrypoint, !.env = env,
            !.depends_on = Mapped(svc.depends_on, LAMBDA d : d.service),
            !.depends_on_conditions = svc.depends_on,
            !.restart = svc.restart.name,
            !.max_restarts = Or(svc.restart.maximum_retry_count, 5),
            !.healthcheck = compose_healthcheck(svc.healthcheck),
            !.ports = compose_port_strings(svc.ports),
            !.volumes = Mapped(svc.volumes, LAMBDA m : compose_volume_string(volumes, m)),
            !.networks = Mapped(svc.networks, LAMBDA n : n.name),
            !.image = svc.image, !.build = svc.build, !.backend = backend, !.replicas = 1,
            !.secrets = svc.secrets, !.configs = svc.configs]

\* Mutant: the suffix of a replica is the same for all but the first.
InstanceOfAnyReplica(name, replica) == IF replica = 1 THEN name ELSE Append(name, "replica")

Instance(name, replica) == IF replica = 1 THEN name ELSE Append(name, Numeral(replica))

\* Resources and scales this runtime has no meaning for.
UnsupportedProject(p) ==
    \/ \E n \in DOMAIN p.networks :
            p.networks[n].driver \notin {Absent, "bridge"} \/ p.networks[n].options
    \/ \E v \in DOMAIN p.volumes :
            p.volumes[v].driver \notin {Absent, "local"} \/ p.volumes[v].options
    \/ \E s \in DOMAIN p.services :
            LET svc == p.services[s]
            IN  \/ svc.replicas = 0
                \/ svc.replicas > 1 /\ compose_port_strings(svc.ports) # <<>>
                \/ svc.replicas > 1 /\ svc.container_name # Absent

\* The stacks a project can become, none if it is refused.  Instances of the
\* same name replace each other in the order of a HashMap.
compose_project_to_stack(p, file, os, backend) ==
    LET Config(s) == compose_service_to_stack_service(p.services[s], p.volumes,
                        compose_environment(file, os, p.services[s]), backend)
        config    == [s \in DOMAIN p.services |-> Config(s)]
        Replicas(s) == {Instance(s, r) : r \in 1 .. p.services[s].replicas}
        instances == UNION {Replicas(s) : s \in DOMAIN p.services}
        owners    == {o \in [instances -> DOMAIN p.services] :
                        \A i \in instances : i \in Replicas(o[i])}
    IN  IF UnsupportedProject(p) \/ \E s \in DOMAIN config : config[s] = Invalid THEN {}
        ELSE {[i \in instances |-> config[o[i]]] : o \in owners}

-----------------------------------------------------------------------------
(* stack.json. *)

normalize_stack_depends_on(raw) ==
    CASE Has(raw, "list") -> Mapped(raw.list, LAMBDA s : DependsOn(s, "service_started", TRUE))
      [] Has(raw, "map")  -> Mapped(raw.map, LAMBDA e :
                                DependsOn(e[1], Or(Get(e[2], "condition"), "service_started"),
                                          Or(Get(e[2], "required"), TRUE)))
      [] OTHER            -> <<>>

normalize_stack_service(raw, defaults) ==
    LET Inherited(key, default) == Or(Get(raw, key), Or(Get(defaults, key), default))
        conditions == normalize_stack_depends_on(Node(raw, "depends_on"))
        check      == Node(raw, "healthcheck")
    IN  [DerivedDefault EXCEPT
            !.command = Get(raw, "command"), !.entrypoint = Get(raw, "entrypoint"),
            !.env = Inherited("env", <<>>),
            !.depends_on = Mapped(conditions, LAMBDA d : d.service),
            !.depends_on_conditions = conditions,
            !.restart = Inherited("restart", "no"),
            !.healthcheck = [type     |-> Or(Get(check, "type"), "process"),
                             test     |-> Absent,
                             timeout  |-> Or(Get(check, "timeout_seconds"), 20),
                             interval |-> Or(Get(check, "interval_seconds"), 2),
                             retries  |-> Or(Get(check, "retries"), 1)],
            !.backend = Inherited("backend", "native"),
            !.image = Get(raw, "image"),
            !.ports = Or(Get(raw, "ports"), <<>>),
            !.volumes = Or(Get(raw, "volumes"), <<>>),
            !.networks = Or(Get(raw, "networks"), <<>>)]

-----------------------------------------------------------------------------
(* Before anything runs. *)

effective_backend(override, own) == IF override = "" THEN own ELSE override

validate_service(svc, override) ==
    LET native == effective_backend(override, svc.backend) \in {"native", ""}
    IN  /\ ~ (native /\ svc.command = Absent /\ svc.entrypoint = Absent)
        /\ svc.replicas # 0
        /\ ~ (native /\ (svc.secrets # <<>> \/ svc.configs # <<>>))
        /\ ~ (svc.build # Absent /\ svc.build.extra)

validate_stack_for_run(services, override) ==
    \A s \in DOMAIN services : validate_service(services[s], override)

-----------------------------------------------------------------------------
(* What the backend makes of a port: of "[ip:]published:target[/protocol]". *)
parse_port_mapping(port) ==
    IF \/ port.protocol \notin {"tcp", "udp"}
       \/ port.host_ip = "v6"
       \/ 0 \in {port.published, port.target}
    THEN Invalid
    ELSE [host_ip        |-> IF port.host_ip \in {Absent, ""} THEN "127.0.0.1" ELSE port.host_ip,
          host_port      |-> port.published,
          container_port |-> port.target]

is_udp_port(port) == port.protocol = "udp"

\* The listeners of a started service: ensure_portproxy refuses what is not TCP.
Listeners(svc) ==
    LET mappings == Mapped(svc.ports, parse_port_mapping)
    IN  IF Invalid \in ToSet(mappings) \/ \E i \in DOMAIN svc.ports : is_udp_port(svc.ports[i])
        THEN Invalid ELSE mappings

\* `down --volumes`: the volumes of the project that are not external.
removable_hyperv_volume_names(p) ==
    {p.volumes[v].name : v \in {w \in DOMAIN p.volumes : ~p.volumes[w].external}}

-----------------------------------------------------------------------------
Init ==
    /\ input \in Inputs
    /\ stage = "given"
    /\ project = Absent
    /\ stack = Absent

Parse ==
    /\ stage = "given"
    /\ input.kind = "compose"
    /\ LET projects == load_compose_file(input.file, input.profiles, input.os)
       IN  \/ projects = {} /\ stage' = "unreadable" /\ UNCHANGED project
           \/ project' \in projects /\ stage' = "parsed"
    /\ UNCHANGED <<input, stack>>

\* load_stack_with_backend: a Compose file without a backend is run natively.
Convert ==
    /\ stage = "parsed"
    /\ LET stacks == compose_project_to_stack(project, input.file, input.os,
                        effective_backend(input.backend, "native"))
       IN  \/ stacks = {} /\ stage' = "unreadable" /\ UNCHANGED stack
           \/ stack' \in stacks /\ stage' = "converted"
    /\ UNCHANGED <<input, project>>

ReadStack ==
    /\ stage = "given"
    /\ input.kind = "stack"
    /\ stack' = [s \in DOMAIN input.file.services |->
                    normalize_stack_service(input.file.services[s], input.file.defaults)]
    /\ stage' = "converted"
    /\ UNCHANGED <<input, project>>

Validate ==
    /\ stage = "converted"
    /\ stage' = IF validate_stack_for_run(stack, input.backend) THEN "valid" ELSE "refused"
    /\ UNCHANGED <<input, project, stack>>

Next == Parse \/ Convert \/ ReadStack \/ Validate

Spec == Init /\ [][Next]_vars
-----------------------------------------------------------------------------
(* The meaning of a file: what its long spelling loads to. *)

LongPort(s) ==
    LET Host(i) == Min({s.published.range[1] + i, s.published.range[2]})
        Entry(i) == [target |-> [number |-> s.target.range[1] + i], protocol |-> s.protocol,
                     host_ip |-> s.ip] ++
                    (IF s.published = Absent THEN <<>> ELSE [published |-> [number |-> Host(i)]])
    IN  IF parse_port_range(s.target) = Absent THEN << [map |-> <<>>] >>
        ELSE [i \in 1 .. s.target.range[2] - s.target.range[1] + 1 |-> [map |-> Entry(i - 1)]]

\* A quoted number without its quotes.
Unquoted(node) ==
    IF Has(node, "text") /\ Has(node.text, "range") /\ node.text.range[1] = node.text.range[2]
    THEN [number |-> node.text.range[1]] ELSE node

\* The entries of the long form, with plain numbers, that an item stands for.
LongEntries(item) ==
    IF Has(item, "text") THEN LongPort(item.text)
    ELSE IF Has(item, "map")
    THEN << [map |-> [key \in DOMAIN item.map |->
                        IF key \in {"target", "published"} THEN Unquoted(item.map[key])
                        ELSE item.map[key]]] >>
    ELSE << [map |-> [target |-> item]] >>

\* One field of a service in its long spelling.
LongField(key, node) ==
    CASE key = "depends_on" /\ Has(node, "list") ->
            [map |-> Mapped(node.list, LAMBDA s : <<s, [text |-> "service_started"]>>)]
      [] key = "environment" /\ Has(node, "list") -> [map |-> node.list]
      [] key = "networks" /\ Has(node, "list") ->
            [map |-> Mapped(node.list, LAMBDA k : <<k, FALSE>>)]
      [] key = "build" /\ Has(node, "text") -> [map |-> [context |-> node.text]]
      [] key = "ports" ->
            FlattenSeq(Mapped(node, LongEntries))
      [] key = "volumes" ->
            Mapped(node, LAMBDA item :
                IF ~Has(item, "text") THEN item
                ELSE [map |-> [type |-> IF item.text.source # Absent
                                           /\ item.text.source.form # "name"
                                        THEN "bind" ELSE "volume",
                               source |-> item.text.source, target |-> item.text.target,
                               read_only |-> "ro" \in item.text.mode]])
      [] OTHER -> node

LongFields(raw) == [key \in DOMAIN raw |-> LongField(key, raw[key])]

\* restart and scale have their long spelling under deploy, where a policy that
\* says nothing leaves the word to restart.
LongDeploy(raw) ==
    LET restart == Node(raw, "restart")
        deploy  == Node(raw, "deploy")
        written == Node(deploy, "restart_policy")
        policy  == IF Has(restart, "flag")
                   THEN [condition |-> IF restart.flag THEN "always" ELSE "no"]
                   ELSE IF restart.count # Absent
                   THEN [condition |-> "on-failure", max_attempts |-> restart.count]
                   ELSE [condition |-> restart.text]
        given   == IF \/ restart = <<>>
                      \/ Get(written, "condition") # Absent
                      \/ Get(written, "max_attempts") # Absent
                   THEN <<>> ELSE [restart_policy |-> policy]
        scale   == IF "scale" \in DOMAIN raw THEN [replicas |-> raw.scale] ELSE <<>>
    IN  scale ++ given ++ deploy

Longhand(raw) ==
    LongFields([k \in DOMAIN raw \ {"restart", "scale", "deploy"} |-> raw[k]])
        ++ [deploy |-> LongDeploy(raw)]

Meaning(in) ==
    LET file == [in.file EXCEPT !.services =
                    [n \in DOMAIN in.file.services |->
                        Longhand(expand_yaml_merge_keys(in.file.services[n]))]]
    IN  UNION {compose_project_to_stack(p, file, in.os, effective_backend(in.backend, "native")) :
                p \in load_compose_file(file, in.profiles, in.os)}

\* A published part in its short spelling that is no port, or a range of
\* several ports for one: the port is dropped, or used for every target.
BadRange(s) ==
    /\ parse_port_range(s.target) # Absent
    /\ s.published # Absent
    /\ \/ parse_port_range(s.published) = Absent
       \/ s.published.range[2] - s.published.range[1] # s.target.range[2] - s.target.range[1]

\* Or a node of the long form that is no number, as one in quotes: a published
\* one is dropped, a target refused.  Or an item that is neither a text nor a
\* mapping, as a number without quotes, which is refused.
OddPort(item) ==
    IF Has(item, "text") THEN BadRange(item.text)
    ELSE Has(item, "map") => \E key \in {"target", "published"} \cap DOMAIN item.map :
                                ~Has(item.map[key], "number")

HasOddPort(raw) ==
    LET ports == Node(raw, "ports") IN \E i \in DOMAIN ports : OddPort(ports[i])

PublishedEntries(item) == {e \in ToSet(LongEntries(item)) : "published" \in DOMAIN e.map}

\* The item publishes this port of the container, not as UDP, on this port of
\* the host, or on a range of them.
Writes(item, host, target) ==
    LET Spans(part, n) == Has(part, "range") /\ part.range[1] <= n /\ n <= part.range[2]
        Is(node, n)    == Has(node, "number") /\ node.number = n
    IN  \/ /\ Has(item, "text") /\ item.text.published # Absent
           /\ Spans(item.text.published, host) /\ Spans(item.text.target, target)
           /\ item.text.protocol # "udp"
        \/ /\ ~Has(item, "text") /\ Has(item, "map")
           /\ Is(Node(item.map, "published"), host) /\ Is(Node(item.map, "target"), target)
           /\ Or(Get(item.map, "protocol"), "tcp") # "udp"

\* A variable named without a value that .env and the process both set.
TwiceSet(in, raw) ==
    LET node == Node(raw, "environment")
    IN  Has(node, "list") /\ \E i \in DOMAIN node.list :
            /\ node.list[i][2] = Absent
            /\ node.list[i][1] \in DOMAIN in.os
            /\ in.file.dotenv # Absent
            /\ node.list[i][1] \in DOMAIN Pairs(in.file.dotenv)

\* A name with an underscore, which is replaced in the long spelling only.
Underscored(raw) ==
    LET restart == Node(raw, "restart")
    IN  Has(restart, "text") /\ restart.count = Absent /\ restart.text \in DOMAIN Hyphened

KnownDifference(in) ==
    \E n \in DOMAIN in.file.services :
        LET raw == expand_yaml_merge_keys(in.file.services[n])
        IN  TwiceSet(in, raw) \/ HasOddPort(raw) \/ Underscored(raw)

\* What the last of some pairs says of a key.
LastOf(pairs, k) ==
    LET at == {i \in DOMAIN pairs : pairs[i][1] = k}
    IN  IF at = {} THEN Absent ELSE pairs[Max(at)][2]

\* The entries of a service's environment, as the file has them.
OwnEntries(raw) ==
    LET node == Node(raw, "environment")
    IN  IF Has(node, "list") THEN node.list ELSE IF Has(node, "map") THEN node.map ELSE <<>>

\* What offers a value for a variable of a service, the strongest last: its env
\* files, and over them its last own entry.  One without a value stands for the
\* variable of that name in .env and in the process: in a list the process goes
\* before .env, in a mapping .env before the process.
Offers(file, os, raw, k) ==
    LET names   == Node(raw, "env_file")
        files   == [i \in DOMAIN names |-> LastOf(file.env_files[names[i]], k)]
        dot     == IF file.dotenv = Absent THEN Absent ELSE LastOf(file.dotenv, k)
        entries == OwnEntries(raw)
    IN  files \o (IF \A i \in DOMAIN entries : entries[i][1] # k THEN <<>>
                  ELSE IF LastOf(entries, k) # Absent THEN << LastOf(entries, k) >>
                  ELSE IF Has(Node(raw, "environment"), "list") THEN << dot, Get(os, k) >>
                  ELSE << Get(os, k), dot >>)

NamesClash == \E s, t \in DOMAIN project.services : s # t /\
    \E r \in 2 .. project.services[s].replicas : Instance(s, r) = t

Loaded == input.kind = "compose" /\ stage \in {"converted", "valid", "refused"}

-----------------------------------------------------------------------------
(* Properties. *)

\* Types: a stack appears with the conversion, and a project before it.
TypeOK ==
    /\ input \in Inputs
    /\ stage \in {"given", "parsed", "unreadable", "converted", "valid", "refused"}
    /\ input.kind = "stack" \/ stage = "given" => project = Absent
    /\ stage \in {"given", "parsed", "unreadable"} => stack = Absent
    /\ stack # Absent => \A s \in DOMAIN stack :
            /\ DOMAIN stack[s] = DOMAIN DerivedDefault
            /\ stack[s].replicas \in Nat /\ stack[s].max_restarts \in 0 .. U32 - 1
            /\ stack[s].healthcheck.timeout \in Nat /\ stack[s].healthcheck.interval \in Nat

\* The short and the long spelling of ports, volumes, dependencies, networks,
\* environments, restart policies and scales (compose, 440-1090) load to the
\* same stack, or both are refused; but for the known differences.
SpellingsAgree ==
    (input.kind = "compose" /\ ~KnownDifference(input)) =>
        /\ stage \in {"converted", "valid", "refused"} => stack \in Meaning(input)
        /\ stage = "unreadable" => Meaning(input) = {}

\* The listeners of a service that starts (hyperv, 3329-3380): every published
\* port of its file has one, and none of them is a UDP port, for which README.md:62
\* promises an error; and every listener is one that an item of the file
\* writes.  Of an odd item, whose published part is dropped or used for several
\* targets, only the second is said: it opens no other port.
PublishedAsWritten ==
    Loaded /\ stage = "valid" /\ ~NamesClash =>
        \A s \in DOMAIN project.services :
            LET items     == Node(expand_yaml_merge_keys(input.file.services[s]), "ports")
                listeners == Listeners(stack[s])
                opened    == {<<l.host_port, l.container_port>> : l \in ToSet(listeners)}
            IN  listeners # Invalid =>
                    /\ \A i \in DOMAIN items : ~OddPort(items[i]) =>
                          \A e \in PublishedEntries(items[i]) :
                              /\ <<e.map.published.number, e.map.target.number>> \in opened
                              /\ Or(Get(e.map, "protocol"), "tcp") # "udp"
                    /\ \A o \in opened : \E i \in DOMAIN items : Writes(items[i], o[1], o[2])

\* What `down --volumes` removes (cli, 1018-1047) are the volumes of this
\* project that its services mount (cli, 993-1016): every declared one under the very name
\* it was mounted by, and no volume that is external or not declared here; unless
\* the mount goes by the name that another volume of the file has outside of it.
DownVolumesAreOwn ==
    Loaded /\ ~NamesClash =>
        \A s \in DOMAIN project.services : \A i \in DOMAIN project.services[s].volumes :
            LET mount   == project.services[s].volumes[i]
                mounted == stack[s].volumes[i].source
                Means(v) == mount.type = "volume" /\ mount.source.key = v
                own     == \E v \in DOMAIN input.file.volumes :
                              Means(v) /\ ~project.volumes[v].external
                another == \E v \in DOMAIN input.file.volumes :
                              ~Means(v) /\ project.volumes[v].name = mounted.key
            IN  mount.source # Absent /\ ~another =>
                    (own <=> mounted.form = "name"
                             /\ mounted.key \in removable_hyperv_volume_names(project))

\* Every replica of a service runs under a name of its own and with the
\* configuration of that service (cli, 722-740), unless another service of the file
\* has the name of the replica.
ReplicasAreDistinct ==
    Loaded /\ ~NamesClash =>
        LET Wanted == UNION {{s} \X (1 .. project.services[s].replicas) :
                                s \in DOMAIN project.services}
        IN  /\ Cardinality(DOMAIN stack) = Cardinality(Wanted)
            /\ \A p \in Wanted : stack[Instance(p[1], p[2])].image = project.services[p[1]].image
            /\ \A s \in DOMAIN stack : stack[s].replicas = 1

\* The environment of a service (cli, 868-896; compose, 1150-1185) is layered as
\* its file says: for every variable the last of its env files that names it,
\* over them its own last entry; an entry without a value takes, in a list, the
\* value of the process, else that of .env, and in a mapping that of .env, else
\* that of the process; one that finds none leaves the env files as they are.
EnvironmentIsLayered ==
    Loaded /\ ~NamesClash =>
        \A s \in DOMAIN project.services :
            LET raw        == expand_yaml_merge_keys(input.file.services[s])
                Offered(k) == Offers(input.file, input.os, raw, k)
                Named(k)   == {i \in DOMAIN Offered(k) : Offered(k)[i] # Absent}
                lines      == ToSet(OwnEntries(raw)) \cup
                              UNION {ToSet(f) : f \in Range(input.file.env_files)}
            IN  \A k \in DOMAIN stack[s].env \cup {l[1] : l \in lines} :
                    Get(stack[s].env, k) =
                        IF Named(k) = {} THEN Absent ELSE Offered(k)[Max(Named(k))]

\* A service of stack.json that leaves a field out gets the default its type
\* declares for it (types, 298-329 and 337-362).
DefaultsAreKept ==
    input.kind = "stack" /\ stack # Absent =>
        \A s \in DOMAIN stack : \A key \in DOMAIN SerdeDefault :
            Get(input.file.services[s], key) = Absent /\ Get(input.file.defaults, key) = Absent
                => stack[s][key] = SerdeDefault[key]
=============================================================================
