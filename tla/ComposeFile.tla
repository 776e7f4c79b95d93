---------------------------- MODULE ComposeFile ----------------------------
(***************************************************************************)
(* What stackdeck-compose makes of a Compose file: interpolation, YAML     *)
(* merge keys, and the normalisation of a project and its services.        *)
(*                                                                         *)
(* A YAML mapping whose keys the code asks for by name is a record holding *)
(* the keys that are there; a mapping of user-chosen keys is a sequence of *)
(* pairs; a node that may have several shapes is a record with one field   *)
(* naming its shape ("list", "map", "text", "flag", "number"), and one     *)
(* that is not there has no shape.  Names of services are sequences of     *)
(* their parts between dashes, names of networks and volumes outside the   *)
(* file of their parts between underscores.  Any other text is a value     *)
(* that is only compared.  What may fail returns a set: Err is the empty   *)
(* one, or Invalid where an error is a value among others.                 *)
(***************************************************************************)
EXTENDS Integers, FiniteSets, SequencesExt

CONSTANTS
    Absent,    \* None
    Invalid,   \* Err(ComposeError)
    MaxU16,    \* the largest u16
    U32        \* the number of values of a u32

\* Words of a file the code compares a text with: none of them is None.
Words == {"no", "always", "on-failure", "on_failure", "unless-stopped", "unless_stopped", "bind"}

ASSUME ComposeFileAssumption ==
    /\ MaxU16 \in Nat
    /\ U32 \in Nat /\ U32 > 5
    /\ Absent \notin Words /\ Absent \notin BOOLEAN /\ Absent \notin Int

Get(m, key) == IF key \in DOMAIN m THEN m[key] ELSE Absent
Node(m, key) == IF key \in DOMAIN m THEN m[key] ELSE <<>>
Has(node, shape) == shape \in DOMAIN node
Or(value, default) == IF value = Absent THEN default ELSE value

\* collect::<Result<_, _>>(): one Err makes the whole an Err.
Collected(s) == IF Invalid \in ToSet(s) THEN Invalid ELSE s
Mapped(s, F(_)) == [i \in DOMAIN s |-> F(s[i])]

\* A map over another one, and each of a sequence of maps over those before it.
f ++ g == [k \in DOMAIN f \cup DOMAIN g |-> IF k \in DOMAIN f THEN f[k] ELSE g[k]]
One(key, value) == [k \in {key} |-> value]
Layered(maps) == FoldLeft(LAMBDA below, m : m ++ below, <<>>, maps)
Pairs(s) == Layered(Mapped(s, LAMBDA p : One(p[1], p[2])))

-----------------------------------------------------------------------------
(* Variables. *)

\* The lines of an env file that name a key; the last line of a key counts.
parse_env_file(file) == IF file = Absent THEN Invalid ELSE Pairs(file)

\* The .env file, under the environment of the process, under explicit values.
build_interpolation_env(dotenv, os, overrides) ==
    LET file == parse_env_file(dotenv)
    IN  overrides ++ os ++ (IF file = Invalid THEN <<>> ELSE file)

\* One reference ${var op word}; a piece without a variable is literal text.
InterpolatePiece(piece, env) ==
    IF ~Has(piece, "var") THEN piece.text
    ELSE LET isSet   == piece.var \in DOMAIN env
             value   == IF isSet THEN env[piece.var] ELSE ""
             present == IF piece.op \in {":-", ":+", ":?"} THEN value # "" ELSE isSet
         IN  CASE piece.op = ""           -> value
               [] piece.op \in {":-", "-"} -> IF present THEN value ELSE piece.word
               [] piece.op \in {":+", "+"} -> IF present THEN piece.word ELSE ""
               [] OTHER                    -> IF present THEN value ELSE Invalid

\* The file is text when it is interpolated: a comment counts like the rest.
interpolate_compose_text(pieces, env) ==
    Collected(Mapped(pieces, LAMBDA p : InterpolatePiece(p, env)))

-----------------------------------------------------------------------------
(* YAML merge keys: what a mapping says itself wins, then the earlier source. *)
expand_yaml_merge_keys(m) ==
    LET own == [k \in DOMAIN m \ {"<<"} |-> m[k]]
    IN  IF "<<" \notin DOMAIN m THEN m
        ELSE FoldLeft(LAMBDA acc, source : acc ++ source, own, m["<<"])

-----------------------------------------------------------------------------
(* The fields of a service. *)

DependsOn(service, condition, required) ==
    [service |-> service, condition |-> condition, required |-> required]

normalize_depends_on(raw) ==
    CASE raw = <<>>       -> <<>>
      [] Has(raw, "list") -> Mapped(raw.list, LAMBDA s : DependsOn(s, "service_started", TRUE))
      [] Has(raw, "map")  ->
            Mapped(raw.map, LAMBDA e :
                CASE Has(e[2], "text") -> DependsOn(e[1], e[2].text, TRUE)
                  [] Has(e[2], "map")  -> DependsOn(e[1],
                                             Or(Get(e[2].map, "condition"), "service_started"),
                                             Or(Get(e[2].map, "required"), TRUE))
                  [] OTHER             -> DependsOn(e[1], "service_started", TRUE))
      [] OTHER            -> Invalid

Port(ip, published, target, protocol) ==
    [host_ip |-> ip, published |-> published, target |-> target, protocol |-> protocol]

checked_u16(n) == n \in 0 .. MaxU16

\* A range is a pair of numbers, or a text that is none.
parse_port_range(range) ==
    IF Has(range, "range") /\ range.range[1] <= range.range[2]
       /\ {range.range[1], range.range[2]} \subseteq 0 .. MaxU16
    THEN range.range ELSE Absent

\* A host part that is no range is dropped.
PublishedRange(s) == IF s.published = Absent THEN Absent ELSE parse_port_range(s.published)

\* Ranges of several hosts and several targets have to be of the same length.
PortStringRefused(s) ==
    LET target    == parse_port_range(s.target)
        published == PublishedRange(s)
    IN  \/ target = Absent
        \/ /\ published # Absent
           /\ target[2] - target[1] # published[2] - published[1]
           /\ target[1] # target[2] /\ published[1] # published[2]

\* Mutant: a range of hosts is used from its second port on.
parse_port_string_skips_first(s) ==
    LET target    == parse_port_range(s.target)
        published == PublishedRange(s)
    IN  [i \in 1 .. target[2] - target[1] + 1 |->
            Port(s.ip, IF published = Absent THEN Absent ELSE Min({published[1] + i, published[2]}),
                 target[1] + i - 1, s.protocol)]

\* "[ip:][published:]target[/protocol]", a port for every target.
parse_port_string(s) ==
    LET target    == parse_port_range(s.target)
        published == PublishedRange(s)
    IN  [i \in 1 .. target[2] - target[1] + 1 |->
            Port(s.ip, IF published = Absent THEN Absent ELSE Min({published[1] + i - 1, published[2]}),
                 target[1] + i - 1, s.protocol)]

\* Value::as_i64: a number; a quoted one is a text, and none.
as_i64(node) == IF Has(node, "number") THEN node.number ELSE Absent

\* The long form has to have a target; a number out of the range of a port is
\* refused, and a published node that is no number is no published port.
PortMappingRefused(m) ==
    LET target    == as_i64(Node(m, "target"))
        published == as_i64(Node(m, "published"))
    IN  \/ target = Absent \/ ~checked_u16(target)
        \/ published # Absent /\ ~checked_u16(published)

PortMapping(m) ==
    << Port(Get(m, "host_ip"), as_i64(Node(m, "published")), as_i64(Node(m, "target")),
            Or(Get(m, "protocol"), "tcp")) >>

\* An item that is neither a mapping nor a text is read as the empty text.
PortRefused(item) ==
    IF Has(item, "text") THEN PortStringRefused(item.text)
    ELSE Has(item, "map") => PortMappingRefused(item.map)

normalize_ports(raw) ==
    IF \E i \in DOMAIN raw : PortRefused(raw[i]) THEN Invalid
    ELSE FlattenSeq(Mapped(raw, LAMBDA item : IF Has(item, "text") THEN parse_port_string(item.text)
                                              ELSE PortMapping(item.map)))

\* How a source is written: a name, or one of the spellings of a path.
PathForms == {"dot", "slash", "tilde", "backslash", "leading backslash", "drive"}
looks_like_path(source) == source.form \in PathForms

Mount(type, source, target, readOnly) ==
    [type |-> type, source |-> source, target |-> target, read_only |-> readOnly]

parse_volume_string(v) ==
    Mount(IF v.source # Absent /\ looks_like_path(v.source) THEN "bind" ELSE "volume",
          v.source, v.target, "ro" \in v.mode)

normalize_volume_mounts(raw) ==
    Mapped(raw, LAMBDA item :
        IF Has(item, "text") THEN parse_volume_string(item.text)
        ELSE Mount(Or(Get(item.map, "type"), "volume"), Get(item.map, "source"), item.map.target,
                   Or(Or(Get(item.map, "read_only"), Get(item.map, "readonly")), FALSE)))

\* known: the networks of the project; an unknown key is a name itself.
normalize_network_attachments(raw, known) ==
    LET NameOf(key) == IF key \in DOMAIN known THEN known[key].name ELSE <<key>>
    IN  CASE raw = <<>>       -> << [name |-> known["default"].name, settings |-> FALSE] >>
          [] Has(raw, "list") -> Mapped(raw.list, LAMBDA k : [name |-> NameOf(k), settings |-> FALSE])
          [] Has(raw, "map")  -> Mapped(raw.map, LAMBDA e :
                                    [name |-> NameOf(e[1]), settings |-> e[2]])
          [] OTHER            -> Invalid

\* A duration is a sequence of numbers with their units; a number is seconds.
normalize_duration(raw) ==
    CASE Has(raw, "number") -> << <<raw.number, "s">> >>
      [] Has(raw, "text")   -> raw.text
      [] OTHER              -> Absent

normalize_healthcheck(raw) ==
    CASE raw = <<>>      -> Absent
      [] Has(raw, "map") -> [test     |-> Get(raw.map, "test"),
                             interval |-> normalize_duration(Node(raw.map, "interval")),
                             timeout  |-> normalize_duration(Node(raw.map, "timeout")),
                             retries  |-> Get(raw.map, "retries"),
                             disable  |-> Or(Get(raw.map, "disable"), FALSE)]
      [] OTHER           -> Invalid

Restart(name, count) == [name |-> name, maximum_retry_count |-> count]

\* The names of a restart policy that may be written with an underscore.
Hyphened == [on_failure |-> "on-failure", unless_stopped |-> "unless-stopped"]
hyphened(name) == IF name \in DOMAIN Hyphened THEN Hyphened[name] ELSE name

\* deploy.restart_policy goes before restart, if it says anything; in a text
\* "on-failure:3" what stands before the number does not count.
normalize_restart(restart, deploy) ==
    LET policy    == Node(deploy, "restart_policy")
        condition == hyphened(Get(policy, "condition"))
        attempts  == Get(policy, "max_attempts")
    IN  IF condition # Absent THEN Restart(condition, attempts)
        ELSE IF attempts # Absent THEN Restart("no", attempts)
        ELSE IF restart = <<>> THEN Restart("no", Absent)
        ELSE IF Has(restart, "flag")
        THEN Restart(IF restart.flag THEN "always" ELSE "no", Absent)
        ELSE IF restart.count # Absent THEN Restart("on-failure", restart.count)
        ELSE Restart(restart.text, Absent)

\* max(0, n) as u32: scale goes before deploy.replicas.
normalize_replicas(raw) ==
    Max({0, Or(Get(raw, "scale"), Or(Get(Node(raw, "deploy"), "replicas"), 1))}) % U32

\* A list names a variable of the process, a mapping leaves it to the caller.
normalize_environment(raw, os) ==
    CASE raw = <<>>       -> <<>>
      [] Has(raw, "list") -> Pairs(Mapped(raw.list, LAMBDA e :
                                <<e[1], IF e[2] = Absent THEN Get(os, e[1]) ELSE e[2]>>))
      [] Has(raw, "map")  -> Pairs(raw.map)
      [] OTHER            -> <<>>

normalize_build(raw) ==
    CASE raw = <<>>       -> Absent
      [] Has(raw, "text") -> [context |-> raw.text, extra |-> FALSE]
      [] Has(raw, "map")  -> [context |-> Get(raw.map, "context"),
                              extra   |-> Or(Get(raw.map, "extra"), FALSE)]
      [] OTHER            -> Invalid

\* Secrets and configs: the long form has to name a source.
normalize_service_resources(raw) ==
    Collected(Mapped(raw, LAMBDA item :
        CASE Has(item, "text")                                     -> item.text
          [] Has(item, "map") /\ Get(item.map, "source") # Absent -> item.map.source
          [] OTHER                                                 -> Invalid))

KnownKeys ==
    {"image", "build", "command", "entrypoint", "environment", "env_file", "profiles",
     "depends_on", "ports", "volumes", "networks", "secrets", "configs", "healthcheck",
     "restart", "deploy", "scale", "container_name", "labels", "logging"}

normalize_service(name, raw, known, os) ==
    [name           |-> name,
     image          |-> Get(raw, "image"),
     command        |-> Get(raw, "command"),
     entrypoint     |-> Get(raw, "entrypoint"),
     environment    |-> normalize_environment(Node(raw, "environment"), os),
     env_file       |-> Node(raw, "env_file"),
     container_name |-> Get(raw, "container_name"),
     build          |-> normalize_build(Node(raw, "build")),
     depends_on     |-> normalize_depends_on(Node(raw, "depends_on")),
     ports          |-> normalize_ports(Node(raw, "ports")),
     volumes        |-> normalize_volume_mounts(Node(raw, "volumes")),
     networks       |-> normalize_network_attachments(Node(raw, "networks"), known),
     secrets        |-> normalize_service_resources(Node(raw, "secrets")),
     configs        |-> normalize_service_resources(Node(raw, "configs")),
     healthcheck    |-> normalize_healthcheck(Node(raw, "healthcheck")),
     restart        |-> normalize_restart(Node(raw, "restart"), Node(raw, "deploy")),
     replicas       |-> normalize_replicas(raw),
     extra          |-> DOMAIN raw \ KnownKeys]

\* Every `?` of normalize_service; mounts are always read.
ServiceRefused(svc) ==
    Invalid \in {svc.build, svc.depends_on, svc.ports, svc.networks, svc.secrets, svc.configs,
                 svc.healthcheck}

-----------------------------------------------------------------------------
(* The project. *)

\* The name of a network, volume, secret or config outside the file.
resource_name(project, key, raw) ==
    LET external == Node(raw, "external")
    IN  IF Has(external, "map") /\ Get(external.map, "name") # Absent
        THEN external.map.name
        ELSE IF Get(raw, "name") # Absent THEN raw.name
        ELSE IF Has(external, "flag") /\ external.flag THEN <<key>>
        ELSE <<project, key>>

normalize_resources(raw, project) ==
    [key \in DOMAIN raw |->
        LET external == Node(raw[key], "external")
        IN  [name     |-> resource_name(project, key, raw[key]),
             external |-> Has(external, "map") \/ (Has(external, "flag") /\ external.flag),
             driver   |-> Get(raw[key], "driver"),
             options  |-> Or(Get(raw[key], "driver_opts"), FALSE)]]

\* A service is in the project if it has no profiles or one that is active.
InProfile(raw, profiles) ==
    LET own == Or(Get(raw, "profiles"), {}) IN own = {} \/ own \cap profiles # {}

normalize_compose_project(file, profiles, os) ==
    LET declared == normalize_resources(file.networks, file.name)
        networks == declared ++
            One("default", [name |-> <<file.name, "default">>, external |-> FALSE,
                           driver |-> Absent, options |-> FALSE])
        raw      == [n \in DOMAIN file.services |-> expand_yaml_merge_keys(file.services[n])]
        chosen   == {n \in DOMAIN raw : InProfile(raw[n], profiles)}
        services == [n \in chosen |-> normalize_service(n, raw[n], networks, os)]
    IN  IF \E n \in chosen : ServiceRefused(services[n]) THEN {}
        ELSE {[name |-> file.name, services |-> services, networks |-> networks,
               volumes |-> normalize_resources(file.volumes, file.name)]}

load_compose_file(file, profiles, os) ==
    LET text == interpolate_compose_text(file.references,
                                         build_interpolation_env(file.dotenv, os, <<>>))
    IN  IF text = Invalid THEN {} ELSE normalize_compose_project(file, profiles, os)
=============================================================================
