----------------------------- MODULE MCStackFile -----------------------------
(* Files that differ from a plain one in one field, in every spelling. *)
EXTENDS StackFile

Web == <<"web">>
Db  == <<"db">>
Plain == [image |-> "app", command |-> "serve"]

Project(services, volumes, networks) ==
    [name |-> "demo", references |-> <<>>, dotenv |-> Absent, env_files |-> <<>>,
     networks |-> networks, volumes |-> volumes, services |-> services]

Compose(file, os, backend) ==
    [kind |-> "compose", file |-> file, os |-> os, profiles |-> {"debug"}, backend |-> backend]

\* web with the fields of raw, beside a plain db.
WebWith(raw) == Project(Web :> (raw @@ Plain) @@ Db :> Plain, <<>>, <<>>)
OnBackends(files) == {Compose(f, <<>>, b) : f \in files, b \in {"", "hyperv"}}

Num(n) == [range |-> <<n, n>>]
Text(p, t, proto, ip) == [text |-> [published |-> p, target |-> t, protocol |-> proto, ip |-> ip]]
Published == {Absent, Num(80), [range |-> <<80, 81>>], Num(70000), [text |-> "http"]}
Targets   == {Num(80), [range |-> <<80, 81>>], [range |-> <<80, 82>>], [range |-> <<82, 80>>],
              Num(70000), [text |-> "http"]}
\* Numbers and quoted ones, in and out of the range of a port.
Scalars   == {[number |-> 80], [number |-> 70000]}
             \cup {[text |-> p] : p \in {Num(80), Num(70000), [text |-> "http"]}}
PortLists ==
    {<< Text(p, t, "tcp", Absent) >> : p \in Published, t \in Targets}
    \cup {<< Text(Num(80), Num(53), proto, ip),
             [map |-> [target |-> [number |-> 443], published |-> [number |-> 8443]]] >> :
            proto \in {"tcp", "udp"}, ip \in {"0.0.0.0", "v6"}}
    \cup {<< [map |-> [target |-> t] @@ p] >> :
            t \in Scalars,
            p \in {<<>>} \cup {[published |-> n] : n \in Scalars}
                  \cup {[published |-> [number |-> 80], protocol |-> "udp"]}}
    \cup {<< [number |-> 80] >>}

Dependencies ==
    {[list |-> <<Db>>], [map |-> << <<Db, [text |-> "service_healthy"]>> >>],
     [map |-> << <<Db, [map |-> [condition |-> "service_healthy", required |-> FALSE]]>> >>],
     [map |-> << <<Db, [map |-> <<>>]>> >>], [flag |-> TRUE]}

Restarts == {[flag |-> TRUE], [flag |-> FALSE]} \cup
    {[text |-> "on-failure", count |-> c] : c \in {Absent, 3}}
    \cup {[text |-> t, count |-> Absent] : t \in {"unless-stopped", "unless_stopped"}}
    \cup {[text |-> "always", count |-> 3]}
Deploys == {[replicas |-> 2], [restart_policy |-> [condition |-> "on_failure", max_attempts |-> 2]],
            [restart_policy |-> [max_attempts |-> 2]], [restart_policy |-> <<>>], <<>>}

Fields ==
    {[ports |-> p] : p \in PortLists}
    \cup {[depends_on |-> d] : d \in Dependencies}
    \cup {[restart |-> r] : r \in Restarts}
    \cup {[deploy |-> d] : d \in Deploys}
    \cup {[restart |-> r, deploy |-> d] : r \in Restarts, d \in Deploys}
    \cup {[scale |-> n] : n \in {-1, 0, 1, 3, U32, U32 + 1}}
    \cup {[scale |-> 2, ports |-> << Text(p, Num(80), "tcp", Absent) >>] : p \in {Absent, Num(80)}}
    \cup {[build |-> b] : b \in {[text |-> "."], [map |-> [context |-> "."]],
                               [map |-> [context |-> ".", extra |-> TRUE]], [flag |-> TRUE]}}
    \cup {[profiles |-> p] : p \in {{}, {"debug"}, {"test"}}}
    \cup {[healthcheck |-> [map |-> h]] : h \in
            {[test |-> "probe", interval |-> [number |-> 3]],
             [test |-> "probe", interval |-> [text |-> << <<1, "m">>, <<30, "s">> >>], retries |-> 2],
             [test |-> "probe", timeout |-> [text |-> << <<1500, "ms">> >>]],
             [test |-> "probe", timeout |-> [text |-> << <<1, "d">> >>]],
             [test |-> "probe", disable |-> TRUE]}}
    \cup {[secrets |-> << s >>] : s \in {[text |-> "key"], [map |-> [source |-> "key"]],
                                       [map |-> [target |-> "key"]]}}
    \cup {[configs |-> << [text |-> "conf"] >>], [container_name |-> "fixed"],
          [privileged |-> TRUE], [healthcheck |-> [flag |-> FALSE]],
          [networks |-> [list |-> <<"default", "back">>]],
          [networks |-> [map |-> << <<"back", TRUE>> >>]], [networks |-> [flag |-> TRUE]]}
    \cup {("<<" :> <<[image |-> "other", command |-> "idle"], [restart |-> [flag |-> TRUE]]>>)}

\* web scaled to two replicas beside a service of the name of the second.
Clash == Project(Web :> ([scale |-> 2] @@ Plain) @@
                 <<"web", "2">> :> [image |-> "other", command |-> "serve"], <<>>, <<>>)

NoCommand == Project(Web :> [image |-> "app"], <<>>, <<>>)

\* Volumes: declared in every way, mounted by every spelling.
Source(form, key) == [form |-> form, key |-> key]
Declared == {<<>>, [driver |-> "local"], [driver |-> "nfs"], [name |-> <<"fixed">>],
             [name |-> <<"data">>], [name |-> <<"other">>],
             [external |-> [flag |-> TRUE]], [external |-> [flag |-> FALSE]],
             [external |-> [map |-> [name |-> <<"shared">>]]],
             [external |-> [flag |-> TRUE], name |-> <<"shared">>]}
Mounts ==
    {[text |-> [source |-> s, target |-> "/data", mode |-> m]] :
        s \in {Absent, Source("name", "data"), Source("name", "other"), Source("dot", "./data"),
              Source("drive", "C:/data")}, m \in {{}, {"ro"}}}
    \cup {[map |-> [source |-> Source("name", "data"), target |-> "/data"] @@ x] : x \in
            {<<>>, [type |-> "volume", read_only |-> TRUE], [type |-> "bind"]}}
VolumeFiles ==
    {Project(Web :> ([volumes |-> << m >>] @@ Plain) @@ Db :> Plain, "data" :> d, <<>>) :
        m \in Mounts, d \in Declared}

NetworkFiles ==
    {Project(Web :> ([networks |-> [list |-> <<"back">>]] @@ Plain), <<>>, "back" :> n) :
        n \in {<<>>, [driver |-> "bridge"], [driver |-> "overlay"], [name |-> <<"lan">>],
              [driver_opts |-> TRUE], [external |-> [flag |-> TRUE]]}}

\* A variable in two env files, the service, .env and the process.
Entries == {<<>>, << <<"A", "own">> >>, << <<"A", Absent>> >>}
EnvFiles == "one" :> << <<"A", "1">>, <<"B", "1">>, <<"A", "1b">> >> @@ "two" :> << <<"A", "2">> >>
EnvInputs ==
    {Compose([Project(Web :> ([environment |-> e, env_file |-> f] @@ Plain), <<>>, <<>>)
                EXCEPT !.env_files = EnvFiles, !.dotenv = d, !.references = r], o, "hyperv") :
        e \in {[list |-> x] : x \in Entries \cup {<< <<"A", "own">>, <<"A", Absent>> >>}}
              \cup {[map |-> x] : x \in Entries},
        f \in {<<>>, <<"one", "two">>, <<"two", "one">>, <<"one", "none">>},
        d \in {Absent, << <<"A", "dot">> >>},
        o \in {<<>>, "A" :> "os", "A" :> ""},
        r \in {<<>>, << [text |-> "x"], [var |-> "A", op |-> ":?", word |-> "set A"] >>}}

\* What `init` writes, and services that say more.
Template == [command |-> "serve", env |-> "APP_ENV" :> "local", restart |-> "on-failure",
             healthcheck |-> [type |-> "tcp", timeout_seconds |-> 10]]
StackInputs ==
    {[kind |-> "stack", os |-> <<>>, profiles |-> {}, backend |-> b,
      file |-> [defaults |-> d, services |-> Web :> (x @@ Template) @@ Db :> Template]] :
        b \in {"", "hyperv"}, d \in {<<>>, [restart |-> "always"]},
        x \in {<<>>, [depends_on |-> [list |-> <<Db>>]],
              [depends_on |-> [map |-> << <<Db, [required |-> FALSE]>> >>]]}}

AllInputs ==
    OnBackends({WebWith(f) : f \in Fields} \cup {Clash, NoCommand} \cup VolumeFiles \cup NetworkFiles)
    \cup EnvInputs \cup StackInputs
=============================================================================
