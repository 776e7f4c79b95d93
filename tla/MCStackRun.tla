----------------------------- MODULE MCStackRun -----------------------------
(* Stacks of up to three services and the commands on them. *)
EXTENDS StackRun

CONSTANTS a, b, c

Dep(s, cond, req) == [service |-> s, condition |-> cond, required |-> req]
Settings(backend, deps, probed, restart, max, backoff) ==
    [backend |-> backend, probed |-> probed, depends_on |-> <<>>, depends_on_conditions |-> deps,
     restart |-> restart, max_restarts |-> max, restart_backoff_seconds |-> backoff]
Run(name, targets, supervise, v) ==
    [name |-> name, targets |-> targets, force |-> FALSE, supervise |-> supervise,
     volumes |-> v]
All(state) == [s \in Services |-> state]
Case(st, cmd, state) == [stack |-> st, command |-> cmd, status |-> All(state)]

\* Every way three services can depend on one another, c perhaps absent.
Graphs == [{a, b, c} -> SUBSET {a, b, c}]
PlainStack(g, S) ==
    [s \in S |-> [Settings("hyperv", <<>>, FALSE, "no", 0, 0)
                    EXCEPT !.depends_on = SetToSeq(g[s])]]
GraphCases ==
    {Case(PlainStack(g, S), Run("up", t, FALSE, FALSE), "missing") :
        g \in Graphs, S \in {{a, b, c}, {a, b}}, t \in {<<a>>}}

\* a waits for b in every way; b may be optional, absent, or done at once.
Waits ==
    {a :> Settings("hyperv", << Dep(b, cond, req), Dep(c, "service_started", FALSE) >>, TRUE, "no", 0, 0)
     @@ b :> Settings(backend, <<>>, probed, "no", 0, 0) :
        cond \in Conditions, req \in BOOLEAN, backend \in {"hyperv", "native"}, probed \in BOOLEAN}
WaitCases ==
    {Case(st, Run("up", t, FALSE, FALSE), state) :
        st \in Waits, t \in {<<a>>, <<c, a>>}, state \in {"missing", "exited0"}}

\* Policies and backoffs of two services under supervision.
Kept ==
    {a :> Settings("hyperv", << Dep(b, "service_healthy", FALSE) >>, TRUE, "always", 3, backoff)
     @@ b :> Settings("native", <<>>, FALSE, restart, 1, 0) :
        restart \in {"no", "on-failure"}, backoff \in {0, 100, 200}}
SupervisionCases ==
    {Case(st, cmd, "running") : st \in Kept,
        cmd \in {Run("up", <<a>>, TRUE, FALSE), Run("watch", <<>>, FALSE, FALSE)}}

DownCases ==
    {Case(st, cmd, state) : st \in Kept, state \in {"running", "exited1"},
        cmd \in {Run("down", t, FALSE, v) : t \in {<<a, b>>, <<c, b>>}, v \in BOOLEAN}
                \cup {Run("restart", <<b, a>>, FALSE, FALSE)}}

AllCases == GraphCases \cup WaitCases \cup SupervisionCases \cup DownCases
=============================================================================
