----------------------------- MODULE MCProvision -----------------------------
(* Commands given in two terminals on hosts in various states. *)
EXTENDS Provision

CONSTANTS p, q

Cmd(name) == [name |-> name, arg |-> NULL]
Of(name, args) == {[name |-> name, arg |-> a] : a \in args}
Given(first, second) == [t \in Procs |-> IF t = p THEN first ELSE second]
Host(image, disk) == [[f \in Artifacts |-> "none"] EXCEPT !["image"] = image, !["disk"] = disk]

\* The two terminals change the registry at once.
RegistryCases ==
    LET cmds == Of("register", Names) \cup Of("unregister", Names)
    IN  {[given |-> Given(cmds, cmds), files |-> Host("none", "none"), vm |-> "absent",
          format |-> "vhdx"]}

\* Machines are created, also on what other attempts have left.
CreationCases ==
    {[given |-> Given({Cmd("init"), Cmd("create_vm"), Cmd("create_cloud_vm"), Cmd("ensure_key"),
                       Cmd("download_image"), Cmd("download_anew")}, {}),
      files |-> Host(image, "none"),
      vm |-> "absent", format |-> f] :
        image \in {"none", "bad", "good"}, f \in {"vhdx", "qcow2", "tar"}}

\* One terminal keeps a machine that exists.
MachineCases ==
    {[given |-> Given({Cmd("start"), Cmd("stop"), Cmd("discover_ip"), Cmd("repair"), Cmd("bootstrap")}
                        \cup Of("configure", Addresses) \cup Of("mirror_set", Mirrors)
                        \cup Of("mirror_remove", Mirrors), {}),
      files |-> Host("none", "good"), vm |-> "off", format |-> "vhdx"]}

AllCases == RegistryCases \cup CreationCases \cup MachineCases

ASSUME CasesAssumption == OneTerminal /\ SoundHosts

\* A new host, on which nothing but `init` is run.
FreshCases ==
    {[given |-> Given({Cmd("init")}, {}), files |-> Host("none", "none"), vm |-> "absent",
      format |-> "qcow2"]}
=============================================================================
