--------------------------- MODULE MCPodAdmission ---------------------------
(***************************************************************************)
(* PodAdmission on one pod and two presets.  The presets cover a plain     *)
(* injection, one whose entries conflict with it and which only labelled   *)
(* pods ask for, a preset with a lone envFrom source, one with a malformed *)
(* selector, one with nothing in it, and one that mounts a volume twice;   *)
(* the pods cover two containers of which one conflicts, the two           *)
(* exemptions, another namespace, another DNS policy and an author who     *)
(* already mounts a volume twice.                                          *)
(***************************************************************************)
EXTENDS PodAdmission

Var(name, val) == [name |-> name, val |-> val]
Mount(name, path) == [name |-> name, path |-> path]

MCEnvVars == { Var("E", "1"), Var("E", "2"), Var("F", "1") }
MCVolumes == { Var("v", "1"), Var("v", "2"), Var("w", "1") }
MCVolumeMounts == { Mount(n, p) : n \in {"v", "w"}, p \in {"/a", "/b"} }
MCEnvSources == { "config" }
MCDnsOptions == { "reopen" }
MCLabels == { "blue" }

Empty == [selector |-> Everything, env |-> <<>>, envFrom |-> <<>>,
          volumes |-> <<>>, volumeMounts |-> <<>>]

Plain == [Empty EXCEPT !.env = << Var("E", "1"), Var("F", "1") >>,
                       !.volumes = << Var("v", "1") >>,
                       !.volumeMounts = << Mount("v", "/a") >>]

Rival == [Empty EXCEPT !.selector = "blue",
                       !.env = << Var("E", "2") >>,
                       !.volumes = << Var("w", "1") >>,
                       !.volumeMounts = << Mount("w", "/a") >>]

Sourced == [Empty EXCEPT !.envFrom = << "config" >>]

Broken == [Empty EXCEPT !.selector = Malformed]

Twice == [Plain EXCEPT !.env = <<>>,
                       !.volumeMounts = << Mount("v", "/a"), Mount("v", "/b") >>]

MCSpecs == { Empty, Plain, Rival, Sourced, Broken, Twice }

Ctr(env, mounts) == [env |-> env, envFrom |-> <<>>, volumeMounts |-> mounts]

Bare == [namespace |-> "ns", labels |-> {}, mirror |-> FALSE,
         exclude |-> FALSE, presets |-> [n \in PresetNames |-> 0], dnsPolicy |-> "ClusterFirst",
         dnsOptions |-> <<>>, volumes |-> <<>>,
         containers |-> << Ctr(<<>>, <<>>) >>]

TwoContainers ==
  [Bare EXCEPT !.labels = {"blue"},
               !.volumes = << Var("v", "1") >>,
               !.containers = << Ctr(<< Var("F", "1") >>, << Mount("v", "/a") >>),
                                 Ctr(<< Var("E", "1") >>, <<>>) >>]

MountsTwice ==
  [Bare EXCEPT !.dnsPolicy = "Default",
               !.volumes = << Var("v", "1") >>,
               !.containers =
                  << Ctr(<<>>, << Mount("v", "/b"), Mount("v", "/a") >>) >>]

MCTemplates == { Bare, TwoContainers, MountsTwice,
                 [Bare EXCEPT !.mirror = TRUE],
                 [Bare EXCEPT !.namespace = "elsewhere"] }
=============================================================================
