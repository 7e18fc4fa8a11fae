--------------------------- MODULE MCArtifactStore ---------------------------
(* Instances of ArtifactStore for TLC. *)
EXTENDS ArtifactStore, TLC

CONSTANTS p1, p2, p3, alias

(* Names are locations, but for one more name of the configuration. *)
Names == [path \in Path |-> IF path = alias THEN "config.yaml" ELSE path]

ConfigFile(api) == [kind |-> "config", api |-> api, goal |-> 2, by |-> User]
RemoteFile(state) == [kind |-> "remote", api |-> "unified catalog", state |-> state, by |-> User]
PlanFile(api, state) ==
  [kind |-> "plan", api |-> api, state |-> state, goal |-> 2, ready |-> TRUE, by |-> User]

Folder(config, plan, remote) ==
  [l \in Location |-> CASE l = "config.yaml" -> config [] l = "plan.json" -> plan
                        [] l = "remote.json" -> remote [] OTHER -> NoFile]

Create(force) ==
  [command |-> "plan", input |-> "config.yaml", remote |-> "remote.json",
   output |-> "plan.json", force |-> force, authorize |-> FALSE, credential |-> TRUE]
Apply(force) ==
  [command |-> "apply", input |-> "plan.json", remote |-> "remote.json",
   output |-> "result.json", force |-> force, authorize |-> TRUE, credential |-> TRUE]
SnapshotOver ==
  [command |-> "capture", input |-> "config.yaml", remote |-> None,
   output |-> "remote.json", force |-> TRUE, authorize |-> FALSE, credential |-> FALSE]

(* Two people plan into the same files, a third applies what is there. *)
TogetherOnOneFolder ==
  {[jobs |-> (p1 :> Create(force)) @@ (p2 :> other) @@ (p3 :> Apply(FALSE)),
    files |-> folder, account |-> 1] :
     force \in BOOLEAN, other \in {Create(FALSE), Create(TRUE), SnapshotOver},
     folder \in {Folder(ConfigFile("unified catalog"), NoFile, NoFile),
                Folder(ConfigFile("unified catalog"), PlanFile("unified catalog", 1), RemoteFile(3))}}

(* One command with any options and paths in a folder with any files. *)
AnyCommand ==
  {[jobs |-> (p1 :> j), files |-> f, account |-> 1] :
     j \in {i \in [command : Command, input : {"config.yaml", "plan.json", alias},
                    remote : {"remote.json", "config.yaml", alias, None},
                    output : {"plan.json", "remote.json", "result.json", "config.yaml", alias, "missing/file"} \union {None},
                    force : BOOLEAN, authorize : BOOLEAN, credential : BOOLEAN] :
               /\ i.command # "apply" => i.output # None /\ ~i.authorize
               /\ i.command = "capture" => i.remote = None},
     f \in {Folder(ConfigFile(api), plan, remote) :
              api \in Api, plan \in {NoFile} \union {PlanFile(a, s) : a \in Api, s \in {1, 3}},
              remote \in {NoFile, RemoteFile(1)}}}

AnySituation == TogetherOnOneFolder \union AnyCommand
=============================================================================
