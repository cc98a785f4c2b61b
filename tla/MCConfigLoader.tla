--------------------------- MODULE MCConfigLoader ---------------------------
(***************************************************************************)
(* ConfigLoader with two types, two names and two template ids.  A         *)
(* configuration is any sequence of at most two blocks, so that every      *)
(* order of templates, namespaces, cgroups and malformed blocks occurs     *)
(* within a file and across files.                                         *)
(***************************************************************************)
EXTENDS ConfigLoader

CONSTANTS n1, n2

MCBlock ==
  [kind : {"template"}, type : {"USER", "no type"}, id : Id]
    \cup [kind : {"template"}, type : {"MOUNT"}, id : {1}]
    \cup [kind : {"namespace"}, name : Name, id : Id, type : {"USER"}]
    \cup [kind : {"namespace"}, name : {n1}, id : {1}, type : {"MOUNT", "no type"}]
    \cup [kind : {"cgroup", "empty", "bad"}]

MCConfig == {<<x>> : x \in MCBlock} \cup {<<x, y>> : x, y \in MCBlock}

Ask(u, m) ==
  [t \in NsType |-> CASE t = "USER" -> u [] t = "MOUNT" -> m [] OTHER -> NoName]

MCRequest == {Ask(u, m) : u \in {n1, n2, NoName}, m \in {n1, NoName}}
=============================================================================
