---------------------------- MODULE ConfigLoader ----------------------------
(***************************************************************************)
(* The registry of the daemon and the configurations that fill it:         *)
(* Daemon::get_configs and the parse_ functions (execution/daemon.cpp),    *)
(* the templates (ns/ns_options/ns_conf_repository.cpp, ns_config.h), the  *)
(* pool of namespace objects (ns/ns_pool.cpp) and the lookup that turns    *)
(* the names of a container's configuration into a group of namespaces     *)
(* (ns_pool::get_ns_group).                                                *)
(*                                                                         *)
(* A configuration file is a sequence of blocks, read one after the other. *)
(* What is thrown ends the daemon; until then, the blocks read before stay *)
(* in effect.                                                              *)
(***************************************************************************)
EXTENDS NsTypes, Sequences, FiniteSets

CONSTANTS
  Name,      \* names of namespaces
  NoName,    \* the empty value: no namespace of that type is asked for
  NoObject,  \* no namespace object
  Id,        \* ids of templates
  Config,    \* configuration files: sequences of blocks
  Request,   \* container configurations: the name asked for, per type
  MaxConfig  \* bound on the configurations received

\* A block is what its lines say: a template, a namespace made from one, a
\* cgroup, an empty line, or something parse_config does not accept.  A type
\* that is not in the enumeration is "no type".
Type == NsType \cup {"no type"}
Block == [kind : {"template"}, type : Type, id : Id]
           \cup [kind : {"namespace"}, name : Name, id : Id, type : Type]
           \cup [kind : {"cgroup", "empty", "bad"}]

ASSUME ConfigAssumption ==
  /\ NoName \notin Name
  /\ NoObject \notin Nat
  /\ Config \subseteq Seq(Block)
  /\ Request \subseteq [NsType -> Name \cup {NoName}]
  /\ MaxConfig \in Nat

VARIABLES
  up,       \* the daemon runs
  conf,     \* the blocks of the current file not read yet
  repo,     \* repo[t]: the ids of the templates of type t, as added
  pool,     \* pool[t]: the namespace objects of type t, as declared
  objects,  \* how many namespace objects were created: the next one's identity
  served,   \* what containers were given: <<<<type, name>>, object>>
  configs   \* how many configurations were received

vars == <<up, conf, repo, pool, objects, served, configs>>

\* A namespace object: its name, the place of the template it was made from in
\* repo, and the id of the template its declaration asked for.
NsEntry == [name : Name, obj : Nat, template : Nat, wanted : Id]

TypeOK ==
  /\ up \in BOOLEAN
  /\ conf \in Seq(Block)
  /\ repo \in [NsType -> Seq(Id)]
  /\ pool \in [NsType -> Seq(NsEntry)]
  /\ objects \in Nat
  /\ served \subseteq (NsType \X Name) \X Nat
  /\ configs \in 0..MaxConfig
  /\ \A t \in NsType : \A i \in DOMAIN pool[t] :
       pool[t][i].obj < objects /\ pool[t][i].template \in DOMAIN repo[t]

Init ==
  /\ up = TRUE /\ conf = <<>> /\ objects = 0 /\ served = {} /\ configs = 0
  /\ repo = [t \in NsType |-> <<>>]
  /\ pool = [t \in NsType |-> <<>>]

-----------------------------------------------------------------------------
(* Plausible bugs, each a changed form of a definition below *)

\* ns_pool::get_ns without its break: the last match.
LastOf(s, n) == {i \in DOMAIN s : s[i].name = n /\ \A j \in DOMAIN s : s[j].name = n => j <= i}

\* declare_ns adding to the front.
DeclareNsInFront(t, e) == pool' = [pool EXCEPT ![t] = <<e>> \o @]

-----------------------------------------------------------------------------
(* Lookups *)

\* The place of the first object with the name, if there is one.
FirstOf(s, n) == {i \in DOMAIN s : s[i].name = n /\ \A j \in 1..(i-1) : s[j].name # n}

\* ns_pool::get_ns throws when no object has the name.
Declared(t, n) == FirstOf(pool[t], n) # {}
Resolve(t, n) == pool[t][CHOOSE i \in FirstOf(pool[t], n) : TRUE].obj

\* compare_id returns nothing when the ids differ, which is undefined: the
\* search may stop at any template before the first one with the id.
Found(t, id) == {i \in DOMAIN repo[t] : \A j \in 1..(i-1) : repo[t][j] # id}
\* Past the last one, find_config dereferences end().
NotFound(t, id) == \A j \in DOMAIN repo[t] : repo[t][j] # id

-----------------------------------------------------------------------------
(* Loading a configuration *)

Down == up' = FALSE /\ UNCHANGED <<conf, repo, pool, objects, served, configs>>

\* The file received is saved and parsed; when it cannot be saved, or the
\* saved one not be opened, the daemon ends.
GetConfigs(f) ==
  /\ up /\ conf = <<>>
  /\ configs < MaxConfig
  /\ \/ /\ conf' = f
        /\ configs' = configs + 1
        /\ UNCHANGED <<up, repo, pool, objects, served>>
     \/ Down

At(kind) == up /\ conf # <<>> /\ Head(conf).kind = kind

ParseEmpty ==
  /\ At("empty")
  /\ conf' = Tail(conf)
  /\ UNCHANGED <<up, repo, pool, objects, served, configs>>

\* Plausible bug: parse_config that leaves a file at its first bad block.
ParseBadSkipped ==
  /\ At("bad")
  /\ conf' = <<>>
  /\ UNCHANGED <<up, repo, pool, objects, served, configs>>

ParseBad == At("bad") /\ Down

ParseTemplate ==
  /\ At("template")
  /\ LET b == Head(conf) IN
       IF b.type \in NsType
         THEN /\ repo' = [repo EXCEPT ![b.type] = Append(@, b.id)]
              /\ conf' = Tail(conf)
              /\ UNCHANGED <<up, pool, objects, served, configs>>
         ELSE Down

\* ns_pool::declare_ns
DeclareNs(t, e) == pool' = [pool EXCEPT ![t] = Append(@, e)]

ParseNamespace ==
  /\ At("namespace")
  /\ LET b == Head(conf) IN
       \/ /\ b.type \in NsType
          /\ \E i \in Found(b.type, b.id) :
               DeclareNs(b.type, [name |-> b.name, obj |-> objects, template |-> i, wanted |-> b.id])
          /\ objects' = objects + 1
          /\ conf' = Tail(conf)
          /\ UNCHANGED <<up, repo, served, configs>>
       \/ /\ b.type \in NsType => NotFound(b.type, b.id)
          /\ Down

\* parse_cgroup reads every line that is left: nothing may follow the block.
\* cgroup_manager::init_cgroup may throw.
ParseCgroup ==
  /\ At("cgroup")
  /\ \/ /\ Tail(conf) = <<>>
        /\ conf' = <<>>
        /\ UNCHANGED <<up, repo, pool, objects, served, configs>>
     \/ Down

-----------------------------------------------------------------------------
(* Serving a container *)

\* The options of a container's configuration: a type without a value is not
\* asked for.
Wanted(r) == {t \in NsType : r[t] # NoName}

\* ns_pool::get_ns_group
GetNsGroup(r) ==
  /\ up /\ conf = <<>>
  /\ IF \A t \in Wanted(r) : Declared(t, r[t])
       THEN /\ served' = served \cup {<<<<t, r[t]>>, Resolve(t, r[t])>> : t \in Wanted(r)}
            /\ UNCHANGED <<up, conf, repo, pool, objects, configs>>
       ELSE Down

Next ==
  \/ \E f \in Config : GetConfigs(f)
  \/ ParseEmpty \/ ParseBad \/ ParseTemplate \/ ParseNamespace \/ ParseCgroup
  \/ \E r \in Request : GetNsGroup(r)

Spec == Init /\ [][Next]_vars

-----------------------------------------------------------------------------
(* Properties *)

\* Containers that ask for the same name get the same namespace object and
\* containers that ask for different ones never do, whatever configurations
\* arrive between them: sharing a namespace is decided by its name alone.
NameMeansObject ==
  \A p, q \in served : p[1] = q[1] <=> p[2] = q[2]

\* The pool, a vector per type searched from its front, is a write-once map.
Pool == INSTANCE NamePool WITH
  Key <- NsType \X Name,
  Object <- Nat,
  None <- NoObject,
  bound <- [k \in NsType \X Name |->
              IF Declared(k[1], k[2]) THEN Resolve(k[1], k[2]) ELSE NoObject]
WriteOnce == Pool!Spec

\* The namespaces a file declares, and those the search finds.
DeclaredBy(f) ==
  {<<f[i].type, f[i].name>> : i \in {j \in DOMAIN f : f[j].kind = "namespace" /\ f[j].type \in NsType}}
Declarable == {DeclaredBy(f) : f \in Config}
InPool == {k \in NsType \X Name : Declared(k[1], k[2])}

\* A file that is read block by block counts as a whole, from the moment it is
\* there: what of it is not read yet will be, or the daemon ends, and no container
\* is served in between (execution/daemon.cpp:217, 437).
Outcome == INSTANCE ConfigOutcome WITH
  running <- up,
  declared <- IF up THEN InPool \cup DeclaredBy(conf) ELSE {},
  used <- IF up THEN {p[1] : p \in served} ELSE {}
ConfigSpec == Outcome!Spec

\* execution/daemon.cpp:291-292: a namespace is created by the template its
\* declaration names.
TemplateHonoured ==
  \A t \in NsType : \A i \in DOMAIN pool[t] :
    repo[t][pool[t][i].template] = pool[t][i].wanted
=============================================================================
