-------------------------- MODULE MCCgroupManager --------------------------
(***************************************************************************)
(* CgroupManager with two cgroups, one process and all eight limits.  The  *)
(* declarations differ in which limits they give: some of both hierarchies *)
(* with a gap before the last, none at all, and another value for one.     *)
(***************************************************************************)
EXTENDS CgroupManager

MCLimits == <<"cfs_quota", "cfs_period", "read_bps", "write_bps",
              "memory_high", "memory_max", "swap_max", "pids_max">>

Gives(ls, v) == [l \in Limit |-> IF l \in ls THEN v ELSE Unset]

MCDeclared == {Gives({}, 1), Gives({"cfs_quota", "pids_max"}, 1),
               Gives({"pids_max"}, 2), Gives({"read_bps", "swap_max"}, 1)}
=============================================================================
