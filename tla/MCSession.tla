------------------------------ MODULE MCSession ------------------------------
(* Two clients; containers named a and a.log, with and without a namespace. *)
EXTENDS Session, TLC

CONSTANTS c1, c2, nameA, nameLog, nsX

MCLogName == nameA :> nameLog @@ nameLog :> nameLog

Ask(t) == [type |-> t, name |-> nameA, ns |-> {}]

\* The first client launches containers and reads their logs, the second one
\* looks on.
MCAsks ==
  c1 :> {Ask("SEND_TRACE"), Ask("SEND_LOGS"), Ask("RUN_CONTAINER"),
         [Ask("RUN_CONTAINER") EXCEPT !.name = nameLog, !.ns = {nsX}],
         [Ask("GET_CONFIGS") EXCEPT !.ns = {nsX}]} @@
  c2 :> {Ask("SEND_TRACE"), Ask("unknown")}

MCRequest == UNION {MCAsks[c] : c \in Client}
=============================================================================
