----------------------------- MODULE MCService ------------------------------
(* The commands a developer tries on one resource. *)
EXTENDS Service

MCCommands ==
  [kind : {"update"}, pinned : BOOLEAN, wait : BOOLEAN]
    \cup [kind : {"retry"}, pinned : BOOLEAN, wait : {TRUE}]
    \cup {[kind |-> "delete", pinned |-> FALSE, wait |-> TRUE]}
=============================================================================
