--------------------------- MODULE MCDependencies ---------------------------
(* Reference graphs for model checking Dependencies. *)
EXTENDS Dependencies

CONSTANTS app, cache, db

\* One dependent of one target.
Pair == (app :> <<db>>) @@ (db :> <<>>)

\* Two dependents of one target.
Star == (app :> <<db>>) @@ (cache :> <<db>>) @@ (db :> <<>>)

\* A dependent of a dependent.
Chain == (app :> <<cache>>) @@ (cache :> <<db>>) @@ (db :> <<>>)

\* One dependent of two targets.
Fan == (app :> <<cache, db>>) @@ (cache :> <<>>) @@ (db :> <<>>)
=============================================================================
