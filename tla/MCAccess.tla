------------------------------ MODULE MCAccess ------------------------------
(***************************************************************************)
(* Three resources of two owners: both are read from the group claim, or   *)
(* only the first because an entry that says nothing counts too, or the    *)
(* second comes from the grants file.                                      *)
(***************************************************************************)
EXTENDS Access

MCOwnerOf == <<1, 2, 1>>

MCFilters ==
  {[includeDeleted |-> FALSE, states |-> {}, owners |-> {}],
   [includeDeleted |-> TRUE, states |-> {}, owners |-> {1}],
   [includeDeleted |-> FALSE, states |-> {"Deleted"}, owners |-> {}]}

Token(key, kid, groups, kind) == [key |-> key, kid |-> kid, groups |-> groups, kind |-> kind]

MCTokens ==
  {Token(1, TRUE, {1, 2}, "good"), Token(2, TRUE, {1, 2}, "good"), Token(2, FALSE, {0, 1, 2}, "good"),
   Token(1, TRUE, {3}, "good"), Token(2, TRUE, {}, "badClaims"), Token(1, TRUE, {}, "malformed")}

MCGroup == [g \in {3} |-> {2}]
=============================================================================
