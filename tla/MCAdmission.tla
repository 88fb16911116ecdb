---------------------------- MODULE MCAdmission ----------------------------
EXTENDS Admission, TLC

FiveResources == 1..5
OneOwner == {"team"}
AllOwned == [r \in Resources |-> "team"]
TypesOfFive == <<"db", "db", "db", "cache", "cache">>

Rule(id, kind, owner, type, capabilities, limit) ==
  [id |-> id, kind |-> kind, owner |-> owner, type |-> type, capabilities |-> capabilities, limit |-> limit]

\* Four resources, one cache (the team's own rule is looser), no update of a cache.
TeamPolicy ==
  {Rule(1, "resource-count-quota", {}, {}, {}, 4), Rule(2, "resource-count-quota", {"team"}, {"cache"}, {}, 9),
   Rule(3, "resource-count-quota", {}, {"cache"}, {}, 1),
   Rule(4, "capability-deny", {}, {"cache"}, {"update"}, 0)}
SubmittedReferences == {{}, {1}, {2}, {4}}

\* Two edges that two more would close to a ring over all four resources, and
\* two resources, one of them a dependent, below a quota of four.
RingAndPair == {(1 :> {} @@ 2 :> {3} @@ 3 :> {} @@ 4 :> {1}),
                (1 :> {} @@ 2 :> {1})}

ClientSymmetry == Permutations(Clients)

\* Two resources without references, of which one may come to reference the other.
TwoResources == 1..2
TypesOfTwo == <<"db", "db">>
NoneOrFirst == {{}, {1}}
Unrelated == {(1 :> {} @@ 2 :> {})}
=============================================================================
