------------------------------- MODULE Policy -------------------------------
(***************************************************************************)
(* The admission policy (internal/policy): the rules of the document that  *)
(* the server loads once, which of them a request meets, and what they     *)
(* decide.  A rule selects by owner, by resource type, or by both; an      *)
(* empty selector selects everything.                                      *)
(***************************************************************************)
EXTENDS Naturals, FiniteSets, FiniteSetsExt

CONSTANTS
  Owners,
  Types,   \* registered resource types
  Rules    \* the rules of the policy document

Mutations == {"create", "update"}

\* The capabilities of a quota and the limit of a denial are not in the document.
ValidRule(rule) ==
  /\ rule.owner \subseteq Owners /\ Cardinality(rule.owner) <= 1
  /\ rule.type \subseteq Types /\ Cardinality(rule.type) <= 1
  /\ \/ /\ rule.kind = "capability-deny"
        /\ rule.type # {}
        /\ rule.capabilities \subseteq Mutations /\ rule.capabilities # {}
     \/ /\ rule.kind = "resource-count-quota"
        /\ rule.capabilities = {} /\ rule.limit \in Nat \ {0}

\* What a rule restricts; no two rules of a document restrict the same.
SemanticKeys(rule) ==
  IF rule.kind = "resource-count-quota" THEN {<<rule.kind, rule.owner, rule.type>>}
  ELSE {<<rule.kind, rule.owner, rule.type, c>> : c \in rule.capabilities}

\* Parse: a document that it refuses keeps the server from starting.
ValidPolicy ==
  /\ \A rule \in Rules : ValidRule(rule)
  /\ \A r, s \in Rules : r # s => r.id # s.id /\ SemanticKeys(r) \cap SemanticKeys(s) = {}

ASSUME PolicyAssumption == IsFiniteSet(Types) /\ ValidPolicy

Matches(rule, owner, type) ==
  /\ rule.owner # {} => owner \in rule.owner
  /\ rule.type # {} => type \in rule.type

Quotas == {rule \in Rules : rule.kind = "resource-count-quota"}

CapabilityDenied(mutation, owner, type) ==
  \E rule \in Rules \ Quotas : Matches(rule, owner, type) /\ mutation \in rule.capabilities

Dimension(rule) == IF rule.type = {} THEN "owner_resources" ELSE "owner_type_resources"

\* Mutant: the rule of the greatest limit is the one that counts.
TightestLoosest(limits) == Max(limits)

Tightest(limits) == Min(limits)

\* The plan of a create: in each dimension the tightest of the limits that match.
CountConstraints(owner, type) ==
  LET limits(d) == {rule.limit : rule \in {q \in Quotas : Matches(q, owner, type) /\ Dimension(q) = d}}
  IN  {[dimension |-> d, limit |-> Tightest(limits(d))] :
         d \in {Dimension(q) : q \in {s \in Quotas : Matches(s, owner, type)}}}

\* The facts are the counts in the two dimensions.
Allows(mutation, owner, type, facts) ==
  /\ ~CapabilityDenied(mutation, owner, type)
  /\ mutation = "create" => \A c \in CountConstraints(owner, type) : facts[c.dimension] < c.limit
=============================================================================
