------------------------------- MODULE Access -------------------------------
(***************************************************************************)
(* The read side: a reader walks the inventory page by page.  Every page   *)
(* is a request of its own: its token is verified with the signing keys    *)
(* that the server has fetched from the issuer, its memberships become the *)
(* visibility, and its cursor must belong to the same query and the same   *)
(* visibility.  Meanwhile the issuer rotates its keys, others send tokens  *)
(* with unknown keys, and resources come and go.                           *)
(*                                                                         *)
(* Time is two flags: whether the cached keys are younger than their TTL,  *)
(* and whether the window after the last forced refresh has passed.  An    *)
(* owner is a number, in the order in which the claims are sorted; 0 is an *)
(* entry of the group claim that no owner can be read from.                *)
(***************************************************************************)
EXTENDS Naturals, FiniteSets, FiniteSetsExt

CONSTANTS
  Resources,    \* resource_seq of the resources there can be
  OwnerOf,      \* their stored owners
  Present,      \* the sets of resources that a walk can begin with
  Filters,      \* the queries a reader makes
  Tokens,       \* the access tokens a reader gets
  Subject,      \* owners that the grants file gives the reader's subject
  Group,        \* owners that the grants file gives a group, for some groups
  MaxEntries,   \* bound on the entries of the group claim that are read
  Limit,        \* size of a page
  MaxChanges    \* bound on the changes of resources

Keys == 1..2

ASSUME ConstantsAssumption ==
  /\ Resources \subseteq Nat \ {0} /\ IsFiniteSet(Resources)
  /\ OwnerOf \in [Resources -> Nat \ {0}]
  /\ Present \subseteq SUBSET Resources
  /\ Filters \subseteq [includeDeleted : BOOLEAN, states : SUBSET {"Pending", "Ready", "Deleted"},
                       owners : SUBSET Nat]
  /\ Tokens \subseteq [key : Keys, kid : BOOLEAN, groups : SUBSET Nat,
                      kind : {"good", "badClaims", "malformed"}]
  /\ Subject \subseteq Nat \ {0} /\ Group \in [DOMAIN Group -> SUBSET (Nat \ {0})]
  /\ {Limit, MaxEntries} \subseteq Nat \ {0} /\ MaxChanges \in Nat

VARIABLES
  published,  \* the issuer's keys
  cached,     \* the keys of the last successful fetch
  fresh,      \* they are younger than their TTL
  window,     \* no forced refresh is too recent
  fetching,   \* who fetches, and holds the mutex
  pc,         \* what the reader's request has come to
  token,      \* the reader's token
  answer,     \* the last answer
  state,      \* of the resources
  walk,       \* the reader's walk, and what it should have shown
  changes

accessVars == <<published, cached, fresh, window, fetching, pc, token, answer, state, walk, changes>>
keyring == <<cached, fresh, window, fetching>>
reader == <<pc, token, answer, walk>>
issuer == <<published, token>>
inventory == <<state, changes>>

NoWalk == [open |-> FALSE]

\* The rows of a query under a visibility.
Matching(states, filter, scope) ==
  {r \in Resources : /\ states[r] # "Absent"
                     /\ OwnerOf[r] \in scope
                     /\ filter.owners = {} \/ OwnerOf[r] \in filter.owners
                     /\ filter.includeDeleted \/ states[r] # "Deleted"
                     /\ filter.states = {} \/ states[r] \in filter.states}

AccessTypeOK ==
  /\ published \in (SUBSET Keys) \ {{}} /\ cached \in (SUBSET Keys) \ {{}}
  /\ fresh \in BOOLEAN /\ window \in BOOLEAN
  /\ fetching \in {"nobody", "reader", "other"}
  /\ pc \in {"idle", "fetching", "authenticated"} /\ (pc = "fetching" <=> fetching = "reader")
  /\ token \in Tokens
  /\ answer \in {"None", "Page", "InvalidArgument", "Unauthenticated"}
  /\ state \in [Resources -> {"Absent", "Pending", "Ready", "Deleted"}]
  /\ walk # NoWalk => /\ walk.open => walk.position \in Resources
                      /\ walk.seen \cup walk.steady \subseteq Resources /\ walk.shown \in Nat
  /\ changes \in 0..MaxChanges

AccessInit ==
  /\ published = {1} /\ cached = {1}
  /\ fresh = TRUE /\ window = TRUE /\ fetching = "nobody"
  /\ pc = "idle" /\ answer = "None"
  /\ token \in Tokens
  /\ \E present \in Present : state = [r \in Resources |-> IF r \in present THEN "Ready" ELSE "Absent"]
  /\ walk = NoWalk
  /\ changes = 0

-----------------------------------------------------------------------------
(* The issuer, other callers, and time. *)

\* A new key is published before the old one is withdrawn.
Rotate ==
  /\ published' = IF published = {1} THEN Keys ELSE {2}
  /\ UNCHANGED <<keyring, reader, inventory>>

Reissue ==
  /\ pc = "idle"
  /\ token' \in Tokens
  /\ UNCHANGED <<published, keyring, pc, answer, walk, inventory>>

Age ==
  /\ fresh' = FALSE
  /\ UNCHANGED <<published, cached, window, fetching, reader, inventory>>

WindowPasses ==
  /\ window' = TRUE
  /\ UNCHANGED <<published, cached, fresh, fetching, reader, inventory>>

-----------------------------------------------------------------------------
(* Authentication. *)

\* The key of a token: the one with its kid, or the only one.
SelectKey(keys, t) ==
  {k \in keys : IF t.kid THEN k = t.key ELSE keys = {k}}

\* Type, algorithm and encoding, which are looked at before any key is.
WellFormed(t) == t.kind # "malformed"

\* Issuer, audience, times and subject, which are looked at after the signature.
ClaimsValid(t) == t.kind = "good"

Verify(keys, t) == SelectKey(keys, t) = {t.key} /\ ClaimsValid(t)

Authenticated(ok) ==
  IF ok THEN pc' = "authenticated" /\ UNCHANGED answer
        ELSE pc' = "idle" /\ answer' = "Unauthenticated"

RefuseMalformed ==
  /\ pc = "idle" /\ ~WellFormed(token)
  /\ answer' = "Unauthenticated"
  /\ UNCHANGED <<issuer, keyring, pc, walk, inventory>>

\* A fresh cache that has the key is asked first.  A cached key of any age does
\* while the window is closed.
Authenticate ==
  /\ pc = "idle" /\ fetching = "nobody" /\ WellFormed(token)
  /\ (fresh /\ SelectKey(cached, token) # {}) \/ ~window
  /\ Authenticated(Verify(cached, token))
  /\ UNCHANGED <<issuer, keyring, walk, inventory>>

StartFetch(who) ==
  /\ fetching = "nobody" /\ window
  /\ fetching' = who /\ window' = FALSE
  /\ UNCHANGED <<issuer, cached, fresh, answer, walk, inventory>>

Refresh ==
  /\ pc = "idle" /\ WellFormed(token) /\ ~(fresh /\ SelectKey(cached, token) # {})
  /\ StartFetch("reader") /\ pc' = "fetching"

\* Somebody else's token has a kid that nobody knows, or comes after the TTL.
OtherRefresh == StartFetch("other") /\ UNCHANGED pc

\* Mutant: what was fetched is added.
FetchedAdded(keys) == cached \cup keys

\* What was fetched replaces the cache.
Fetched(keys) == keys

\* The mutex is given back, and the request goes on with the keys there are.
Release(keys) ==
  /\ fetching' = "nobody"
  /\ IF fetching = "reader" THEN Authenticated(Verify(keys, token)) ELSE UNCHANGED <<pc, answer>>
  /\ UNCHANGED <<issuer, window, walk, inventory>>

FetchSucceeds ==
  /\ fetching # "nobody"
  /\ cached' = Fetched(published) /\ fresh' = TRUE
  /\ Release(Fetched(published))

\* Mutant: without the keys of the cache.
OutageKeys == {}

\* An outage, or the caller who caused the fetch has gone away.
KeysAfterOutage == cached

FetchFails ==
  /\ fetching # "nobody"
  /\ Release(KeysAfterOutage)
  /\ UNCHANGED <<cached, fresh>>

-----------------------------------------------------------------------------
(* A page of the inventory. *)

\* The entries of the claim that are read: the first ones, in their order.
EntriesRead(t) == {g \in t.groups : Cardinality({h \in t.groups : h < g}) < MaxEntries}

\* An entry that is no owner is skipped.
Interpreted(entries) == entries \ {0}

\* The grants file is asked about every entry.
MembershipsOf(t) ==
  Subject \cup Interpreted(EntriesRead(t)) \cup UNION {Group[g] : g \in t.groups \cap DOMAIN Group}

PageItems(rows, after) == {r \in rows : after = 0 \/ r < after}

\* Newest first.
FirstOf(rows, n) == {r \in rows : Cardinality({s \in rows : s > r}) < n}

\* Mutant: the position is that of the row that was read to see whether there is
\* a next page.
NextSequenceOfExtra(rows) ==
  IF Cardinality(rows) > Limit THEN Min(FirstOf(rows, Limit + 1)) ELSE 0

\* The position of the next page is the last row of this one; 0 without one.
NextSequence(rows) ==
  IF Cardinality(rows) > Limit THEN Min(FirstOf(rows, Limit)) ELSE 0

\* The cursor is bound to the query and to the visibility.
CursorValid(filter, scope) == walk.filter = filter /\ walk.scope = scope

Show(old, filter, scope, after) ==
  LET rows == PageItems(Matching(state, filter, scope), after)
      next == NextSequence(rows)
  IN  walk' = [old EXCEPT !.open = next # 0, !.position = next,
                          !.seen = @ \cup FirstOf(rows, Limit),
                          !.shown = @ + Cardinality(FirstOf(rows, Limit))]

Answered(code) == pc' = "idle" /\ answer' = code

\* Tombstones are asked for twice, or not at all.
ValidFilter(filter) == "Deleted" \in filter.states => filter.includeDeleted

RefuseFilter(filter) ==
  /\ pc = "authenticated" /\ ~ValidFilter(filter)
  /\ Answered("InvalidArgument")
  /\ UNCHANGED <<issuer, keyring, walk, inventory>>

\* Without a cursor a walk begins.
ListFirst(filter) ==
  LET scope == MembershipsOf(token)
      begun == [open |-> TRUE, filter |-> filter, scope |-> scope, position |-> 0, seen |-> {},
                shown |-> 0, steady |-> Matching(state, filter, scope)]
  IN  /\ pc = "authenticated" /\ ValidFilter(filter)
      /\ Show(begun, filter, scope, 0) /\ Answered("Page")
      /\ UNCHANGED <<issuer, keyring, inventory>>

\* With one it goes on, or is refused.
ListNext(filter) ==
  /\ pc = "authenticated" /\ ValidFilter(filter) /\ walk.open
  /\ LET scope == MembershipsOf(token)
     IN  \/ /\ CursorValid(filter, scope)
            /\ Show(walk, filter, scope, walk.position) /\ Answered("Page")
         \/ ~CursorValid(filter, scope) /\ UNCHANGED walk /\ Answered("InvalidArgument")
  /\ UNCHANGED <<issuer, keyring, inventory>>

-----------------------------------------------------------------------------
(* Resources come and go; sequences are given when a row is inserted, and rows  *)
(* are committed in any order.                                                  *)

Change(r, from, to) ==
  /\ changes < MaxChanges /\ state[r] = from
  /\ changes' = changes + 1
  /\ state' = [state EXCEPT ![r] = to]
  /\ walk' = IF walk = NoWalk THEN walk
             ELSE [walk EXCEPT !.steady = @ \cap Matching(state', walk.filter, walk.scope)]
  /\ UNCHANGED <<published, keyring, pc, token, answer>>

Create(r) == Change(r, "Absent", "Pending")
Settle(r) == Change(r, "Pending", "Ready")
Delete(r) == Change(r, "Ready", "Deleted")

-----------------------------------------------------------------------------
AccessNext ==
  \/ Rotate \/ Reissue \/ Age \/ WindowPasses
  \/ RefuseMalformed \/ Authenticate \/ Refresh \/ OtherRefresh \/ FetchSucceeds \/ FetchFails
  \/ \E f \in Filters : RefuseFilter(f) \/ ListFirst(f) \/ ListNext(f)
  \/ \E r \in Resources : Create(r) \/ Settle(r) \/ Delete(r)

AccessSpec == AccessInit /\ [][AccessNext]_accessVars

\* The reader goes on asking, time passes, a fetch returns, and the issuer can be
\* reached again and again, by whoever asks.  A mutex keeps nobody waiting forever.
AccessFairness ==
  /\ SF_accessVars(Authenticate \/ Refresh) /\ WF_accessVars(\E f \in Filters : ListFirst(f))
  /\ WF_accessVars(Age) /\ WF_accessVars(WindowPasses) /\ WF_accessVars(FetchSucceeds \/ FetchFails)
  /\ SF_accessVars(FetchSucceeds)

AccessFairSpec == AccessSpec /\ AccessFairness

-----------------------------------------------------------------------------
\* A walk that has come to its end has shown every resource that the query
\* matched from its first page to its last, however the others came and went in
\* between (resources_list.go's keyset on resource_seq).
WalkIsComplete ==
  walk # NoWalk /\ ~walk.open => walk.steady \subseteq walk.seen

\* No walk shows a resource twice, whatever is created, settled or deleted
\* between its pages.
WalkNeverRepeats == walk # NoWalk => walk.shown = Cardinality(walk.seen)

\* A walk stays within the visibility of its first page: when the reader's
\* memberships change, the next page is refused rather than taken from the new
\* ones (ADR-0016, decodeResourceListCursor).
WalkIsOneScope == walk # NoWalk => \A r \in walk.seen : OwnerOf[r] \in walk.scope

\* A walk over many pages shows what one page would have shown, although every
\* page is a request of its own: all that was there throughout, nothing twice,
\* nothing from beyond the visibility it began with.
WalkIsFaithful == AccessTypeOK /\ WalkIsComplete /\ WalkNeverRepeats /\ WalkIsOneScope

\* A token that a key of the cache verifies is never refused: neither an outage of
\* the issuer, nor the rate window, nor the age of the keys is held against it
\* (verificationKeyFor).
CachedKeyVerifies ==
  [][(/\ pc' = "idle" /\ answer' = "Unauthenticated"
      /\ pc = "fetching" \/ answer # "Unauthenticated"
      /\ ClaimsValid(token)) => SelectKey(cached', token) # {token.key}]_accessVars

\* After the issuer's last rotation the server comes to trust exactly the keys
\* that are still published: the rate window, which one caller's token with an
\* unknown key closes for all, delays a new key but does not keep it out, and a
\* withdrawn key does not stay.  All it takes is that somebody goes on sending
\* well-formed tokens, good or not.
KeysConverge == <>[]WellFormed(token) => <>[](cached = published)
=============================================================================
