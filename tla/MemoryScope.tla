----------------------------- MODULE MemoryScope -----------------------------
(***************************************************************************)
(* memory/scope.go: scopes, which stand both for the partition an item     *)
(* belongs to and for the filter that selects partitions.                  *)
(***************************************************************************)
CONSTANTS
    ScopeName,   \* non-empty users, projects and sessions
    Empty        \* ""

ASSUME ScopeAssumption == Empty \notin ScopeName

Axis == {"user", "project", "session"}
Scope == [Axis -> ScopeName \union {Empty}]

IsZero(s) == \A x \in Axis : s[x] = Empty
Equal(s, other) == \A x \in Axis : s[x] = other[x]

\* An empty field of the filter accepts anything.
Matches(s, concrete) == \A x \in Axis : s[x] # Empty => s[x] = concrete[x]
-----------------------------------------------------------------------------
\* As filters, scopes are ordered by how much they select: an order, with the
\* zero scope, which selects everything, at one end; items without a scope are
\* selected by it alone, and of two scopes that select each other's items each
\* is the other (scope.go:16-43).
SelectionIsOrder ==
    \A s, t, u \in Scope :
      /\ Matches(s, s)
      /\ Matches(s, t) /\ Matches(t, u) => Matches(s, u)
      /\ Matches(s, t) /\ Matches(t, s) <=> Equal(s, t)
      /\ IsZero(s) => Matches(s, t)
      /\ IsZero(t) /\ Matches(s, t) => IsZero(s)
=============================================================================
