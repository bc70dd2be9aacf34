---------------------------- MODULE ItemProfiles -----------------------------
(***************************************************************************)
(* What callers may rely on of memory/profile.go, without maps, keys and   *)
(* value types: every item has a profile and its owner's own entries, and  *)
(* items copied from one another have them in common from the moment there *)
(* is something to have.                                                   *)
(***************************************************************************)
CONSTANTS
    Holder,   \* variables that hold an item
    Group,    \* groups of items that have a profile in common
    Values,           \* the values each field of a profile may have
    Blank,            \* the profile of an item that has none
    Own, Bare,        \* owners' entries, and none of them
    Nil

VARIABLES
    profile,   \* the profile of each item
    own,       \* the entries its owner added
    group      \* its group, Nil as long as it has none

vars == <<profile, own, group>>

Init ==
    /\ profile = [h \in Holder |-> Blank]
    /\ own = [h \in Holder |-> Bare]
    /\ group = [h \in Holder |-> Nil]

Unused(n) == n \in Group /\ \A h \in Holder : group[h] # n

\* The items that are changed with that of h: its group, or it alone, which
\* then founds one.
With(h) == IF group[h] = Nil THEN {h} ELSE {k \in Holder : group[k] = group[h]}
Grouped(h) == IF group[h] = Nil THEN \E n \in Group : Unused(n) /\ group' = [group EXCEPT ![h] = n]
                                ELSE UNCHANGED group

\* One field of the profile of h is set.
Assign(h, f, x) ==
    /\ Grouped(h)
    /\ profile' = [k \in Holder |-> IF k \in With(h) THEN [profile[k] EXCEPT ![f] = x]
                                                     ELSE profile[k]]
    /\ UNCHANGED own

\* The owner changes its entries.
Annotate(h, o) ==
    /\ own' = [k \in Holder |-> IF k \in With(h) THEN o ELSE own[k]]
    /\ Grouped(h)
    /\ UNCHANGED profile

\* k = h
Copy(h, k) ==
    /\ profile' = [profile EXCEPT ![k] = profile[h]]
    /\ own' = [own EXCEPT ![k] = own[h]]
    /\ group' = [group EXCEPT ![k] = group[h]]

\* An item that went through storage is a copy that has nothing in common with
\* the original.
Reload(h) ==
    /\ IF group[h] = Nil THEN UNCHANGED group
       ELSE \E n \in Group : Unused(n) /\ group' = [group EXCEPT ![h] = n]
    /\ UNCHANGED <<profile, own>>

Next == \E h \in Holder :
          \/ \E f \in DOMAIN Blank : \E x \in Values[f] : Assign(h, f, x)
          \/ \E o \in Own : Annotate(h, o)
          \/ \E k \in Holder : Copy(h, k)
          \/ Reload(h)

Spec == Init /\ [][Next]_vars
=============================================================================
