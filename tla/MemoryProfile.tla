---------------------------- MODULE MemoryProfile ----------------------------
(***************************************************************************)
(* memory/profile.go: the profile of a MemoryItem lives in its Metadata    *)
(* map under reserved keys.  Items are copied by value, which copies the   *)
(* reference to the map, so maps are addresses in a heap.  Values have a   *)
(* dynamic type, which the getters test.                                   *)
(***************************************************************************)
EXTENDS MemoryScope

CONSTANTS
    Holder,     \* variables that hold an item
    Addr,       \* addresses of maps; bound: maps in use at a time
    Source,     \* non-empty sources
    Category,   \* non-empty categories
    OwnKey,     \* metadata keys of the items' owners
    OwnValue,   \* their values, of a type that JSON keeps
    Foreign,    \* entries that others than the setters write under reserved keys
    Nil

Reserved == {"_source", "_category", "_pinned", "_disabled"}
Text == Source \union Category \union {Empty}
Value == [type : {"Source", "Category", "string"}, v : Text]
           \union [type : {"bool"}, v : BOOLEAN]
           \union [type : {"other"}, v : OwnValue]
Metadata == UNION { [D -> Value] : D \in SUBSET (Reserved \union OwnKey) }

\* A named type comes under its own key only.  (Under another one the getter
\* takes it for unset, and for a text once it has been through JSON.)
Fits(k, val) == /\ val.type = "Source" => k = "_source"
                /\ val.type = "Category" => k = "_category"

ASSUME MemoryAssumption ==
    /\ Empty \notin Source \union Category
    /\ OwnKey \cap Reserved = {}
    /\ Foreign \subseteq Reserved \X Value
    /\ \A e \in Foreign : Fits(e[1], e[2])
    /\ Nil \notin Addr

VARIABLES
    metadata,   \* the Metadata field of each item: an address, or nil
    heap        \* the maps

vars == <<metadata, heap>>

NoEntries == [k \in {} |-> Nil]

Init ==
    /\ metadata = [h \in Holder |-> Nil]
    /\ heap = [a \in Addr |-> NoEntries]

\* Reading a nil map is reading an empty one.
Entries(h) == IF metadata[h] = Nil THEN NoEntries ELSE heap[metadata[h]]

-----------------------------------------------------------------------------
\* Mutant of GetSource: a source is a string.
GetStringSource(m) ==
    IF "_source" \in DOMAIN m /\ m["_source"].type = "string" THEN m["_source"].v ELSE Empty

GetSource(m) ==
    IF "_source" \in DOMAIN m /\ m["_source"].type \in {"Source", "string"}
      THEN m["_source"].v ELSE Empty
GetCategory(m) ==
    IF "_category" \in DOMAIN m /\ m["_category"].type \in {"Category", "string"}
      THEN m["_category"].v ELSE Empty
IsPinned(m) == "_pinned" \in DOMAIN m /\ m["_pinned"].type = "bool" /\ m["_pinned"].v
IsDisabled(m) == "_disabled" \in DOMAIN m /\ m["_disabled"].type = "bool" /\ m["_disabled"].v

-----------------------------------------------------------------------------
Put(m, k, type, v) ==
    [x \in DOMAIN m \union {k} |-> IF x = k THEN [type |-> type, v |-> v] ELSE m[x]]
Delete(m, k) == [x \in DOMAIN m \ {k} |-> m[x]]

Fresh(a) == a \in Addr /\ \A h \in Holder : metadata[h] # a

\* Item h gets a map of its own.
NewMap(h, m) == \E a \in Addr : /\ Fresh(a)
                                /\ metadata' = [metadata EXCEPT ![h] = a]
                                /\ heap' = [heap EXCEPT ![a] = m]

\* The entries of h become m, in a new map if it has none (ensureMetadata).
Store(h, m) ==
    \/ metadata[h] = Nil /\ NewMap(h, m)
    \/ /\ metadata[h] # Nil
       /\ heap' = [heap EXCEPT ![metadata[h]] = m]
       /\ UNCHANGED metadata

SetSource(h, src) ==
    Store(h, IF src = Empty THEN Delete(Entries(h), "_source")
                            ELSE Put(Entries(h), "_source", "string", src))
SetCategory(h, cat) ==
    Store(h, IF cat = Empty THEN Delete(Entries(h), "_category")
                            ELSE Put(Entries(h), "_category", "string", cat))
SetPinned(h, pinned) ==
    Store(h, IF pinned THEN Put(Entries(h), "_pinned", "bool", TRUE)
                       ELSE Delete(Entries(h), "_pinned"))
SetDisabled(h, disabled) ==
    Store(h, IF disabled THEN Put(Entries(h), "_disabled", "bool", TRUE)
                         ELSE Delete(Entries(h), "_disabled"))

\* Other code: earlier helpers that store the typed form, and data from
\* elsewhere that has something under a reserved key; the owner's own entries.
WriteForeign(h, k, val) == Store(h, Put(Entries(h), k, val.type, val.v))
WriteOwn(h, k, v) == Store(h, Put(Entries(h), k, "other", v))

\* k = h copies the reference.
Copy(h, k) == metadata' = [metadata EXCEPT ![k] = metadata[h]] /\ UNCHANGED heap

\* JSON keeps a text or a bool and forgets the name of its type.
Decoded(val) == [val EXCEPT !.type = IF val.type \in {"Source", "Category"} THEN "string"
                                                                            ELSE @]

\* Item h goes through JSON and comes back with a map of its own; nil is null.
Reload(h) ==
    LET m == Entries(h) IN
      \/ metadata[h] = Nil /\ UNCHANGED vars
      \/ metadata[h] # Nil /\ NewMap(h, [k \in DOMAIN m |-> Decoded(m[k])])

Next == \E h \in Holder :
          \/ \E src \in Source \union {Empty} : SetSource(h, src)
          \/ \E cat \in Category \union {Empty} : SetCategory(h, cat)
          \/ \E b \in BOOLEAN : SetPinned(h, b) \/ SetDisabled(h, b)
          \/ \E e \in Foreign : WriteForeign(h, e[1], e[2])
          \/ \E k \in OwnKey, v \in OwnValue : WriteOwn(h, k, v)
          \/ \E k \in Holder : Copy(h, k)
          \/ Reload(h)

Spec == Init /\ [][Next]_vars
-----------------------------------------------------------------------------
ProfileOf(m) == [source |-> GetSource(m), category |-> GetCategory(m),
                 pinned |-> IsPinned(m), disabled |-> IsDisabled(m)]
Unset == [source |-> Empty, category |-> Empty, pinned |-> FALSE, disabled |-> FALSE]

Profiles == INSTANCE ItemProfiles WITH
    profile <- [h \in Holder |-> ProfileOf(Entries(h))],
    own <- [h \in Holder |-> [k \in DOMAIN Entries(h) \ Reserved |-> Entries(h)[k]]],
    group <- metadata,
    Group <- Addr,
    Values <- [source |-> Text, category |-> Text, pinned |-> BOOLEAN, disabled |-> BOOLEAN],
    Blank <- Unset,
    Own <- UNION { [D -> Value] : D \in SUBSET OwnKey },
    Bare <- NoEntries

\* To the callers of getters and setters, an item has four fields and its
\* owner's entries, and nothing of the map shows: which type a value was stored
\* with, whether it went through JSON, whether a field was cleared or never set.
\* A setter changes its field of the item and of those that were copied from it
\* or it from since it had a map, no field besides and no item besides, and no
\* entry of an owner (profile.go:5-6, 53-58, 127-129, 171-175).
ImplementsProfiles == Profiles!Spec
=============================================================================
