------------------------- MODULE MemoryProfileProofs -------------------------
(***************************************************************************)
(* Theorems about MemoryProfile and MemoryScope, for any items, maps,      *)
(* names and foreign entries: getters and setters implement ItemProfiles,  *)
(* and Matches orders the scopes.                                          *)
(***************************************************************************)
EXTENDS MemoryProfile, TLAPS

\* Named types stay where they belong, which a getter relies on: JSON would make
\* a text of any other.
Belongs(k, val) == Fits(k, val) /\ (k \in OwnKey => val.type = "other")
Maps == {m \in Metadata : \A k \in DOMAIN m : Belongs(k, m[k])}

TypeInv == /\ metadata \in [Holder -> Addr \union {Nil}]
           /\ heap \in [Addr -> Maps]

(***************************************************************************)
(* Maps.                                                                   *)
(***************************************************************************)
OwnPart(m) == [k \in DOMAIN m \ Reserved |-> m[k]]
OwnEntries == UNION { [D -> Value] : D \in SUBSET OwnKey }

LEMMA MapForm == \A m : m \in Metadata <=> /\ m = [k \in DOMAIN m |-> m[k]]
                                           /\ DOMAIN m \subseteq Reserved \union OwnKey
                                           /\ \A k \in DOMAIN m : m[k] \in Value
BY DEF Metadata

LEMMA NoEntriesType == NoEntries \in Maps
BY DEF NoEntries, Metadata, Maps

LEMMA EntriesType ==
  ASSUME TypeInv, NEW h \in Holder
  PROVE  Entries(h) \in Maps
BY NoEntriesType DEF TypeInv, Entries

LEMMA PutType ==
  ASSUME NEW m \in Maps, NEW k \in Reserved \union OwnKey, NEW val \in Value,
         Belongs(k, val)
  PROVE  Put(m, k, val.type, val.v) \in Maps
<1>1. [type |-> val.type, v |-> val.v] = val
  BY DEF Value
<1> DEFINE q == Put(m, k, val.type, val.v)
<1>2. q = [x \in DOMAIN m \union {k} |-> IF x = k THEN val ELSE m[x]]
  BY <1>1 DEF Put
<1>3. /\ DOMAIN m \subseteq Reserved \union OwnKey
      /\ \A x \in DOMAIN m : m[x] \in Value
      /\ \A x \in DOMAIN m : Belongs(x, m[x])
  BY MapForm DEF Maps
<1> HIDE DEF q
<1>4. q \in [DOMAIN m \union {k} -> Value]
  BY <1>2, <1>3
<1>5. q \in Metadata
  BY <1>3, <1>4 DEF Metadata
<1>6. \A x \in DOMAIN q : Belongs(x, q[x])
  BY <1>2, <1>3
<1> QED BY <1>5, <1>6 DEF q, Maps

LEMMA DeleteType ==
  ASSUME NEW m \in Maps, NEW k
  PROVE  Delete(m, k) \in Maps
<1>1. /\ DOMAIN m \subseteq Reserved \union OwnKey
      /\ \A x \in DOMAIN m : m[x] \in Value
      /\ \A x \in DOMAIN m : Belongs(x, m[x])
  BY MapForm DEF Maps
<1>2. Delete(m, k) \in [DOMAIN m \ {k} -> Value]
  BY <1>1 DEF Delete
<1>3. Delete(m, k) \in Metadata
  BY <1>1, <1>2 DEF Metadata
<1>4. \A x \in DOMAIN Delete(m, k) : Belongs(x, Delete(m, k)[x])
  BY <1>1 DEF Delete
<1> QED BY <1>3, <1>4 DEF Maps

\* What the owners added is read off apart from the profile.
LEMMA OwnPartType == ASSUME NEW m \in Metadata PROVE OwnPart(m) \in OwnEntries
<1>1. /\ DOMAIN m \subseteq Reserved \union OwnKey
      /\ \A x \in DOMAIN m : m[x] \in Value
  BY MapForm
<1>2. OwnPart(m) \in [DOMAIN m \ Reserved -> Value] /\ DOMAIN m \ Reserved \in SUBSET OwnKey
  BY <1>1 DEF OwnPart
<1> QED BY <1>2 DEF OwnEntries

LEMMA OwnPartKept ==
  ASSUME NEW m, NEW k \in Reserved, NEW type, NEW v
  PROVE  OwnPart(Put(m, k, type, v)) = OwnPart(m) /\ OwnPart(Delete(m, k)) = OwnPart(m)
BY DEF OwnPart, Put, Delete

\* One field of a profile and the key it is kept under.
Keeps(m, n, f) == \A g \in {"source", "category", "pinned", "disabled"} \ {f} :
                     ProfileOf(n)[g] = ProfileOf(m)[g]

LEMMA OneField ==
  ASSUME NEW m, NEW n, NEW f \in {"source", "category", "pinned", "disabled"}, Keeps(m, n, f)
  PROVE  ProfileOf(n) = [ProfileOf(m) EXCEPT ![f] = ProfileOf(n)[f]]
BY DEF Keeps, ProfileOf

FieldKey == [source |-> "_source", category |-> "_category",
             pinned |-> "_pinned", disabled |-> "_disabled"]

LEMMA PutKeeps ==
  ASSUME NEW m, NEW f \in DOMAIN FieldKey, NEW type, NEW v
  PROVE  /\ Keeps(m, Put(m, FieldKey[f], type, v), f)
         /\ Keeps(m, Delete(m, FieldKey[f]), f)
<1>1. CASE f = "source"
  BY <1>1 DEF Keeps, ProfileOf, FieldKey, GetSource, GetCategory, IsPinned, IsDisabled, Put, Delete
<1>2. CASE f = "category"
  BY <1>2 DEF Keeps, ProfileOf, FieldKey, GetSource, GetCategory, IsPinned, IsDisabled, Put, Delete
<1>3. CASE f = "pinned"
  BY <1>3 DEF Keeps, ProfileOf, FieldKey, GetSource, GetCategory, IsPinned, IsDisabled, Put, Delete
<1>4. CASE f = "disabled"
  BY <1>4 DEF Keeps, ProfileOf, FieldKey, GetSource, GetCategory, IsPinned, IsDisabled, Put, Delete
<1> QED BY <1>1, <1>2, <1>3, <1>4 DEF FieldKey

\* A getter returns a value of its field, whatever is stored.
LEMMA ProfileType ==
  ASSUME NEW m \in Metadata
  PROVE  /\ GetSource(m) \in Text /\ GetCategory(m) \in Text
         /\ IsPinned(m) \in BOOLEAN /\ IsDisabled(m) \in BOOLEAN
<1>1. \A k \in DOMAIN m : m[k] \in Value
  BY MapForm
<1>2. \A val \in Value : /\ val.type \in {"Source", "Category", "string"} => val.v \in Text
                         /\ val.type = "bool" => val.v \in BOOLEAN
  BY DEF Value
<1>3. GetSource(m) \in Text
  BY <1>1, <1>2 DEF GetSource, Text
<1>4. GetCategory(m) \in Text
  BY <1>1, <1>2 DEF GetCategory, Text
<1>5. IsPinned(m) \in BOOLEAN /\ IsDisabled(m) \in BOOLEAN
  BY <1>1, <1>2 DEF IsPinned, IsDisabled
<1> QED BY <1>3, <1>4, <1>5

(***************************************************************************)
(* What storing does to the items.                                         *)
(***************************************************************************)
With(h) == IF metadata[h] = Nil THEN {h} ELSE {k \in Holder : metadata[k] = metadata[h]}

LEMMA NewMapEffect ==
  ASSUME TypeInv, NEW h \in Holder, NEW m \in Maps, NewMap(h, m)
  PROVE  /\ TypeInv'
         /\ \E a \in Addr : Fresh(a) /\ metadata' = [metadata EXCEPT ![h] = a]
         /\ \A k \in Holder : Entries(k)' = IF k = h THEN m ELSE Entries(k)
<1>1. PICK a \in Addr : /\ Fresh(a)
                        /\ metadata' = [metadata EXCEPT ![h] = a]
                        /\ heap' = [heap EXCEPT ![a] = m]
  BY DEF NewMap
<1>2. TypeInv'
  BY <1>1 DEF TypeInv
<1>3. Entries(h)' = m
  BY <1>1, MemoryAssumption DEF TypeInv, Entries
<1>4. ASSUME NEW k \in Holder, k # h PROVE Entries(k)' = Entries(k)
  BY <1>1, <1>4 DEF TypeInv, Entries, Fresh
<1> QED BY <1>1, <1>2, <1>3, <1>4

LEMMA StoreEffect ==
  ASSUME TypeInv, NEW h \in Holder, NEW m \in Maps, Store(h, m)
  PROVE  /\ TypeInv'
         /\ Profiles!Grouped(h)
         /\ \A k \in Holder : Entries(k)' = IF k \in With(h) THEN m ELSE Entries(k)
<1>1. CASE metadata[h] = Nil
  BY <1>1, NewMapEffect DEF Store, With, Profiles!Grouped, Profiles!Unused, Fresh
<1>2. CASE metadata[h] # Nil
  <2>1. heap' = [heap EXCEPT ![metadata[h]] = m] /\ UNCHANGED metadata
    BY <1>2 DEF Store
  <2> QED BY <1>2, <2>1 DEF TypeInv, With, Entries, Profiles!Grouped
<1> QED BY <1>1, <1>2

LEMMA WithSame ==
  ASSUME NEW h \in Holder, NEW k \in With(h)
  PROVE  k \in Holder /\ Entries(k) = Entries(h)
BY DEF With, Entries

(***************************************************************************)
(* Every operation is one of the abstract ones.                            *)
(***************************************************************************)
LEMMA AssignStep ==
  ASSUME TypeInv, NEW h \in Holder, NEW m \in Maps, Store(h, m),
         NEW f \in DOMAIN FieldKey, Keeps(Entries(h), m, f), OwnPart(m) = OwnPart(Entries(h))
  PROVE  TypeInv' /\ Profiles!Next
<1> DEFINE x == ProfileOf(m)[f]
           Values == [source |-> Text, category |-> Text, pinned |-> BOOLEAN, disabled |-> BOOLEAN]
<1>1. f \in {"source", "category", "pinned", "disabled"}
  BY DEF FieldKey
<1>2. x \in Values[f]
  BY <1>1, ProfileType DEF ProfileOf, Maps
<1>3. ProfileOf(m) = [ProfileOf(Entries(h)) EXCEPT ![f] = x]
  BY <1>1, OneField
<1> HIDE DEF x
<1>4. /\ TypeInv' /\ Profiles!Grouped(h)
      /\ \A k \in Holder : Entries(k)' = IF k \in With(h) THEN m ELSE Entries(k)
  BY StoreEffect
<1>5. ASSUME NEW k \in Holder
      PROVE  /\ ProfileOf(Entries(k))' = IF k \in With(h)
                                          THEN [ProfileOf(Entries(k)) EXCEPT ![f] = x]
                                          ELSE ProfileOf(Entries(k))
             /\ OwnPart(Entries(k))' = OwnPart(Entries(k))
  <2>1. CASE k \in With(h)
    <3>1. Entries(k)' = m /\ Entries(k) = Entries(h)
      BY <1>4, <2>1, WithSame
    <3>2. ProfileOf(Entries(k)') = ProfileOf(m) /\ OwnPart(Entries(k)') = OwnPart(m)
      BY <3>1
    <3> QED BY <1>3, <2>1, <3>1, <3>2
            DEF ProfileOf, GetSource, GetCategory, IsPinned, IsDisabled, OwnPart
  <2>2. CASE k \notin With(h)
    <3>1. Entries(k)' = Entries(k)
      BY <1>4, <2>2
    <3> QED BY <2>2, <3>1 DEF ProfileOf, GetSource, GetCategory, IsPinned, IsDisabled, OwnPart
  <2> QED BY <2>1, <2>2
<1>6. Profiles!Assign(h, f, x)
  BY <1>4, <1>5 DEF Profiles!Assign, Profiles!With, With, OwnPart
<1> QED BY <1>1, <1>2, <1>4, <1>6 DEF Profiles!Next, Unset

LEMMA AnnotateStep ==
  ASSUME TypeInv, NEW h \in Holder, NEW m \in Maps, Store(h, m),
         ProfileOf(m) = ProfileOf(Entries(h))
  PROVE  TypeInv' /\ Profiles!Next
<1>1. OwnPart(m) \in OwnEntries
  BY OwnPartType DEF Maps
<1>2. /\ TypeInv' /\ Profiles!Grouped(h)
      /\ \A k \in Holder : Entries(k)' = IF k \in With(h) THEN m ELSE Entries(k)
  BY StoreEffect
<1>3. ASSUME NEW k \in Holder
      PROVE  /\ ProfileOf(Entries(k))' = ProfileOf(Entries(k))
             /\ OwnPart(Entries(k))' = IF k \in With(h) THEN OwnPart(m) ELSE OwnPart(Entries(k))
  <2>1. CASE k \in With(h)
    <3>1. Entries(k)' = m /\ Entries(k) = Entries(h)
      BY <1>2, <2>1, WithSame
    <3>2. ProfileOf(Entries(k)') = ProfileOf(m) /\ OwnPart(Entries(k)') = OwnPart(m)
      BY <3>1
    <3> QED BY <2>1, <3>1, <3>2
            DEF ProfileOf, GetSource, GetCategory, IsPinned, IsDisabled, OwnPart
  <2>2. CASE k \notin With(h)
    <3>1. Entries(k)' = Entries(k)
      BY <1>2, <2>2
    <3> QED BY <2>2, <3>1 DEF ProfileOf, GetSource, GetCategory, IsPinned, IsDisabled, OwnPart
  <2> QED BY <2>1, <2>2
<1>4. Profiles!Annotate(h, OwnPart(m))
  BY <1>2, <1>3 DEF Profiles!Annotate, Profiles!With, With, OwnPart
<1> QED BY <1>1, <1>2, <1>4 DEF Profiles!Next, OwnEntries

\* JSON loses nothing a getter can see.
LEMMA DecodedSame ==
  ASSUME NEW m \in Maps
  PROVE  /\ [k \in DOMAIN m |-> Decoded(m[k])] \in Maps
         /\ ProfileOf([k \in DOMAIN m |-> Decoded(m[k])]) = ProfileOf(m)
         /\ OwnPart([k \in DOMAIN m |-> Decoded(m[k])]) = OwnPart(m)
<1> DEFINE n == [k \in DOMAIN m |-> Decoded(m[k])]
<1>1. /\ DOMAIN m \subseteq Reserved \union OwnKey
      /\ \A k \in DOMAIN m : m[k] \in Value
      /\ \A k \in DOMAIN m : Belongs(k, m[k])
  BY MapForm DEF Maps
<1>2. ASSUME NEW val \in Value
      PROVE  /\ Decoded(val) \in Value
             /\ Decoded(val).v = val.v
             /\ val.type \in {"Source", "Category"} => Decoded(val).type = "string"
             /\ val.type \notin {"Source", "Category"} => Decoded(val) = val
  BY DEF Decoded, Value
<1>3. DOMAIN n = DOMAIN m /\ \A k \in DOMAIN m : n[k] = Decoded(m[k])
  OBVIOUS
<1>4. n \in [DOMAIN m -> Value]
  BY <1>1, <1>2
<1> HIDE DEF n
<1>5. n \in Maps
  BY <1>1, <1>2, <1>3, <1>4 DEF Maps, Metadata, Belongs, Fits
<1>6. OwnPart(n) = OwnPart(m)
  BY <1>1, <1>2, <1>3 DEF OwnPart, Belongs
<1>7. GetSource(n) = GetSource(m)
  <2>1. "_source" \in DOMAIN m => m["_source"].type # "Category"
    BY <1>1 DEF Belongs, Fits
  <2> QED BY <1>1, <1>2, <1>3, <2>1 DEF GetSource
<1>8. GetCategory(n) = GetCategory(m)
  <2>1. "_category" \in DOMAIN m => m["_category"].type # "Source"
    BY <1>1 DEF Belongs, Fits
  <2> QED BY <1>1, <1>2, <1>3, <2>1 DEF GetCategory
<1>9. IsPinned(n) = IsPinned(m) /\ IsDisabled(n) = IsDisabled(m)
  BY <1>1, <1>2, <1>3 DEF IsPinned, IsDisabled
<1> QED BY <1>5, <1>6, <1>7, <1>8, <1>9 DEF n, ProfileOf

LEMMA ReloadStep ==
  ASSUME TypeInv, NEW h \in Holder, Reload(h)
  PROVE  TypeInv' /\ [Profiles!Next]_Profiles!vars
<1> DEFINE n == [k \in DOMAIN Entries(h) |-> Decoded(Entries(h)[k])]
<1>1. CASE metadata[h] = Nil
  BY <1>1, MemoryAssumption DEF Reload, TypeInv, vars, Profiles!Reload, Profiles!Next, Profiles!vars,
                                Entries
<1>2. CASE metadata[h] # Nil
  <2>1. /\ n \in Maps /\ ProfileOf(n) = ProfileOf(Entries(h))
        /\ OwnPart(n) = OwnPart(Entries(h))
    BY EntriesType, DecodedSame
  <2>2. NewMap(h, n)
    BY <1>2 DEF Reload
  <2> HIDE DEF n
  <2>3. /\ TypeInv'
        /\ \E a \in Addr : Fresh(a) /\ metadata' = [metadata EXCEPT ![h] = a]
        /\ \A k \in Holder : Entries(k)' = IF k = h THEN n ELSE Entries(k)
    BY <2>1, <2>2, NewMapEffect
  <2>4. ASSUME NEW k \in Holder
        PROVE  /\ ProfileOf(Entries(k))' = ProfileOf(Entries(k))
               /\ OwnPart(Entries(k))' = OwnPart(Entries(k))
    <3>1. ProfileOf(Entries(k)') = ProfileOf(Entries(k)) /\ OwnPart(Entries(k)') = OwnPart(Entries(k))
      BY <2>1, <2>3
    <3> QED BY <3>1 DEF ProfileOf, GetSource, GetCategory, IsPinned, IsDisabled, OwnPart
  <2>5. Profiles!Reload(h)
    BY <1>2, <2>3, <2>4 DEF Profiles!Reload, Profiles!Unused, Fresh, OwnPart
  <2> QED BY <2>3, <2>5 DEF Profiles!Next
<1> QED BY <1>1, <1>2

LEMMA CopyStep ==
  ASSUME TypeInv, NEW h \in Holder, NEW k \in Holder, Copy(h, k)
  PROVE  TypeInv' /\ Profiles!Next
<1>1. metadata' = [metadata EXCEPT ![k] = metadata[h]] /\ UNCHANGED heap
  BY DEF Copy
<1>2. TypeInv'
  BY <1>1 DEF TypeInv
<1>3. ASSUME NEW j \in Holder PROVE Entries(j)' = IF j = k THEN Entries(h) ELSE Entries(j)
  BY <1>1 DEF TypeInv, Entries
<1>4. ASSUME NEW j \in Holder
      PROVE  /\ ProfileOf(Entries(j))' = IF j = k THEN ProfileOf(Entries(h)) ELSE ProfileOf(Entries(j))
             /\ OwnPart(Entries(j))' = IF j = k THEN OwnPart(Entries(h)) ELSE OwnPart(Entries(j))
  BY <1>3 DEF ProfileOf, GetSource, GetCategory, IsPinned, IsDisabled, OwnPart
<1>5. Profiles!Copy(h, k)
  BY <1>1, <1>4 DEF Profiles!Copy, OwnPart
<1> QED BY <1>2, <1>5 DEF Profiles!Next

\* A reserved key written or removed by Store is a field assigned.
LEMMA ReservedStep ==
  ASSUME TypeInv, NEW h \in Holder, NEW f \in DOMAIN FieldKey, NEW m,
         Store(h, m),
         \/ m = Delete(Entries(h), FieldKey[f])
         \/ \E val \in Value : Fits(FieldKey[f], val) /\ m = Put(Entries(h), FieldKey[f], val.type, val.v)
  PROVE  TypeInv' /\ Profiles!Next
<1>1. Entries(h) \in Maps /\ FieldKey[f] \in Reserved /\ FieldKey[f] \notin OwnKey
  BY EntriesType, MemoryAssumption DEF FieldKey, Reserved
<1>2. m \in Maps
  BY <1>1, PutType, DeleteType DEF Belongs
<1>3. Keeps(Entries(h), m, f)
  BY PutKeeps
<1>4. OwnPart(m) = OwnPart(Entries(h))
  <2>1. CASE m = Delete(Entries(h), FieldKey[f])
    BY <1>1, <2>1, OwnPartKept
  <2>2. ASSUME NEW val \in Value, m = Put(Entries(h), FieldKey[f], val.type, val.v)
        PROVE  OwnPart(m) = OwnPart(Entries(h))
    BY <1>1, <2>2, OwnPartKept
  <2> QED BY <2>1, <2>2
<1> QED BY <1>2, <1>3, <1>4, AssignStep

LEMMA OwnStep ==
  ASSUME TypeInv, NEW h \in Holder, NEW k \in OwnKey, NEW v \in OwnValue, WriteOwn(h, k, v)
  PROVE  TypeInv' /\ Profiles!Next
<1> DEFINE val == [type |-> "other", v |-> v]
           m == Put(Entries(h), k, val.type, val.v)
<1>1. Entries(h) \in Maps /\ val \in Value /\ val.type = "other"
  BY EntriesType DEF Value
<1>2. m \in Maps
  BY <1>1, PutType DEF Belongs, Fits
<1>3. k \notin Reserved
  BY MemoryAssumption
<1>4. ProfileOf(m) = ProfileOf(Entries(h))
  BY <1>3 DEF ProfileOf, GetSource, GetCategory, IsPinned, IsDisabled, Put, Reserved
<1>5. Store(h, m)
  BY DEF WriteOwn
<1> HIDE DEF m
<1> QED BY <1>2, <1>4, <1>5, AnnotateStep

LEMMA RefinementStep ==
  ASSUME TypeInv, [Next]_vars
  PROVE  TypeInv' /\ [Profiles!Next]_Profiles!vars
<1>1. ASSUME NEW h \in Holder, NEW src \in Source \union {Empty}, SetSource(h, src)
      PROVE  TypeInv' /\ Profiles!Next
  <2> DEFINE val == [type |-> "string", v |-> src]
  <2>1. val \in Value /\ Fits("_source", val)
    BY DEF Value, Text, Fits
  <2>2. "source" \in DOMAIN FieldKey /\ FieldKey["source"] = "_source"
    BY DEF FieldKey
  <2>3. Put(Entries(h), "_source", "string", src) = Put(Entries(h), "_source", val.type, val.v)
    OBVIOUS
  <2> HIDE DEF val
  <2> QED BY <1>1, <2>1, <2>2, <2>3, ReservedStep DEF SetSource
<1>2. ASSUME NEW h \in Holder, NEW cat \in Category \union {Empty}, SetCategory(h, cat)
      PROVE  TypeInv' /\ Profiles!Next
  <2> DEFINE val == [type |-> "string", v |-> cat]
  <2>1. val \in Value /\ Fits("_category", val)
    BY DEF Value, Text, Fits
  <2>2. "category" \in DOMAIN FieldKey /\ FieldKey["category"] = "_category"
    BY DEF FieldKey
  <2>3. Put(Entries(h), "_category", "string", cat) = Put(Entries(h), "_category", val.type, val.v)
    OBVIOUS
  <2> HIDE DEF val
  <2> QED BY <1>2, <2>1, <2>2, <2>3, ReservedStep DEF SetCategory
<1>3. ASSUME NEW h \in Holder, NEW b \in BOOLEAN, SetPinned(h, b) \/ SetDisabled(h, b)
      PROVE  TypeInv' /\ Profiles!Next
  <2> DEFINE val == [type |-> "bool", v |-> TRUE]
  <2>1. val \in Value /\ \A k : Fits(k, val)
    BY DEF Value, Fits
  <2>2. /\ "pinned" \in DOMAIN FieldKey /\ FieldKey["pinned"] = "_pinned"
        /\ "disabled" \in DOMAIN FieldKey /\ FieldKey["disabled"] = "_disabled"
    BY DEF FieldKey
  <2>3. \A k : Put(Entries(h), k, "bool", TRUE) = Put(Entries(h), k, val.type, val.v)
    OBVIOUS
  <2> HIDE DEF val
  <2>4. CASE SetPinned(h, b)
    BY <2>1, <2>2, <2>3, <2>4, ReservedStep DEF SetPinned
  <2>5. CASE SetDisabled(h, b)
    BY <2>1, <2>2, <2>3, <2>5, ReservedStep DEF SetDisabled
  <2> QED BY <1>3, <2>4, <2>5
<1>4. ASSUME NEW h \in Holder, NEW e \in Foreign, WriteForeign(h, e[1], e[2])
      PROVE  TypeInv' /\ Profiles!Next
  <2>1. e[1] \in Reserved /\ e[2] \in Value /\ Fits(e[1], e[2])
    BY MemoryAssumption
  <2>2. PICK f \in DOMAIN FieldKey : FieldKey[f] = e[1]
    BY <2>1 DEF FieldKey, Reserved
  <2> QED BY <1>4, <2>1, <2>2, ReservedStep DEF WriteForeign
<1>5. CASE UNCHANGED vars
  BY <1>5 DEF vars, TypeInv, Profiles!vars, Entries
<1> QED BY <1>1, <1>2, <1>3, <1>4, <1>5, OwnStep, CopyStep, ReloadStep DEF Next

\* Whatever was written by whom and in which type, whoever copied whose item and
\* whichever item went through JSON: getters and setters behave as if an item
\* had four fields, shared by those copied from one another.
THEOREM ProfilesImplemented == Spec => ImplementsProfiles
<1>1. Init => TypeInv
  BY NoEntriesType DEF Init, TypeInv
<1>2. Init => Profiles!Init
  BY DEF Init, Profiles!Init, Entries, NoEntries, ProfileOf, Unset, GetSource, GetCategory,
         IsPinned, IsDisabled
<1>3. TypeInv /\ [Next]_vars => TypeInv' /\ [Profiles!Next]_Profiles!vars
  BY RefinementStep
<1> QED BY <1>1, <1>2, <1>3, PTL DEF Spec, ImplementsProfiles, Profiles!Spec

(***************************************************************************)
(* Scopes.                                                                 *)
(***************************************************************************)
\* Whatever the names: as filters, scopes are ordered by what they select.
THEOREM ScopeOrder == SelectionIsOrder
BY DEF SelectionIsOrder, Scope, Matches, IsZero, Equal
=============================================================================
