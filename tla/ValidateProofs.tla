----------------------------- MODULE ValidateProofs -----------------------------
(***************************************************************************)
(* For any names and any APIs over them: the rules accept only what lowers,*)
(* reject only for a reason, and the two searches compute the closures that*)
(* they stand for.                                                         *)
(***************************************************************************)
EXTENDS Validate, FiniteSetTheorems, WellFoundedInduction, TLAPS

-----------------------------------------------------------------------------
(* Types.                                                                  *)

LEMMA PartsOfType ==
  ASSUME NEW t, IsType(t)
  PROVE  /\ t \in Seq(Parts) /\ Len(t) \in Nat /\ 1 \in 1..Len(t)
         /\ walk(t) \subseteq Parts
         /\ NamesIn(t) \subseteq Names
<1>1. t \in Seq(Parts) /\ Len(t) \in Nat /\ 1 \in 1..Len(t)
  BY DEF IsType
<1>2. walk(t) \subseteq Parts
  BY <1>1 DEF walk
<1>3. \A p \in Parts : p.is = "named" => p.name \in Names
  BY DEF Parts, Prim, Named, Constructor
<1> QED
  BY <1>1, <1>2, <1>3 DEF NamesIn

(* Where no map is, only the last part is a leaf.                          *)
LEMMA Linear ==
  ASSUME NEW t, IsType(t), \A i \in 1..Len(t) : t[i].is # "map"
  PROVE  \A i \in 1..Len(t) : (t[i].is \in {"prim", "named"}) = (i = Len(t))
<1> DEFINE Maps(i) == {j \in 1..i : t[j].is = "map"}
           Leaves(i) == {j \in 1..i : t[j].is \in {"prim", "named"}}
<1>1. Len(t) \in Nat /\ Len(t) > 0
  BY DEF IsType
<1>2. ASSUME NEW i \in 0..Len(t)
      PROVE  /\ Cardinality(Maps(i)) = 0
             /\ IsFiniteSet(Leaves(i)) /\ Cardinality(Leaves(i)) \in Nat
  <2>1. Maps(i) = {}
    BY <1>1
  <2>2. IsFiniteSet(1..i)
    <3>1. 1 \in Int /\ i \in Int
      BY <1>1
    <3> QED
      BY <3>1, FS_Interval
  <2>3. IsFiniteSet(Leaves(i))
    BY <2>2, FS_Subset
  <2> QED
    BY <2>1, <2>3, FS_EmptySet, FS_CardinalityType
<1>3. ASSUME NEW i \in 1..Len(t)
      PROVE  Open(t, i) = 1 - Cardinality(Leaves(i))
  <2>1. Open(t, i) = 1 + Cardinality(Maps(i)) - Cardinality(Leaves(i))
    BY DEF Open
  <2>2. i \in 0..Len(t)
    BY <1>1
  <2> HIDE DEF Maps, Leaves
  <2> QED
    BY <1>2, <2>1, <2>2
<1>4. \A i \in 1..(Len(t) - 1) : Leaves(i) = {}
  <2> TAKE i \in 1..(Len(t) - 1)
  <2>1. i \in 1..Len(t) /\ i \in 0..Len(t)
    BY <1>1
  <2>2. Open(t, i) > 0
    BY DEF IsType
  <2> HIDE DEF Leaves
  <2>3. Cardinality(Leaves(i)) \in Nat
    BY <1>2, <2>1
  <2>4. 1 - Cardinality(Leaves(i)) > 0
    BY <1>3, <2>1, <2>2
  <2>5. Cardinality(Leaves(i)) = 0
    BY <2>3, <2>4
  <2> QED
    BY <1>2, <2>1, <2>5, FS_EmptySet
<1>5. Leaves(Len(t)) # {}
  <2>1. Len(t) \in 1..Len(t) /\ Open(t, Len(t)) = 0
    BY <1>1 DEF IsType
  <2> HIDE DEF Leaves
  <2>2. Cardinality(Leaves(Len(t))) # 0
    BY <1>1, <1>2, <1>3, <2>1
  <2> QED
    BY <2>2, FS_EmptySet
<1>6. ASSUME NEW i \in 1..Len(t), i # Len(t)
      PROVE  t[i].is \notin {"prim", "named"}
  <2>1. i \in 1..(Len(t) - 1) /\ i \in 1..i
    BY <1>1, <1>6
  <2> QED
    BY <1>4, <2>1
<1>7. t[Len(t)].is \in {"prim", "named"}
  BY <1>1, <1>5, <1>6
<1> QED
  BY <1>6, <1>7

-----------------------------------------------------------------------------
(* The edges that check_recursion follows are the fields held by value.    *)

LEMMA UnwrappedIs ==
  ASSUME NEW t, IsType(t)
  PROVE  \E k \in 1..Len(t) : /\ Unwrapped(t) = SubSeq(t, k, Len(t))
                              /\ t[k].is # "opt"
                              /\ \A j \in 1..(k - 1) : t[j].is = "opt"
<1> DEFINE First(i) == t[i].is # "opt" /\ \A j \in 1..(i - 1) : t[j].is = "opt"
           k == CHOOSE i \in 1..Len(t) : First(i)
           Wraps == {i \in 1..Len(t) : t[i].is # "opt"}
<1>1. Len(t) \in 1..Len(t) /\ Wraps \subseteq Nat
  BY DEF IsType
<1>2. Wraps # {}
  <2>1. SUFFICES ASSUME Wraps = {}
                 PROVE  FALSE
    OBVIOUS
  <2>2. \A i \in 1..Len(t) : t[i].is = "opt"
    BY <2>1
  <2> QED
    BY <1>1, <2>2, Linear
<1>3. PICK i \in Wraps : \A j \in Wraps : ~(j < i)
  <2> DEFINE Less == {p \in Nat \X Nat : p[1] < p[2]}
  <2>1. IsWellFoundedOn(Less, Nat)
    BY NatLessThanWellFounded DEF OpToRel
  <2>2. \E i \in Wraps : \A j \in Wraps : <<j, i>> \notin Less
    <3> HIDE DEF Wraps, Less
    <3> QED
      BY <1>1, <1>2, <2>1, WFMin
  <2> QED
    BY <1>1, <2>2
<1>4. First(i)
  <2>1. ASSUME NEW j \in 1..(i - 1)
        PROVE  j \in 1..Len(t) /\ j < i
    BY <1>1
  <2> QED
    BY <1>3, <2>1
<1>5. k \in 1..Len(t) /\ First(k)
  BY <1>4
<1> QED
  BY <1>5 DEF Unwrapped

LEMMA Edges ==
  ASSUME IsApi(api), NEW n \in Names, NEW m
  PROVE  m \in EdgesOf(n) <=> m \in Names /\ HoldsByValue(n, m)
<1>1. ASSUME m \in EdgesOf(n)
      PROVE  m \in Names /\ HoldsByValue(n, m)
  <2>1. PICK t \in api.fields[n] :
          IsA(Unwrapped(t), HoldsFields) /\ m = Unwrapped(t)[1].name /\ n \in Holders
    BY <1>1 DEF EdgesOf, Held
  <2>2. IsType(t)
    BY DEF IsApi
  <2>3. PICK k \in 1..Len(t) : /\ Unwrapped(t) = SubSeq(t, k, Len(t))
                               /\ \A j \in 1..(k - 1) : t[j].is = "opt"
    BY <2>2, UnwrappedIs
  <2>4. Len(SubSeq(t, k, Len(t))) = 1 /\ SubSeq(t, k, Len(t))[1] = t[k]
    <3>1. Len(SubSeq(t, k, Len(t))) = 1
      BY <2>1, <2>3 DEF IsA
    <3> QED
      BY <2>2, <3>1 DEF IsType
  <2>5. k = Len(t)
    BY <2>2, <2>4 DEF IsType
  <2>6. m = t[k].name /\ t[k].is = "named" /\ KindOf(m) \in HoldsFields
    BY <2>1, <2>3, <2>4 DEF IsA, Is
  <2>7. t[k] \in walk(t) /\ m \in NamesIn(t)
    BY <2>6 DEF walk, NamesIn
  <2>8. \A p \in walk(t) : p.is \in {"opt", "named"}
    <3>1. ASSUME NEW j \in 1..Len(t)
          PROVE  j = k \/ j \in 1..(k - 1)
      BY <2>2, <2>5 DEF IsType
    <3> QED
      BY <2>3, <2>6, <3>1 DEF walk
  <2> QED
    BY <2>1, <2>2, <2>6, <2>7, <2>8, PartsOfType DEF HoldsByValue, Holders
<1>2. ASSUME m \in Names, HoldsByValue(n, m)
      PROVE  m \in EdgesOf(n)
  <2>1. PICK t \in api.fields[n] : m \in NamesIn(t) /\ \A p \in walk(t) : p.is \in {"opt", "named"}
    BY <1>2 DEF HoldsByValue
  <2>2. IsType(t)
    BY DEF IsApi
  <2>3. PICK k \in 1..Len(t) : t[k].is = "named" /\ m = t[k].name
    BY <2>1 DEF NamesIn, walk
  <2>4. \A i \in 1..Len(t) : t[i].is \in {"opt", "named"} /\ (t[i].is = "named" <=> i = Len(t))
    <3>1. \A i \in 1..Len(t) : t[i].is \in {"opt", "named"}
      BY <2>1 DEF walk
    <3>2. \A i \in 1..Len(t) : (t[i].is \in {"prim", "named"}) = (i = Len(t))
      BY <2>2, <3>1, Linear
    <3> QED
      BY <3>1, <3>2
  <2>5. PICK l \in 1..Len(t) : Unwrapped(t) = SubSeq(t, l, Len(t)) /\ t[l].is # "opt"
    BY <2>2, UnwrappedIs
  <2>6. l = Len(t) /\ k = Len(t)
    BY <2>3, <2>4, <2>5
  <2>7. Len(Unwrapped(t)) = 1 /\ Unwrapped(t)[1] = t[k]
    BY <2>2, <2>5, <2>6 DEF IsType
  <2>8. IsA(Unwrapped(t), HoldsFields) /\ n \in Holders
    BY <1>2, <2>3, <2>7 DEF IsA, Is, HoldsByValue, Holders
  <2> QED
    BY <2>3, <2>7, <2>8 DEF EdgesOf, Held
<1> QED
  BY <1>1, <1>2

-----------------------------------------------------------------------------
(* The rules.                                                              *)

(* What a type without an iterator needs to lower, its rules require.      *)
LEMMA RulesRequire ==
  ASSUME IsApi(api), NEW t, IsType(t), NEW u, walk(u) \subseteq walk(t),
         ~contains_iterator(u), type_ref(t) = {}, no_callback_interface(t) = {}
  PROVE  value(u)
<1> SUFFICES ASSUME NEW p \in walk(u)
             PROVE  /\ p.is # "iter"
                    /\ p.is = "named" => KindOf(p.name) \in HoldsFields \cup {"enum", "interface"}
  BY DEF value
<1>1. p.is # "iter"
  BY DEF contains_iterator
<1>2. ASSUME p.is = "named"
      PROVE  KindOf(p.name) \in HoldsFields \cup {"enum", "interface"}
  <2>1. p.name \in NamesIn(t)
    BY <1>2 DEF NamesIn
  <2>2. KindOf(p.name) \in Kinds
    BY <2>1, PartsOfType DEF KindOf, IsApi
  <2>3. KindOf(p.name) # "error domain" /\ KindOf(p.name) # "none"
    BY <2>1 DEF type_ref
  <2>4. KindOf(p.name) # "callback interface"
    BY <2>1 DEF no_callback_interface
  <2> QED
    BY <2>2, <2>3, <2>4 DEF Kinds, HoldsFields
<1> QED
  BY <1>1, <1>2

(* Of a type whose names and keys are good, the rules report nothing.      *)
LEMMA RulesReport ==
  ASSUME NEW t, \A k \in Keys(t) : is_map_key(k),
         \A n \in NamesIn(t) : KindOf(n) \notin {"error domain", "none"}
  PROVE  /\ type_ref(t) = {}
         /\ interface_positions(t) = {}
BY DEF type_ref, interface_positions, is_map_key

LEMMA LoweredTypes ==
  ASSUME NEW t, value(t)
  PROVE  /\ ~contains_iterator(t)
         /\ \A n \in NamesIn(t) : KindOf(n) \notin {"error domain", "none"}
         /\ no_callback_interface(t) = {}
<1>1. ~contains_iterator(t)
  BY DEF value, contains_iterator
<1>2. \A n \in NamesIn(t) : KindOf(n) \in HoldsFields \cup {"enum", "interface"}
  BY DEF value, NamesIn
<1> QED
  BY <1>1, <1>2 DEF no_callback_interface, HoldsFields

LEMMA ItemOfType ==
  ASSUME NEW t, IsType(t)
  PROVE  /\ walk(Item(t)) \subseteq walk(t)
         /\ walk(t) \subseteq walk(Item(t)) \cup {t[1]}
         /\ t[1] \in walk(t)
         /\ ~Is(t, "iter") => Item(t) = t
<1>1. t \in Seq(Parts) /\ Len(t) \in Nat /\ Len(t) > 0
  BY DEF IsType
<1>2. \A i \in 1..Len(Tail(t)) : i + 1 \in 1..Len(t) /\ Tail(t)[i] = t[i + 1]
  BY <1>1
<1>3. \A i \in 1..Len(t) : i # 1 => i - 1 \in 1..Len(Tail(t)) /\ Tail(t)[i - 1] = t[i]
  BY <1>1
<1>4. walk(Tail(t)) \subseteq walk(t) /\ walk(t) \subseteq walk(Tail(t)) \cup {t[1]}
  BY <1>2, <1>3 DEF walk
<1>5. t[1] \in walk(t)
  BY <1>1 DEF walk
<1>6. (~Is(t, "iter") => Item(t) = t) /\ (Item(t) = t \/ Item(t) = Tail(t))
  BY DEF Item, Is
<1> QED
  BY <1>4, <1>5, <1>6

LEMMA AcceptedTypesLower ==
  ASSUME IsApi(api), declarations = {}
  PROVE  Builds
<1>1. ASSUME NEW t, IsType(t), buffered_field(t) = {}
      PROVE  value(t)
  <2>1. ~contains_iterator(t) /\ type_ref(t) = {} /\ no_callback_interface(t) = {}
    BY <1>1 DEF buffered_field, IteratorIn
  <2> QED
    BY <1>1, <2>1, RulesRequire
<1>2. \A t \in FieldsOf(HoldsFields) \cup Payloads : value(t)
  <2> TAKE t \in FieldsOf(HoldsFields) \cup Payloads
  <2>1. IsType(t)
    BY DEF FieldsOf, Payloads, IsApi
  <2>2. buffered_field(t) = {}
    BY DEF declarations
  <2> QED
    BY <1>1, <2>1, <2>2
<1>3. ASSUME NEW m \in api.methods
      PROVE  \A t \in m.params \cup m.returns : value(t)
  <2> TAKE t \in m.params \cup m.returns
  <2>1. IsType(t)
    BY DEF IsApi, IsCallable
  <2>2. callback_method(m) = {}
    BY DEF declarations
  <2>3. buffered_field(t) = {}
    BY <2>2 DEF callback_method
  <2> QED
    BY <1>1, <2>1, <2>3
<1>4. ASSUME NEW f \in api.functions
      PROVE  callable(f)
  <2>1. callable_types(f) = {}
    BY DEF declarations
  <2>2. ASSUME NEW t \in f.params
        PROVE  param_ty(t)
    <3>1. IsType(t)
      BY DEF IsApi, IsCallable
    <3>2. Param(t) = {}
      BY <2>1 DEF callable_types
    <3>3. ~contains_iterator(t) /\ type_ref(t) = {}
          /\ (IsCallback(t) \/ no_callback_interface(t) = {})
      BY <3>2 DEF Param, IteratorIn
    <3> QED
      BY <3>1, <3>3, RulesRequire DEF param_ty
  <2>3. ASSUME NEW t \in f.returns
        PROVE  ret_ty(t) /\ ~(f.async /\ Is(t, "iter"))
    <3>1. IsType(t)
      BY DEF IsApi, IsCallable
    <3>2. Returns(t, f.async) = {}
      BY <2>1 DEF callable_types
    <3>3. ~contains_iterator(Item(t)) /\ type_ref(t) = {} /\ no_callback_interface(t) = {}
      BY <3>2 DEF Returns, IteratorIn
    <3>4. ret_ty(t)
      BY <3>1, <3>3, ItemOfType, RulesRequire DEF ret_ty
    <3>5. f.async => ~contains_iterator(t)
      BY <3>2 DEF Returns, IteratorIn
    <3> QED
      BY <3>1, <3>4, <3>5, ItemOfType DEF contains_iterator, Is
  <2> QED
    BY <2>2, <2>3 DEF callable
<1> QED
  BY <1>2, <1>3, <1>4 DEF Builds

LEMMA CallbackParts ==
  ASSUME NEW t, IsType(t), IsCallback(t)
  PROVE  /\ ~contains_iterator(t)
         /\ \A n \in NamesIn(t) : KindOf(n) \notin {"error domain", "none"}
<1>1. t \in Seq(Parts) /\ Len(t) \in Nat /\ Len(t) > 0
  BY DEF IsType
<1>2. ASSUME NEW p \in walk(t)
      PROVE  p.is = "opt" \/ (p.is = "named" /\ KindOf(p.name) = "callback interface")
  <2>1. PICK i \in 1..Len(t) : p = t[i]
    BY <1>2 DEF walk
  <2>2. CASE Is(t, "opt")
    <3>1. Len(Tail(t)) = 1
      BY <2>2 DEF IsCallback, Top, IsA
    <3>2. Len(Tail(t)) = Len(t) - 1
      BY <1>1
    <3>3. Len(t) = 2
      BY <1>1, <3>1, <3>2
    <3>4. i = 1 \/ i = 2
      BY <3>3
    <3>5. Tail(t)[1] = t[2]
      BY <1>1, <3>3
    <3>6. Tail(t)[1].is = "named" /\ KindOf(Tail(t)[1].name) = "callback interface"
      BY <2>2 DEF IsCallback, Top, IsA, Is
    <3>7. t[1].is = "opt"
      BY <2>2 DEF Is
    <3>8. t[2].is = "named" /\ KindOf(t[2].name) = "callback interface"
      BY <3>5, <3>6
    <3> QED
      BY <2>1, <3>4, <3>7, <3>8
  <2>3. CASE ~Is(t, "opt")
    <3>1. Len(t) = 1
      BY <2>3 DEF IsCallback, Top, IsA
    <3>2. t[1].is = "named" /\ KindOf(t[1].name) = "callback interface"
      BY <2>3 DEF IsCallback, Top, IsA, Is
    <3>3. i = 1
      BY <3>1
    <3> QED
      BY <2>1, <3>2, <3>3
  <2> QED
    BY <2>2, <2>3
<1> QED
  BY <1>2 DEF contains_iterator, NamesIn

NoToken == \A t \in Payloads : no_object_in_payload(t) = {}

GoodKeys == \A t \in AllTypes : \A k \in Keys(t) : is_map_key(k)

PlainMethods == \A m \in api.methods : ~m.async /\ ~m.cancellable

LEMMA RejectedTypes ==
  ASSUME IsApi(api), Builds, GoodKeys, PlainMethods, NoToken
  PROVE  declarations = {}
<1>1. ASSUME NEW t \in AllTypes, value(t)
      PROVE  buffered_field(t) = {}
  BY <1>1, LoweredTypes, RulesReport DEF GoodKeys, buffered_field, IteratorIn
<1>2. \A t \in FieldsOf(HoldsFields) \cup Payloads : buffered_field(t) = {}
  BY <1>1 DEF Builds, AllTypes
<1>3. \A m \in api.methods : callback_method(m) = {}
  <2> TAKE m \in api.methods
  <2>1. \A t \in m.params \cup m.returns : t \in AllTypes /\ value(t)
    BY DEF AllTypes, Builds
  <2> QED
    BY <1>1, <2>1 DEF callback_method, PlainMethods
<1>4. ASSUME NEW f \in api.functions
      PROVE  callable_types(f) = {}
  <2>1. \A t \in f.params \cup f.returns : t \in AllTypes /\ IsType(t)
    BY DEF AllTypes, IsApi, IsCallable
  <2>2. ASSUME NEW t \in f.params
        PROVE  Param(t) = {}
    <3>1. param_ty(t)
      BY DEF Builds, callable
    <3>2. ~contains_iterator(t) /\ type_ref(t) = {} /\ interface_positions(t) = {}
      BY <2>1, <3>1, CallbackParts, LoweredTypes, RulesReport DEF param_ty, GoodKeys
    <3>3. IsCallback(t) \/ no_callback_interface(t) = {}
      BY <3>1, LoweredTypes DEF param_ty
    <3> QED
      BY <3>2, <3>3 DEF Param, IteratorIn
  <2>3. ASSUME NEW t \in f.returns
        PROVE  Returns(t, f.async) = {}
    <3>1. value(Item(t)) /\ ~(f.async /\ Is(t, "iter"))
      BY DEF Builds, callable, ret_ty
    <3>2. NamesIn(t) \subseteq NamesIn(Item(t))
      BY <2>1, ItemOfType DEF NamesIn, Is
    <3>3. type_ref(t) = {} /\ interface_positions(t) = {} /\ no_callback_interface(t) = {}
          /\ ~contains_iterator(Item(t))
      <4>1. /\ ~contains_iterator(Item(t))
            /\ \A n \in NamesIn(Item(t)) : KindOf(n) \notin {"error domain", "none"}
            /\ no_callback_interface(Item(t)) = {}
        BY <3>1, LoweredTypes
      <4>2. type_ref(t) = {} /\ interface_positions(t) = {}
        BY <2>1, <3>2, <4>1, RulesReport DEF GoodKeys
      <4> QED
        BY <3>2, <4>1, <4>2 DEF no_callback_interface
    <3>4. f.async => ~contains_iterator(t)
      BY <2>1, <3>1, <3>3, ItemOfType
    <3> QED
      BY <3>3, <3>4 DEF Returns, IteratorIn
  <2> QED
    BY <2>2, <2>3 DEF callable_types
<1> QED
  BY <1>2, <1>3, <1>4 DEF declarations, NoToken

-----------------------------------------------------------------------------
(* The API does not change, nor does anything that depends on it alone.    *)

LEMMA SameKinds ==
  ASSUME api' = api
  PROVE  /\ \A n : KindOf(n)' = KindOf(n)
         /\ Holders' = Holders
         /\ \A t, kinds : IsA(t, kinds)' = IsA(t, kinds)
<1>1. \A n : KindOf(n)' = KindOf(n)
  BY DEF KindOf
<1>2. Holders' = Holders
  BY <1>1 DEF Holders
<1>3. \A t, kinds : IsA(t, kinds)' = IsA(t, kinds)
  BY <1>1 DEF IsA
<1> QED
  BY <1>1, <1>2, <1>3

LEMMA SameEdges ==
  ASSUME api' = api
  PROVE  /\ \A n : EdgesOf(n)' = EdgesOf(n)
         /\ \A n : Mentions(n)' = Mentions(n)
<1>1. \A types : Held(types)' = Held(types)
  BY SameKinds DEF Held
<1>2. \A n : EdgesOf(n)' = EdgesOf(n)
  BY <1>1, SameKinds DEF EdgesOf
<1>3. \A n : Mentions(n)' = Mentions(n)
  BY SameKinds DEF Mentions
<1> QED
  BY <1>2, <1>3

LEMMA SameDeclarations ==
  ASSUME api' = api, carriers' = carriers
  PROVE  declarations' = declarations
<1>1. \A k : is_map_key(k)' = is_map_key(k)
  BY SameKinds DEF is_map_key
<1>2. \A t : type_ref(t)' = type_ref(t)
  <2> TAKE t
  <2>1. {m \in NamesIn(t) : KindOf(m) = "error domain"}'
          = {m \in NamesIn(t) : KindOf(m) = "error domain"}
    BY SameKinds
  <2>2. {m \in NamesIn(t) : KindOf(m) = "none"}' = {m \in NamesIn(t) : KindOf(m) = "none"}
    BY SameKinds
  <2>3. {l \in Keys(t) : ~is_map_key(l)}' = {l \in Keys(t) : ~is_map_key(l)}
    BY <1>1
  <2> QED
    BY <2>1, <2>2, <2>3 DEF type_ref
<1>3. \A t : interface_positions(t)' = interface_positions(t)
  BY SameKinds DEF interface_positions
<1>4. \A t : no_callback_interface(t)' = no_callback_interface(t)
  BY SameKinds DEF no_callback_interface
<1>5. \A t : buffered_field(t)' = buffered_field(t)
  BY <1>2, <1>3, <1>4 DEF buffered_field
<1>6. \A t : Param(t)' = Param(t)
  BY <1>2, <1>3, <1>4, SameKinds DEF Param, IsCallback
<1>7. \A t, async : Returns(t, async)' = Returns(t, async)
  BY <1>2, <1>3, <1>4 DEF Returns
<1>8. \A f : callable_types(f)' = callable_types(f)
  BY <1>6, <1>7 DEF callable_types
<1>9. \A m : callback_method(m)' = callback_method(m)
  BY <1>5 DEF callback_method
<1>10. \A t : no_object_in_payload(t)' = no_object_in_payload(t)
  BY SameKinds DEF no_object_in_payload
<1>11. \A kinds : FieldsOf(kinds)' = FieldsOf(kinds)
  BY SameKinds DEF FieldsOf
<1>12. Payloads' = Payloads
  BY <1>11 DEF Payloads
<1> QED
  BY <1>5, <1>8, <1>9, <1>10, <1>11, <1>12 DEF declarations

-----------------------------------------------------------------------------
(* The inductive invariant.                                                *)

Phases == {"carriers", "recursion", "checked", "rejected", "built"}

(* Any closed set with the declaration n has an interface.                 *)
LeadsToObject(n) ==
  \A S \in SUBSET Names :
    n \in S /\ (\A k \in S : Mentions(k) \subseteq S) => \E k \in S : KindOf(k) = "interface"

CarriedBy(n, names) ==
  \E t \in api.fields[n] : \E m \in NamesIn(t) : KindOf(m) = "interface" \/ m \in names

(* A pass has added what the types known when it began lead to; what was   *)
(* added does carry an object.                                             *)
PassesInv ==
  /\ before \subseteq carriers
  /\ carriers \subseteq Holders
  /\ todo \subseteq Holders
  /\ \A n \in Holders \ todo : CarriedBy(n, before) => n \in carriers
  /\ \A n \in carriers : LeadsToObject(n)
  /\ phase # "carriers" => todo = {} /\ before = carriers

Reported(n) == <<"RecursiveType", n>> \in found

RulesInv ==
  /\ phase = "carriers" => found = {} /\ starts = {} /\ stack = {}
  /\ phase # "carriers" => declarations \subseteq found
  /\ \A f \in found : f \in declarations \/ \E n \in Names : f = <<"RecursiveType", n>>
  /\ phase \in {"checked", "built"} => found = {}
  /\ phase = "rejected" => found # {}

Reaches(n, m) ==
  \A S \in SUBSET Names : (\A k \in S \cup {n} : EdgesOf(k) \subseteq S) => m \in S

(* A search has visited what its start reaches, and everything that those  *)
(* it has followed hold.                                                   *)
SearchInv ==
  /\ starts \subseteq Names
  /\ visited \subseteq Names \ {start}
  /\ stack \subseteq visited \cup {start}
  /\ stack # {} =>
       /\ phase = "recursion"
       /\ start \in Names \ starts
       /\ \A m \in visited : Reaches(start, m)
       /\ \A k \in (visited \cup {start}) \ stack :
            /\ EdgesOf(k) \subseteq visited \cup {start}
            /\ start \in EdgesOf(k) => Reported(start)

ReportsInv ==
  /\ \A n \in Names : Reported(n) => Reaches(n, n)
  /\ phase # "carriers" =>
       \A n \in Names \ starts : Reaches(n, n) => Reported(n) \/ (stack # {} /\ n = start)
  /\ Checked => starts = {} /\ stack = {}

IInv ==
  /\ api \in Apis
  /\ phase \in Phases
  /\ PassesInv
  /\ RulesInv
  /\ SearchInv
  /\ ReportsInv

LEMMA Given == IInv => IsApi(api)
BY ApisAssumption DEF IInv

(* What does not depend on the search and the passes.                      *)
LEMMA SameClosures ==
  ASSUME api' = api
  PROVE  /\ \A n, m : Reaches(n, m)' <=> Reaches(n, m)
         /\ \A n : LeadsToObject(n)' <=> LeadsToObject(n)
<1>1. \A n, m : Reaches(n, m)' <=> Reaches(n, m)
  BY SameEdges DEF Reaches
<1>2. \A n : LeadsToObject(n)' <=> LeadsToObject(n)
  BY SameEdges, SameKinds DEF LeadsToObject
<1> QED
  BY <1>1, <1>2

-----------------------------------------------------------------------------
(* The passes.                                                             *)

LEMMA PassesSame ==
  ASSUME PassesInv, api' = api, UNCHANGED <<carriers, before, todo>>,
         phase' # "carriers" => phase # "carriers" \/ (todo = {} /\ before = carriers)
  PROVE  PassesInv'
<1>1. /\ before' \subseteq carriers'
      /\ carriers' \subseteq Holders'
      /\ todo' \subseteq Holders'
      /\ phase' # "carriers" => todo' = {} /\ before' = carriers'
  BY SameKinds DEF PassesInv
<1>2. \A n \in Holders' \ todo' : CarriedBy(n, before)' => n \in carriers'
  BY SameKinds DEF PassesInv, CarriedBy
<1>3. \A n \in carriers' : LeadsToObject(n)'
  BY SameClosures DEF PassesInv
<1> QED
  BY <1>1, <1>2, <1>3 DEF PassesInv

LEMMA VisitPasses ==
  ASSUME IInv, NEW n \in Names, Visit(n)
  PROVE  PassesInv'
<1> USE DEF Visit
<1>1. PassesInv /\ api' = api /\ IsApi(api)
  BY Given DEF IInv
<1>2. /\ before' \subseteq carriers'
      /\ carriers' \subseteq Holders'
      /\ todo' \subseteq Holders'
      /\ phase' = "carriers"
  BY <1>1, SameKinds DEF PassesInv
<1>3. ASSUME NEW k \in Holders' \ todo', CarriedBy(k, before)'
      PROVE  k \in carriers'
  <2>1. k \in Holders /\ CarriedBy(k, before)
    BY <1>1, <1>3, SameKinds DEF CarriedBy
  <2>2. CASE k = n
    <3>1. Carries(n)
      BY <1>1, <2>1, <2>2 DEF CarriedBy, Carries, PassesInv
    <3> QED
      BY <2>2, <3>1
  <2>3. CASE k # n
    BY <1>1, <1>3, <2>1, <2>3 DEF PassesInv
  <2> QED
    BY <2>2, <2>3
<1>4. ASSUME Carries(n)
      PROVE  LeadsToObject(n)
  <2> SUFFICES ASSUME NEW S \in SUBSET Names, n \in S, \A k \in S : Mentions(k) \subseteq S
               PROVE  \E k \in S : KindOf(k) = "interface"
    BY DEF LeadsToObject
  <2>1. PICK t \in api.fields[n] :
          \E m \in NamesIn(t) : KindOf(m) = "interface" \/ m \in carriers
    BY <1>4 DEF Carries
  <2> PICK m \in NamesIn(t) : KindOf(m) = "interface" \/ m \in carriers
    BY <2>1
  <2>2. n \in Holders
    BY <1>1 DEF PassesInv
  <2>3. m \in S
    BY <2>1, <2>2 DEF Mentions
  <2> QED
    BY <1>1, <2>1, <2>3 DEF PassesInv, LeadsToObject
<1>5. \A k \in carriers' : LeadsToObject(k)'
  BY <1>1, <1>4, SameClosures DEF PassesInv
<1> QED
  BY <1>2, <1>3, <1>5 DEF PassesInv

LEMMA NextPassPasses ==
  ASSUME IInv, NextPass
  PROVE  PassesInv'
<1>1. PassesInv /\ api' = api /\ phase' = "carriers"
  BY DEF IInv, NextPass
<1>2. /\ before' \subseteq carriers'
      /\ carriers' \subseteq Holders'
      /\ todo' = Holders'
  BY <1>1, SameKinds DEF PassesInv, NextPass
<1>3. \A n \in carriers' : LeadsToObject(n)'
  BY <1>1, SameClosures DEF PassesInv, NextPass
<1> QED
  BY <1>1, <1>2, <1>3 DEF PassesInv

LEMMA PassesStep == IInv /\ [Next]_vars => PassesInv'
<1> SUFFICES ASSUME IInv, [Next]_vars
             PROVE  PassesInv'
  OBVIOUS
<1>1. PassesInv
  BY DEF IInv
<1>2. ASSUME \/ \E n \in Names : Search(n) \/ Follow(n)
             \/ Declarations \/ Judge \/ Build \/ UNCHANGED vars
      PROVE  PassesInv'
  <2>1. /\ api' = api /\ UNCHANGED <<carriers, before, todo>>
        /\ phase' # "carriers" => phase # "carriers" \/ (todo = {} /\ before = carriers)
    BY <1>2 DEF Search, Follow, Declarations, Judge, Build, vars, AnotherPass
  <2> QED
    BY <1>1, <2>1, PassesSame
<1> QED
  BY <1>2, VisitPasses, NextPassPasses DEF Next

-----------------------------------------------------------------------------
(* The rules.                                                              *)

LEMMA NotOfTheRules ==
  ASSUME NEW n
  PROVE  <<"RecursiveType", n>> \notin declarations
<1> DEFINE r == <<"RecursiveType", n>>
<1>1. \A t : r \notin type_ref(t)
  BY DEF type_ref
<1>2. \A t : r \notin interface_positions(t)
  BY DEF interface_positions
<1>3. \A t : r \notin no_callback_interface(t)
  BY DEF no_callback_interface
<1>4. \A t : /\ r \notin IteratorIn(t, "IteratorInInvalidPosition")
             /\ r \notin IteratorIn(t, "AsyncIteratorReturn")
  BY DEF IteratorIn
<1>5. \A t : r \notin buffered_field(t)
  BY <1>1, <1>2, <1>3, <1>4 DEF buffered_field
<1>6. \A t : r \notin Param(t)
  BY <1>1, <1>2, <1>3, <1>4 DEF Param
<1>7. \A t, async : r \notin Returns(t, async)
  BY <1>1, <1>2, <1>3, <1>4 DEF Returns
<1>8. \A f : r \notin callable_types(f)
  BY <1>6, <1>7 DEF callable_types
<1>9. \A m : r \notin callback_method(m)
  <2> TAKE m
  <2>1. r \notin UNION {buffered_field(t) : t \in m.params \cup m.returns}
    BY <1>5
  <2> QED
    BY <2>1 DEF callback_method
<1>10. \A t : r \notin no_object_in_payload(t)
  BY DEF no_object_in_payload
<1> QED
  BY <1>5, <1>8, <1>9, <1>10 DEF declarations

LEMMA RulesStep == IInv /\ [Next]_vars => RulesInv'
<1> SUFFICES ASSUME IInv, [Next]_vars
             PROVE  RulesInv'
  OBVIOUS
<1>0. RulesInv /\ SearchInv
  BY DEF IInv
<1>1. ASSUME phase' = "carriers", found' = {}, starts' = {}, stack' = {}
      PROVE  RulesInv'
  BY <1>1 DEF RulesInv
<1>2. ASSUME NEW n \in Names, Visit(n)
      PROVE  RulesInv'
  BY <1>0, <1>1, <1>2 DEF Visit, RulesInv
<1>3. ASSUME Declarations
      PROVE  RulesInv'
  <2>1. declarations' = declarations
    BY <1>3, SameDeclarations DEF Declarations
  <2> QED
    BY <1>3, <2>1 DEF Declarations, RulesInv
<1>4. ASSUME NEW n \in Names, Search(n)
      PROVE  RulesInv'
  <2>1. declarations' = declarations
    BY <1>4, SameDeclarations DEF Search
  <2> QED
    BY <1>0, <1>4, <2>1 DEF Search, RulesInv
<1>5. ASSUME NEW n \in Names, Follow(n)
      PROVE  RulesInv'
  <2>1. declarations' = declarations
    BY <1>5, SameDeclarations DEF Follow
  <2>2. phase = "recursion" /\ phase' = "recursion" /\ start \in Names
    BY <1>0, <1>5 DEF Follow, SearchInv
  <2>3. found' = found \/ found' = found \cup {<<"RecursiveType", start>>}
    BY <1>5 DEF Follow
  <2>4. declarations' \subseteq found'
    BY <1>0, <2>1, <2>2, <2>3 DEF RulesInv
  <2>5. \A f \in found' : f \in declarations' \/ \E k \in Names : f = <<"RecursiveType", k>>
    BY <1>0, <2>1, <2>2, <2>3 DEF RulesInv
  <2> QED
    BY <2>2, <2>4, <2>5 DEF RulesInv
<1>6. ASSUME Judge \/ Build \/ UNCHANGED vars
      PROVE  RulesInv'
  <2>1. declarations' = declarations
    BY <1>6, SameDeclarations DEF Judge, Build, vars
  <2> QED
    BY <1>0, <1>6, <2>1 DEF Judge, Build, vars, RulesInv
<1>7. ASSUME NextPass
      PROVE  RulesInv'
  BY <1>0, <1>1, <1>7 DEF NextPass, RulesInv
<1> QED
  BY <1>2, <1>3, <1>4, <1>5, <1>6, <1>7 DEF Next

-----------------------------------------------------------------------------
(* The searches.                                                           *)

(* What following one type does.                                           *)
LEMMA Follows ==
  ASSUME IInv, NEW at, Follow(at)
  PROVE  /\ stack # {} /\ phase = "recursion" /\ start \in Names \ starts
         /\ \A m \in EdgesOf(at) : Reaches(start, m)
         /\ found' = IF start \in EdgesOf(at) THEN found \cup {<<"RecursiveType", start>>} ELSE found
         /\ visited' = visited \cup Unseen(EdgesOf(at))
         /\ stack' = (stack \ {at}) \cup Unseen(EdgesOf(at))
         /\ \A k \in (visited' \cup {start}) \ stack' :
              /\ EdgesOf(k) \subseteq visited' \cup {start}
              /\ start \in EdgesOf(k) => <<"RecursiveType", start>> \in found'
<1>1. /\ stack # {} /\ phase = "recursion" /\ start \in Names \ starts
      /\ at \in stack /\ at \in visited \cup {start}
  BY DEF Follow, IInv, SearchInv
<1>2. \A m \in EdgesOf(at) : Reaches(start, m)
  <2> SUFFICES ASSUME NEW m \in EdgesOf(at), NEW S \in SUBSET Names,
                      \A k \in S \cup {start} : EdgesOf(k) \subseteq S
               PROVE  m \in S
    BY DEF Reaches
  <2>1. at \in S \cup {start}
    BY <1>1 DEF IInv, SearchInv, Reaches
  <2> QED
    BY <2>1
<1>3. /\ found' = IF start \in EdgesOf(at) THEN found \cup {<<"RecursiveType", start>>} ELSE found
      /\ visited' = visited \cup Unseen(EdgesOf(at))
      /\ stack' = (stack \ {at}) \cup Unseen(EdgesOf(at))
  BY DEF Follow
<1>4. ASSUME NEW k \in (visited' \cup {start}) \ stack'
      PROVE  /\ EdgesOf(k) \subseteq visited' \cup {start}
             /\ start \in EdgesOf(k) => <<"RecursiveType", start>> \in found'
  <2>1. k = at \/ k \in (visited \cup {start}) \ stack
    BY <1>3, <1>4
  <2>2. CASE k = at
    BY <1>3, <2>2 DEF Unseen
  <2>3. CASE k \in (visited \cup {start}) \ stack
    BY <1>1, <1>3, <2>3 DEF IInv, SearchInv, Reported
  <2> QED
    BY <2>1, <2>2, <2>3
<1> QED
  BY <1>1, <1>2, <1>3, <1>4

LEMMA SearchStep == IInv /\ [Next]_vars => SearchInv'
<1> SUFFICES ASSUME IInv, [Next]_vars
             PROVE  SearchInv'
  OBVIOUS
<1>0. SearchInv /\ IsApi(api)
  BY Given DEF IInv
<1>1. \A n \in Names : EdgesOf(n) \subseteq Names
  BY <1>0, Edges
<1>2. api' = api
  BY DEF Next, Visit, Search, Follow, NextPass, Declarations, Judge, Build, vars
<1>3. ASSUME UNCHANGED <<starts, visited, stack, start, found, phase>>
      PROVE  SearchInv'
  BY <1>0, <1>2, <1>3, SameEdges, SameClosures DEF SearchInv, Reported
<1>4. ASSUME stack = {}, UNCHANGED <<visited, stack, start>>, starts' \subseteq Names
      PROVE  SearchInv'
  BY <1>0, <1>4 DEF SearchInv
<1>5. ASSUME \/ \E n \in Names : Visit(n)
             \/ NextPass
      PROVE  SearchInv'
  BY <1>3, <1>5 DEF Visit, NextPass
<1>6. ASSUME Declarations \/ Judge \/ Build
      PROVE  SearchInv'
  <2>1. stack = {}
    BY <1>0, <1>6 DEF Declarations, Judge, Build, SearchInv
  <2>2. UNCHANGED <<visited, stack, start>> /\ starts' \subseteq Names
    BY <1>0, <1>6 DEF Declarations, Judge, Build, SearchInv
  <2> QED
    BY <1>4, <2>1, <2>2
<1>7. ASSUME NEW n \in Names, Search(n)
      PROVE  SearchInv'
  BY <1>0, <1>7 DEF Search, SearchInv
<1>8. ASSUME NEW at \in Names, Follow(at)
      PROVE  SearchInv'
  <2>1. UNCHANGED <<api, phase, starts, start>> /\ at \in visited \cup {start}
    BY <1>0, <1>8 DEF Follow, SearchInv
  <2>2. visited' \subseteq Names \ {start} /\ stack' \subseteq visited' \cup {start}
    BY <1>0, <1>1, <1>8, <2>1, Follows DEF SearchInv, Unseen
  <2>3. \A m \in visited' : Reaches(start, m)'
    BY <1>0, <1>8, <2>1, Follows, SameClosures DEF SearchInv, Unseen
  <2>4. \A k : EdgesOf(k)' = EdgesOf(k)
    BY <2>1, SameEdges
  <2>5. \A k \in (visited' \cup {start'}) \ stack' :
          /\ EdgesOf(k)' \subseteq visited' \cup {start'}
          /\ start' \in EdgesOf(k)' => Reported(start)'
    BY <1>8, <2>1, <2>4, Follows DEF Reported
  <2> QED
    BY <1>0, <1>8, <2>1, <2>2, <2>3, <2>5, Follows DEF SearchInv
<1>9. ASSUME UNCHANGED vars
      PROVE  SearchInv'
  BY <1>3, <1>9 DEF vars
<1> QED
  BY <1>5, <1>6, <1>7, <1>8, <1>9 DEF Next

(* A type that is not reported when its search ends does not reach itself: *)
(* it is not in the closed set that the search has visited.                *)
LEMMA SearchEnds ==
  ASSUME IInv, NEW at, Follow(at), stack' = {}, Reaches(start, start)
  PROVE  <<"RecursiveType", start>> \in found'
<1> SUFFICES ASSUME <<"RecursiveType", start>> \notin found'
             PROVE  FALSE
  OBVIOUS
<1>1. \A k \in visited' \cup {start} : EdgesOf(k) \subseteq visited'
  BY Follows
<1>2. start \in Names /\ start \notin visited /\ visited \subseteq Names
  BY Follows DEF IInv, SearchInv
<1>3. visited' \subseteq Names /\ start \notin visited'
  <2>1. EdgesOf(at) \subseteq Names
    BY Given, Edges DEF Follow, IInv, SearchInv
  <2> QED
    BY <1>2, <2>1, Follows DEF Unseen
<1> QED
  BY <1>1, <1>3 DEF Reaches

LEMMA ReportsStep == IInv /\ [Next]_vars => ReportsInv'
<1> SUFFICES ASSUME IInv, [Next]_vars
             PROVE  ReportsInv'
  OBVIOUS
<1>0. ReportsInv /\ SearchInv /\ RulesInv /\ IsApi(api)
  BY Given DEF IInv
<1>1. ASSUME \/ \E n \in Names : Visit(n)
             \/ NextPass
      PROVE  ReportsInv'
  <2>1. phase' = "carriers" /\ found' = {}
    BY <1>0, <1>1 DEF Visit, NextPass, RulesInv
  <2> QED
    BY <2>1 DEF ReportsInv, Reported, Checked
<1>2. ASSUME Declarations
      PROVE  ReportsInv'
  <2>1. \A n \in Names : ~Reported(n)'
    BY <1>2, NotOfTheRules DEF Declarations, Reported
  <2>2. ASSUME NEW n \in Names \ starts'
        PROVE  ~Reaches(n, n)
    <3>1. EdgesOf(n) = {}
      BY <1>2, <2>2 DEF Declarations
    <3> QED
      BY <3>1 DEF Reaches
  <2>3. \A n \in Names \ starts' : ~Reaches(n, n)'
    BY <1>2, <2>2, SameClosures DEF Declarations
  <2> QED
    BY <1>2, <2>1, <2>3 DEF Declarations, ReportsInv, Checked
<1>3. ASSUME NEW n \in Names, Search(n)
      PROVE  ReportsInv'
  BY <1>0, <1>3, SameClosures DEF Search, ReportsInv, Reported, Checked
<1>4. ASSUME NEW at \in Names, Follow(at)
      PROVE  ReportsInv'
  <2>1. UNCHANGED <<api, phase, starts, start>> /\ phase = "recursion"
    BY <1>4, Follows DEF Follow
  <2>2. ASSUME NEW n \in Names, Reported(n)'
        PROVE  Reaches(n, n)'
    <3>1. Reported(n) \/ (n = start /\ start \in EdgesOf(at))
      BY <1>4, <2>2, Follows DEF Reported
    <3>2. Reaches(n, n)
      BY <1>0, <1>4, <3>1, Follows DEF ReportsInv
    <3> QED
      BY <2>1, <3>2, SameClosures
  <2>3. ASSUME NEW n \in Names \ starts', Reaches(n, n)'
        PROVE  Reported(n)' \/ (stack' # {} /\ n = start')
    <3>1. Reaches(n, n) /\ n \in Names \ starts
      BY <2>1, <2>3, SameClosures
    <3>2. CASE n = start
      BY <1>4, <2>1, <3>1, <3>2, SearchEnds DEF Reported
    <3>3. CASE n # start
      BY <1>0, <1>4, <2>1, <3>1, <3>3, Follows DEF ReportsInv, Reported
    <3> QED
      BY <3>2, <3>3
  <2> QED
    BY <2>1, <2>2, <2>3 DEF ReportsInv, Checked
<1>5. ASSUME Judge \/ Build
      PROVE  ReportsInv'
  <2>1. /\ api' = api /\ phase # "carriers" /\ UNCHANGED <<found, starts, start, stack>>
        /\ starts = {} /\ stack = {}
    BY <1>0, <1>5 DEF Judge, Build, ReportsInv, Checked
  <2> QED
    BY <1>0, <2>1, SameClosures DEF ReportsInv, Reported
<1>6. ASSUME UNCHANGED vars
      PROVE  ReportsInv'
  BY <1>0, <1>6, SameClosures DEF vars, ReportsInv, Reported, Checked
<1> QED
  BY <1>1, <1>2, <1>3, <1>4, <1>5, <1>6 DEF Next

-----------------------------------------------------------------------------
(* The invariant, and what follows from it.                                *)

LEMMA InitInv == Init => IInv
<1> SUFFICES ASSUME Init
             PROVE  IInv
  OBVIOUS
<1> USE DEF Init
<1>1. api \in Apis /\ phase \in Phases
  BY DEF Phases
<1>2. PassesInv
  BY DEF PassesInv
<1>3. RulesInv
  BY DEF RulesInv
<1>4. SearchInv
  BY DEF SearchInv
<1>5. ReportsInv
  BY DEF ReportsInv, Reported, Checked
<1> QED
  BY <1>1, <1>2, <1>3, <1>4, <1>5 DEF IInv

LEMMA CheckedBuilds ==
  ASSUME IInv, phase = "checked"
  PROVE  Builds
BY Given, AcceptedTypesLower DEF IInv, RulesInv

LEMMA StepInv == IInv /\ [Next]_vars => IInv'
<1> SUFFICES ASSUME IInv, [Next]_vars
             PROVE  IInv'
  OBVIOUS
<1>1. api' \in Apis
  BY DEF IInv, Next, Visit, Search, Follow, NextPass, Declarations, Judge, Build, vars
<1>2. phase' \in Phases
  BY CheckedBuilds
     DEF IInv, Phases, Next, Visit, Search, Follow, NextPass, Declarations, Judge, Build, vars
<1> QED
  BY <1>1, <1>2, PassesStep, RulesStep, SearchStep, ReportsStep DEF IInv

LEMMA Invariance == Spec => []IInv
BY InitInv, StepInv, PTL DEF Spec

(* build never fails on an API that every rule accepted (model/build.rs),  *)
(* whatever the API.                                                       *)
THEOREM AcceptedIsBuilt == Spec => []AcceptedBuilds
<1>1. IInv => AcceptedBuilds
  BY DEF IInv, Phases, AcceptedBuilds
<1> QED
  BY <1>1, Invariance, PTL

(* check_recursion reports exactly the types that are within themselves by *)
(* value.                                                                  *)
THEOREM RecursionFound == Spec => []RecursionExact
<1>1. ASSUME IInv, NEW n \in Names
      PROVE  Within(n, n) <=> Reaches(n, n)
  <2>1. \A S \in SUBSET Names, k \in Names :
          EdgesOf(k) \subseteq S <=> \A l \in Names : HoldsByValue(k, l) => l \in S
    BY <1>1, Given, Edges
  <2>2. \A S \in SUBSET Names : S \cup {n} \subseteq Names
    OBVIOUS
  <2> QED
    BY <2>1, <2>2 DEF Within, Reaches
<1>2. IInv => RecursionExact
  <2> SUFFICES ASSUME IInv, Checked, NEW n \in Names
               PROVE  (<<"RecursiveType", n>> \in found) = Within(n, n)
    BY DEF RecursionExact
  <2>1. ReportsInv /\ starts = {} /\ stack = {} /\ phase # "carriers"
    BY DEF IInv, ReportsInv, Checked
  <2>2. Within(n, n) \in BOOLEAN
    BY DEF Within
  <2> QED
    BY <1>1, <2>1, <2>2 DEF ReportsInv, Reported
<1> QED
  BY <1>2, Invariance, PTL

(* The passes of object_carriers end with every type that carries an       *)
(* object: no payload of an accepted API has a token in it.                *)
THEOREM NoTokenDiscarded == Spec => []NoTokenInPayload
<1>1. IInv => NoTokenInPayload
  <2> SUFFICES ASSUME IInv, phase \in {"checked", "built"}, NEW t \in Payloads, CarriesToken(t)
               PROVE  FALSE
    BY DEF NoTokenInPayload
  <2> DEFINE S == {n \in Names : KindOf(n) # "interface" /\ n \notin carriers}
  <2>1. declarations = {} /\ IsType(t) /\ IsApi(api)
    BY Given DEF IInv, RulesInv, Payloads, FieldsOf, IsApi
  <2>2. no_object_in_payload(t) = {}
    BY <2>1 DEF declarations
  <2>3. NamesIn(t) \subseteq S
    BY <2>1, <2>2, PartsOfType DEF no_object_in_payload
  <2>4. ASSUME NEW n \in S, NEW m \in Mentions(n)
        PROVE  m \in S
    <3>1. n \in Holders
      BY <2>4 DEF Mentions
    <3>2. PICK u \in api.fields[n] : m \in NamesIn(u)
      BY <2>4, <3>1 DEF Mentions
    <3>3. m \in Names
      BY <2>1, <3>2, PartsOfType DEF IsApi
    <3>4. ~CarriedBy(n, carriers)
      BY <3>1 DEF IInv, PassesInv
    <3> QED
      BY <3>2, <3>3, <3>4 DEF CarriedBy
  <2>5. S \in SUBSET Names /\ \A n \in S : KindOf(n) # "interface"
    OBVIOUS
  <2>6. \A n \in S : Mentions(n) \subseteq S
    BY <2>4
  <2> HIDE DEF S
  <2> QED
    BY <2>3, <2>5, <2>6 DEF CarriesToken
<1> QED
  BY <1>1, Invariance, PTL

(* The rules reject nothing that the targets can do.                       *)
THEOREM RejectsForAReason == Spec => []RejectedForAReason
<1>1. IInv => RejectedForAReason
  <2> SUFFICES ASSUME IInv, phase = "rejected", \A t \in Payloads : ~CarriesToken(t),
                      Builds, GoodKeys, PlainMethods
               PROVE  \E n \in Names : <<"RecursiveType", n>> \in found
    BY DEF RejectedForAReason, GoodKeys, PlainMethods
  <2>1. ASSUME NEW t \in Payloads
        PROVE  no_object_in_payload(t) = {}
    <3> SUFFICES ASSUME NEW n \in NamesIn(t), KindOf(n) = "interface" \/ n \in carriers
                 PROVE  CarriesToken(t)
      BY DEF no_object_in_payload
    <3> SUFFICES ASSUME NEW S \in SUBSET Names, NamesIn(t) \subseteq S,
                        \A k \in S : Mentions(k) \subseteq S
                 PROVE  \E k \in S : KindOf(k) = "interface"
      BY DEF CarriesToken
    <3> QED
      BY DEF IInv, PassesInv, LeadsToObject
  <2>2. declarations = {}
    BY <2>1, Given, RejectedTypes DEF NoToken
  <2> QED
    BY <2>2 DEF IInv, RulesInv
<1> QED
  BY <1>1, Invariance, PTL

==================================================================================
