-------------------------------- MODULE Validate --------------------------------
(***************************************************************************)
(* What types an API may use where: the validation rules of the model      *)
(* crate about types, in rules.rs, and the lowering in build.rs that runs  *)
(* on an API they accept.  The rules about identifiers, throws, codes,     *)
(* cancellable functions, empty declarations and constructors that return  *)
(* or are asynchronous are left out: every name is declared once, or not at*)
(* all.                                                                    *)
(*                                                                         *)
(* A type is the sequence of its parts in the order in which TypeRef::walk *)
(* visits them: a constructor, then the parts of what it is applied to.    *)
(***************************************************************************)
EXTENDS Integers, Sequences, FiniteSets

CONSTANTS Names,     \* the names that declarations and types use
          Apis       \* the APIs that may be validated

Kinds == {"record", "rich enum", "enum", "interface", "callback interface",
          "error domain", "none"}

Prims == {"i8", "i16", "i32", "i64", "u8", "u16", "u32", "u64", "f32", "f64",
          "bool", "string", "bytes"}

Prim(p) == [is |-> "prim", name |-> p]
Named(n) == [is |-> "named", name |-> n]
Constructor(c) == [is |-> c]

Parts == {Prim(p) : p \in Prims} \cup {Named(n) : n \in Names}
           \cup {Constructor(c) : c \in {"opt", "list", "iter", "map"}}

(* How many types are still to come after the first i parts.               *)
Open(t, i) ==
  1 + Cardinality({j \in 1..i : t[j].is = "map"})
    - Cardinality({j \in 1..i : t[j].is \in {"prim", "named"}})

IsType(t) ==
  /\ t \in Seq(Parts) \ {<<>>}
  /\ \A i \in 1..(Len(t) - 1) : Open(t, i) > 0
  /\ Open(t, Len(t)) = 0

IsCallable(f) ==
  /\ \A t \in f.params \cup f.returns : IsType(t)
  /\ {f.async, f.cancellable} \subseteq BOOLEAN

(* What each name declares, "none" for nothing; the types of the fields of *)
(* a record, of all the variants of an enum, of all the codes of an error  *)
(* domain; the functions and the members of the interfaces; and the methods*)
(* of the callback interfaces.                                             *)
IsApi(a) ==
  /\ a.kind \in [Names -> Kinds]
  /\ \A n \in Names : \A t \in a.fields[n] : IsType(t)
  /\ \A f \in a.functions \cup a.methods : IsCallable(f)

ASSUME ApisAssumption == \A a \in Apis : IsApi(a)

VARIABLES api,
          phase,      \* what runs, and how it ended
          carriers,   \* object_carriers: the types found to carry an object,
          before,     \*   those found when the pass began,
          todo,       \*   and the declarations the pass has still to visit
          found,      \* the violations
          starts,     \* check_recursion: the types to search from,
          start,      \*   the one that the search runs from,
          stack,      \*   what it has still to follow
          visited     \*   and what it reached

vars == <<api, phase, carriers, before, todo, found, starts, start, stack, visited>>

-----------------------------------------------------------------------------
walk(t) == {t[i] : i \in 1..Len(t)}

NamesIn(t) == {p.name : p \in {q \in walk(t) : q.is = "named"}}

contains_iterator(t) == \E p \in walk(t) : p.is = "iter"

Is(t, constructor) == t[1].is = constructor

KindOf(n) == api.kind[n]

(* A type that is nothing but a name of these kinds.                       *)
IsA(t, kinds) == Len(t) = 1 /\ Is(t, "named") /\ KindOf(t[1].name) \in kinds

HoldsFields == {"record", "rich enum"}

Holders == {n \in Names : KindOf(n) \in HoldsFields}

-----------------------------------------------------------------------------
(* The rules.  Each returns the violations that it finds in a type.        *)

is_map_key(k) ==
  \/ k.is = "prim" /\ k.name \notin {"f32", "f64", "bytes"}
  \/ k.is = "named" /\ KindOf(k.name) = "enum"

(* The outermost part of the key of each map.                              *)
Keys(t) == {t[i + 1] : i \in {j \in 1..Len(t) : t[j].is = "map"}}

type_ref(t) ==
  {<<"ErrorDomainAsType", n>> : n \in {m \in NamesIn(t) : KindOf(m) = "error domain"}}
    \cup {<<"UnknownTypeRef", n>> : n \in {m \in NamesIn(t) : KindOf(m) = "none"}}
    \cup {<<"InvalidMapKey", k>> : k \in {l \in Keys(t) : ~is_map_key(l)}}

interface_positions(t) ==
  {<<"InterfaceInInvalidPosition", k>> :
     k \in {l \in Keys(t) : l.is = "named" /\ KindOf(l.name) = "interface"}}

no_callback_interface(t) ==
  {<<"CallbackInterfaceInInvalidPosition", n>> :
     n \in {m \in NamesIn(t) : KindOf(m) = "callback interface"}}

IteratorIn(t, error) == IF contains_iterator(t) THEN {<<error, t>>} ELSE {}

buffered_field(t) ==
  IteratorIn(t, "IteratorInInvalidPosition") \cup type_ref(t)
    \cup interface_positions(t) \cup no_callback_interface(t)

(* One optional around a type is looked through.                           *)
Top(t) == IF Is(t, "opt") THEN Tail(t) ELSE t

IsCallback(t) == IsA(Top(t), {"callback interface"})

Param(t) ==
  IteratorIn(t, "IteratorInInvalidPosition") \cup type_ref(t) \cup interface_positions(t)
    \cup (IF IsCallback(t) THEN {} ELSE no_callback_interface(t))

Item(t) == IF Is(t, "iter") THEN Tail(t) ELSE t

(* A defect: an asynchronous function may return an iterator.              *)
ReturnsAnyhow(t, async) ==
  IteratorIn(Item(t), "IteratorInInvalidPosition")
    \cup type_ref(t) \cup interface_positions(t) \cup no_callback_interface(t)

(* A defect: an iterator is not looked through as the outermost return.    *)
ReturnsNoIterator(t, async) == buffered_field(t)

Returns(t, async) ==
  (IF async THEN IteratorIn(t, "AsyncIteratorReturn") ELSE {})
    \cup IteratorIn(Item(t), "IteratorInInvalidPosition")
    \cup type_ref(t) \cup interface_positions(t) \cup no_callback_interface(t)

callable_types(f) ==
  UNION ({Param(t) : t \in f.params} \cup {Returns(t, f.async) : t \in f.returns})

callback_method(m) ==
  (UNION {buffered_field(t) : t \in m.params \cup m.returns})
    \cup (IF m.async THEN {<<"InvalidCallbackMethod", "async">>} ELSE {})
    \cup (IF m.cancellable THEN {<<"InvalidCallbackMethod", "cancellable">>} ELSE {})

no_object_in_payload(t) ==
  {<<"ObjectInErrorPayload", n>> :
     n \in {m \in NamesIn(t) : KindOf(m) = "interface" \/ m \in carriers}}

FieldsOf(kinds) == UNION {api.fields[n] : n \in {m \in Names : KindOf(m) \in kinds}}

Payloads == FieldsOf({"error domain"})

declarations ==
  UNION ({callable_types(f) : f \in api.functions}
           \cup {callback_method(m) : m \in api.methods}
           \cup {buffered_field(t) : t \in FieldsOf(HoldsFields) \cup Payloads}
           \cup {no_object_in_payload(t) : t \in Payloads})

-----------------------------------------------------------------------------
(* object_carriers: the records and rich enums that carry an interface     *)
(* object somewhere in their fields, by passes over the declarations until *)
(* one adds nothing.                                                       *)

Init ==
  /\ api \in Apis
  /\ phase = "carriers"
  /\ carriers = {}
  /\ before = {}
  /\ todo = Holders
  /\ found = {}
  /\ starts = {}
  /\ start = "none"
  /\ stack = {}
  /\ visited = {}

Carries(n) ==
  \E t \in api.fields[n] : \E m \in NamesIn(t) : KindOf(m) = "interface" \/ m \in carriers

Visit(n) ==
  /\ phase = "carriers"
  /\ n \in todo
  /\ todo' = todo \ {n}
  /\ carriers' = IF Carries(n) THEN carriers \cup {n} ELSE carriers
  /\ UNCHANGED <<api, phase, before, found, starts, start, stack, visited>>

(* A defect: one pass.                                                     *)
OnePass == FALSE

AnotherPass == carriers # before

NextPass ==
  /\ phase = "carriers"
  /\ todo = {}
  /\ AnotherPass
  /\ before' = carriers
  /\ todo' = Holders
  /\ UNCHANGED <<api, phase, carriers, found, starts, start, stack, visited>>

-----------------------------------------------------------------------------
(* check_recursion: a search from each record and rich enum along the      *)
(* fields that hold another by value.  The order in which it follows what  *)
(* it has on its stack makes no difference.                                *)

Unwrapped(t) ==
  LET k == CHOOSE i \in 1..Len(t) :
             t[i].is # "opt" /\ \A j \in 1..(i - 1) : t[j].is = "opt"
  IN  SubSeq(t, k, Len(t))

Held(types) == {t[1].name : t \in {u \in types : IsA(u, HoldsFields)}}

(* A defect: an optional field is taken to hold its value elsewhere.       *)
EdgesOfPlain(n) == IF n \in Holders THEN Held(api.fields[n]) ELSE {}

EdgesOf(n) == IF n \in Holders THEN Held({Unwrapped(t) : t \in api.fields[n]}) ELSE {}

(* The passes have ended: the rules run over the declarations.             *)
Declarations ==
  /\ phase = "carriers"
  /\ todo = {}
  /\ ~AnotherPass
  /\ phase' = "recursion"
  /\ found' = declarations
  /\ starts' = {n \in Names : EdgesOf(n) # {}}
  /\ UNCHANGED <<api, carriers, before, todo, start, stack, visited>>

Search(n) ==
  /\ phase = "recursion"
  /\ stack = {}
  /\ n \in starts
  /\ starts' = starts \ {n}
  /\ start' = n
  /\ stack' = {n}
  /\ visited' = {}
  /\ UNCHANGED <<api, phase, carriers, before, todo, found>>

(* A defect: what was visited is not remembered.                           *)
FirstSeen(targets) == targets \ {start}

Unseen(targets) == targets \ (visited \cup {start})

Follow(at) ==
  /\ at \in stack
  /\ LET targets == EdgesOf(at)
     IN  /\ found' = IF start \in targets THEN found \cup {<<"RecursiveType", start>>}
                                          ELSE found
         /\ visited' = visited \cup Unseen(targets)
         /\ stack' = (stack \ {at}) \cup Unseen(targets)
  /\ UNCHANGED <<api, phase, carriers, before, todo, starts, start>>

(* All rules have run.                                                     *)
Judge ==
  /\ phase = "recursion"
  /\ stack = {}
  /\ starts = {}
  /\ phase' = IF found = {} THEN "checked" ELSE "rejected"
  /\ UNCHANGED <<api, carriers, before, todo, found, starts, start, stack, visited>>

-----------------------------------------------------------------------------
(* A type in a value position has a lowered form.                          *)
value(t) ==
  \A p \in walk(t) :
    /\ p.is # "iter"
    /\ p.is = "named" => KindOf(p.name) \in HoldsFields \cup {"enum", "interface"}

param_ty(t) == IsCallback(t) \/ value(t)

ret_ty(t) == value(Item(t))

callable(f) ==
  /\ \A t \in f.params : param_ty(t)
  /\ \A t \in f.returns : ret_ty(t) /\ ~(f.async /\ Is(t, "iter"))

Builds ==
  /\ \A t \in FieldsOf(HoldsFields) \cup Payloads : value(t)
  /\ \A m \in api.methods : \A t \in m.params \cup m.returns : value(t)
  /\ \A f \in api.functions : callable(f)

Build ==
  /\ phase = "checked"
  /\ phase' = IF Builds THEN "built" ELSE "failed"
  /\ UNCHANGED <<api, carriers, before, todo, found, starts, start, stack, visited>>

Next ==
  \/ \E n \in Names : Visit(n) \/ Search(n) \/ Follow(n)
  \/ NextPass \/ Declarations \/ Judge \/ Build

Spec == Init /\ [][Next]_vars /\ WF_vars(Next)

-----------------------------------------------------------------------------
Checked == phase \in {"checked", "rejected", "built", "failed"}

(* "The build runs only on a document every validation rule accepted, so   *)
(* each step that can fail ... is one a rule already reported"             *)
(* (model/build.rs:6).                                                     *)
AcceptedBuilds == phase # "failed"

(* A record that is its own field, directly, in an optional or through     *)
(* others, has no finite value: the search reports exactly those, from     *)
(* each of them, whatever it visited first.                                *)
HoldsByValue(n, m) ==
  /\ {n, m} \subseteq Holders
  /\ \E t \in api.fields[n] : m \in NamesIn(t) /\ \A p \in walk(t) : p.is \in {"opt", "named"}

(* m is in every set that n's values lead to and that is closed.           *)
Within(n, m) ==
  \A S \in SUBSET Names :
    (\A k \in S \cup {n}, l \in Names : HoldsByValue(k, l) => l \in S) => m \in S

RecursionExact ==
  Checked => \A n \in Names : (<<"RecursiveType", n>> \in found) = Within(n, n)

(* A payload that a consumer discards undecoded holds no object's token,   *)
(* however deep in the records and rich enums it is made of.               *)
Mentions(n) == IF n \in Holders THEN UNION {NamesIn(t) : t \in api.fields[n]} ELSE {}

CarriesToken(t) ==
  \A S \in SUBSET Names :
    NamesIn(t) \subseteq S /\ (\A n \in S : Mentions(n) \subseteq S)
      => \E n \in S : KindOf(n) = "interface"

NoTokenInPayload ==
  phase \in {"checked", "built"} => \A t \in Payloads : ~CarriesToken(t)

(* No rule rejects what the targets can do: an API that is rejected could  *)
(* not be built, or has a map key that is no key, a callback method that   *)
(* is asynchronous or cancellable, a type without a finite value or a token*)
(* in a payload.                                                           *)
AllTypes ==
  FieldsOf(HoldsFields) \cup Payloads
    \cup UNION {f.params \cup f.returns : f \in api.functions \cup api.methods}

RejectedForAReason ==
  phase = "rejected" =>
    \/ ~Builds
    \/ \E t \in AllTypes : \E k \in Keys(t) : ~is_map_key(k)
    \/ \E m \in api.methods : m.async \/ m.cancellable
    \/ \E n \in Names : <<"RecursiveType", n>> \in found
    \/ \E t \in Payloads : CarriesToken(t)

(* The passes and the searches end, whatever cycles the types make.        *)
Decides == <>Checked

===============================================================================
