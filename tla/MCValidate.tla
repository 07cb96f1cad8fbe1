------------------------------- MODULE MCValidate -------------------------------
(***************************************************************************)
(* Small APIs for TLC: a record A, a type B, an interface or a callback    *)
(* interface I and an error domain E, and in some a record C.              *)
(***************************************************************************)
EXTENDS Validate

FiveNames == {"A", "B", "C", "I", "E"}

Plain(part) == <<part>>
Of(c, t) == <<Constructor(c)>> \o t
Map(k, v) == <<Constructor("map")>> \o k \o v

Bases == {Plain(Prim("i32"))} \cup {Plain(Named(n)) : n \in FiveNames \ {"C"}}

Wrap(types) == {Of(c, t) : c \in {"opt", "list", "iter"}, t \in types}

Maps(types) ==
  {Map(Plain(k), v) : k \in {Prim("i32"), Prim("f64"), Named("B"), Named("I")}, v \in types}

Name(n) == Plain(Named(n))

Shallow == Bases \cup Wrap(Bases) \cup Maps({Plain(Prim("i32")), Name("A"), Name("I")})

Deep == Shallow \cup Wrap(Wrap(Bases)) \cup Wrap(Maps({Name("I")}))
          \cup Maps(Wrap({Name("I"), Plain(Prim("i32"))}))
          \cup {Map(Of("list", Name("I")), Name("A"))}

KindsOf ==
  {[A |-> "record", B |-> b, C |-> "none", I |-> i, E |-> "error domain"] :
     b \in {"record", "rich enum", "enum", "none"}, i \in {"interface", "callback interface"}}

Api(kind, a, b, e, fs, ms) ==
  [kind |-> kind,
   fields |-> [A |-> {Plain(Prim("i32")), a},
               B |-> IF kind.B \in HoldsFields THEN {b} ELSE {},
               C |-> {}, I |-> {}, E |-> {e}],
   functions |-> fs,
   methods |-> ms]

Callables ==
  {[params |-> {t}, returns |-> {}, async |-> FALSE, cancellable |-> FALSE] : t \in Deep}
    \cup {[params |-> {}, returns |-> {t}, async |-> a[1], cancellable |-> a[2]] :
            t \in Deep, a \in {<<FALSE, FALSE>>, <<TRUE, FALSE>>, <<FALSE, TRUE>>}}

(* Three types that hold one another, and an interface, in every way, in   *)
(* optionals or plain.                                                     *)
Graphs ==
  {[kind |-> [A |-> "record", B |-> "rich enum", C |-> "record", I |-> "interface",
              E |-> "error domain"],
    fields |-> [n \in FiveNames |->
                  IF n \in {"A", "B", "C"}
                  THEN {IF n = m THEN Of("opt", Name(m)) ELSE Name(m) : m \in holds[n]}
                  ELSE IF n = "E" THEN {Of("list", Name("A"))} ELSE {}],
    functions |-> {},
    methods |-> {}] : holds \in [{"A", "B", "C"} -> SUBSET {"A", "B", "C", "I"}]}

(* Types that hold one another with a payload made of them; a function or a*)
(* method with one type.                                                   *)
SmallApis ==
  Graphs \cup
  {Api(k, a, b, e, {}, {}) :
     k \in KindsOf, a \in Shallow \cup {Of("opt", Of("opt", Name("B")))},
     b \in {Name("A"), Name("B"), Name("I"), Of("opt", Name("A")), Of("list", Name("A")),
            Of("list", Name("I"))},
     e \in {Name("A"), Name("I"), Of("opt", Name("E")), Of("list", Name("B"))}}
  \cup {Api(k, Plain(Prim("i32")), Name("A"), Plain(Prim("i32")), {}, {}) : k \in KindsOf}
  \cup UNION {{Api(k, Plain(Prim("i32")), Name("A"), Plain(Prim("i32")), {f}, {}),
               Api(k, Plain(Prim("i32")), Name("A"), Plain(Prim("i32")), {}, {f})} :
                k \in KindsOf, f \in Callables}

===============================================================================
