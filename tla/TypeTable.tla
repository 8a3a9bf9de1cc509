------------------------------ MODULE TypeTable ------------------------------
(***************************************************************************)
(* The types of the language (src/frontend/ast/type_info.cpp) and what the *)
(* semantic checker asks of them (check_semantics.cpp): make_node_type,    *)
(* validate_type, is_types_compatible.  A table of types is a value; the   *)
(* modules that use this one keep it in a variable or a constant.          *)
(*                                                                         *)
(* A type is [id, const, mods]: an entry of the table, node_type's         *)
(* _is_const, and the pointers and arrays around it, innermost first.      *)
(***************************************************************************)
EXTENDS Integers, Sequences, SequencesExt, FiniteSets, FiniteSetsExt

CONSTANTS
  BasicSize,    \* sizes of the basic types, by name; "void_t" is one
  Signed,       \* names of the basic types that are signed
  NoName,       \* the name of a function type
  PtrSize,      \* sizeof(void *), also its alignment
  SizeLimit     \* sizes are computed modulo this; 2^64 in the code

ASSUME TypeTableAssumption ==
  /\ "void_t" \in DOMAIN BasicSize /\ IsFiniteSet(DOMAIN BasicSize)
  /\ \A n \in DOMAIN BasicSize : BasicSize[n] \in 1..(SizeLimit - 1)
  /\ Signed \subseteq DOMAIN BasicSize \ {"void_t"}
  /\ NoName \notin DOMAIN BasicSize
  /\ PtrSize \in Nat \ {0} /\ SizeLimit \in Nat /\ SizeLimit > PtrSize

\* Modifiers; any other is an array of so many.
Pointer == -1
ConstPointer == -2
IsPointer(m) == m \in {Pointer, ConstPointer}

Basic(n) == [kind |-> "basic", name |-> n, size |-> BasicSize[n], align |-> BasicSize[n],
             fields |-> <<>>, returns |-> <<>>, params |-> <<>>]
Structure(s) == [kind |-> "struct", name |-> s, size |-> 0, align |-> 1,
                 fields |-> <<>>, returns |-> <<>>, params |-> <<>>]
Function(returns, params) ==
  [kind |-> "function", name |-> NoName, size |-> 0, align |-> 1,
   fields |-> <<>>, returns |-> <<returns>>, params |-> params]

\* The entries with a name; TypeTable keeps one.
named(tab, n) == {i \in 1..Len(tab) : tab[i].name = n}
has_type(tab, n) == named(tab, n) # {}
get_id(tab, n) == Min(named(tab, n))

-----------------------------------------------------------------------------
(***************************************************************************)
(* node_type.                                                              *)
(***************************************************************************)
is_array(t) == t.mods # <<>> /\ ~IsPointer(Last(t.mods))
is_pointer(t) == t.mods # <<>> /\ IsPointer(Last(t.mods))
is_integer(tab, t) == t.mods = <<>> /\ tab[t.id].kind = "basic" /\ tab[t.id].name # "void_t"
is_struct(tab, t) == t.mods = <<>> /\ tab[t.id].kind = "struct"
is_function(tab, t) == t.mods = <<>> /\ tab[t.id].kind = "function"
is_void(tab, t) == t.mods = <<>> /\ tab[t.id].name = "void_t"

size_of(tab, t) ==
  LET sz[i \in 0..Len(t.mods)] ==
        IF i = 0 THEN tab[t.id].size
        ELSE IF IsPointer(t.mods[i]) THEN PtrSize
        ELSE (sz[i - 1] * t.mods[i]) % SizeLimit
  IN  sz[Len(t.mods)]

align_of(tab, t) == IF \E i \in 1..Len(t.mods) : IsPointer(t.mods[i]) THEN PtrSize ELSE tab[t.id].align

\* What is left of t when the arrays on top of it are taken off.
element(t) ==
  LET last == Max({0} \cup {i \in 1..Len(t.mods) : IsPointer(t.mods[i])})
  IN  [t EXCEPT !.mods = SubSeq(@, 1, last)]

\* pointee_type of a pointer or an array.
pointee_type(t) == [t EXCEPT !.mods = Front(@)]

\* as_const: of an array, the elements become const.
as_const(t) ==
  LET inner == Len(element(t).mods)
  IN  IF inner = 0 THEN [t EXCEPT !.const = TRUE] ELSE [t EXCEPT !.mods[inner] = ConstPointer]

\* is_const without what structures contain: the object, or the elements of the array.
declared_const(tab, t) ==
  LET inner == element(t).mods
  IN  IF inner = <<>> THEN t.const \/ tab[t.id].kind = "function" ELSE Last(inner) = ConstPointer

\* is_const: also a structure with a const field, and what contains one by value.
is_const(tab, t) ==
  LET held(u) == IF element(u).mods = <<>> THEN {u.id} ELSE {}
      part[i \in 1..Len(tab)] ==
        \E k \in 1..Len(tab[i].fields) :
          LET u == tab[i].fields[k].type
          IN  declared_const(tab, u) \/ \E j \in held(u) : part[j]
  IN  declared_const(tab, t) \/ \E j \in held(t) : part[j]

\* Slip: an incomplete type is refused only when it is used as it is.
validate_type_not_element(tab, t, accept_array, accept_void) ==
  /\ is_void(tab, t) => accept_void
  /\ is_array(t) => accept_array
  /\ ~is_function(tab, t)
  /\ is_array(t) => ~is_function(tab, element(t)) /\ ~is_void(tab, element(t))
  /\ is_array(t) \/ size_of(tab, t) # 0

validate_type(tab, t, accept_array, accept_void) ==
  /\ is_void(tab, t) => accept_void
  /\ is_array(t) => accept_array
  /\ ~is_function(tab, t)
  /\ is_array(t) => ~is_function(tab, element(t)) /\ ~is_void(tab, element(t))
  /\ size_of(tab, element(t)) # 0

\* Slip: the id is the length of the table once the type is in it.
make_function_type_late(tab, returns, params) ==
  [tab |-> Append(tab, Function(returns, params)), id |-> Len(tab) + 2]

\* Slip: the type is inserted without a look whether it is there.
make_function_type_again(tab, returns, params) ==
  [tab |-> Append(tab, Function(returns, params)), id |-> Len(tab) + 1]

\* make_function_type: the entry for the type, which is new if there is none.
make_function_type(tab, returns, params) ==
  LET same == {i \in 1..Len(tab) : tab[i].kind = "function" /\ tab[i].returns = <<returns>>
                                                            /\ tab[i].params = params}
  IN  IF same # {} THEN [tab |-> tab, id |-> Min(same)]
      ELSE [tab |-> Append(tab, Function(returns, params)), id |-> Len(tab) + 1]

\* A specifier is a base with modifiers and, if `call`, parameters (each a base
\* with modifiers) and the modifiers around the function type.
Plain(base, mods) ==
  [base |-> base, const |-> FALSE, mods |-> mods, call |-> FALSE, params |-> <<>>, post |-> <<>>]
Const(spec) == [spec EXCEPT !.const = TRUE]
FunctionSpec(spec, params, post) == [spec EXCEPT !.call = TRUE, !.params = params, !.post = post]

plain_type(tab, p) == [id |-> get_id(tab, p.base), const |-> p.const, mods |-> p.mods]
params_are_valid(tab, params) ==
  \A i \in 1..Len(params) :
    /\ has_type(tab, params[i].base) /\ ~Contains(params[i].mods, 0)
    /\ validate_type(tab, plain_type(tab, params[i]), FALSE, FALSE)

\* make_node_type: the table after it, the type, and whether there is one.  An
\* array of functions is refused when the function type has been made.
make_node_type(tab, spec) ==
  LET known == has_type(tab, spec.base) /\ ~Contains(spec.mods, 0)
      called == make_function_type(tab, plain_type(tab, spec),
                  [i \in 1..Len(spec.params) |-> plain_type(tab, spec.params[i])])
  IN  IF ~known \/ (spec.call /\ ~params_are_valid(tab, spec.params))
        THEN [tab |-> tab, ok |-> FALSE]
      ELSE IF ~spec.call
        THEN [tab |-> tab, ok |-> TRUE, type |-> plain_type(tab, spec)]
      ELSE [tab |-> called.tab,
            ok |-> ~Contains(spec.post, 0) /\ (spec.post # <<>> => IsPointer(Head(spec.post))),
            type |-> [id |-> called.id, const |-> FALSE, mods |-> spec.post]]

-----------------------------------------------------------------------------
(***************************************************************************)
(* is_types_compatible.  A parameter or a return type is no function type, *)
(* so the recursion of the code ends one level down.                       *)
(***************************************************************************)
check_const(policy, a, b) ==
  \/ policy = "IGNORE"
  \/ a = b
  \/ policy = "MAY_BE_CONST" /\ a

\* Slip: the counts of arrays are not compared.
same_shape_uncounted(policy, a, b) ==
  /\ Len(a.mods) = Len(b.mods)
  /\ check_const(policy, a.const, b.const)
  /\ \A i \in 1..Len(a.mods) :
       /\ IsPointer(a.mods[i]) = IsPointer(b.mods[i])
       /\ check_const(policy, a.mods[i] = ConstPointer, b.mods[i] = ConstPointer)

same_shape(policy, a, b) ==
  /\ Len(a.mods) = Len(b.mods)
  /\ check_const(policy, a.const, b.const)
  /\ \A i \in 1..Len(a.mods) :
       /\ a.mods[i] = b.mods[i] \/ (IsPointer(a.mods[i]) /\ IsPointer(b.mods[i]))
       /\ check_const(policy, a.mods[i] = ConstPointer, b.mods[i] = ConstPointer)

\* Two integer types, whatever their const, and two pointers of one shape,
\* whatever they point to.
values_compatible(tab, a, b, policy) ==
  /\ same_shape(IF is_integer(tab, a) /\ is_integer(tab, b) THEN "IGNORE" ELSE policy, a, b)
  /\ a.id = b.id \/ (is_pointer(a) /\ is_pointer(b))

is_types_compatible(tab, a, b, policy) ==
  \/ values_compatible(tab, a, b, policy)
  \/ LET fa == tab[a.id]
          fb == tab[b.id]
      IN  /\ is_function(tab, a) /\ is_function(tab, b) /\ same_shape(policy, a, b)
          /\ values_compatible(tab, fa.returns[1], fb.returns[1], policy)
          /\ Len(fa.params) = Len(fb.params)
          /\ \A i \in 1..Len(fa.params) : values_compatible(tab, fa.params[i], fb.params[i], policy)

-----------------------------------------------------------------------------
(***************************************************************************)
(* type_info.                                                              *)
(***************************************************************************)
round_up(n, a) == IF n % a = 0 THEN n ELSE (n + (a - (n % a))) % SizeLimit

\* Slip: the field is put where the last one ends.
add_field_unaligned(tab, id, name, t) ==
  LET info == tab[id]
      field == [name |-> name, type |-> t, offset |-> info.size, size |-> size_of(tab, t)]
  IN  [tab EXCEPT ![id].fields = Append(@, field),
                  ![id].size = (field.offset + field.size) % SizeLimit,
                  ![id].align = Max({@, align_of(tab, t)})]

has_field(info, name) == \E i \in 1..Len(info.fields) : info.fields[i].name = name

add_field(tab, id, name, t) ==
  LET info == tab[id]
      field == [name |-> name, type |-> t, offset |-> round_up(info.size, align_of(tab, t)),
                size |-> size_of(tab, t)]
  IN  [tab EXCEPT ![id].fields = Append(@, field),
                  ![id].size = (field.offset + field.size) % SizeLimit,
                  ![id].align = Max({@, align_of(tab, t)})]

update_size(info) ==
  LET size == round_up(info.size, info.align)
  IN  IF size = 0 THEN 1 ELSE size
=============================================================================
