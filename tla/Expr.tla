-------------------------------- MODULE Expr --------------------------------
(***************************************************************************)
(* Expressions in the semantic checker (src/frontend/ast/                  *)
(* check_semantics.cpp): check_expr and the handlers it calls give an      *)
(* expression a type, is_lvalue says whether it designates an object, and  *)
(* eval_const computes it.  The three are recursions over one tree; here   *)
(* they go along together, from the leaves up, over a stack of operands    *)
(* that a handler takes its children from and leaves its result on.  The   *)
(* program is chosen while it is checked, one statement after the other;   *)
(* a refused expression ends its statement.                                *)
(*                                                                         *)
(* The table of types is fixed: how it grows is in Types.                  *)
(***************************************************************************)
EXTENDS TypeTable, Constants

CONSTANTS
  Table,           \* the types of the program
  Contexts,        \* where expressions stand: "local", "global", "count" of an array
  Vars,            \* the types of the names in scope, functions included
  Literals,        \* the literals that the programs use
  Ops,             \* the binary operators that they use
  CastTypes,       \* the types that they cast to, and declare variables with
  FieldNames,      \* the names of the fields that they ask for
  MaxOps,          \* bound on the operators of a statement, by context
  MaxOperands,     \* bound on the operands that wait
  NoType,          \* an expression without a type
  NoValue,         \* no constant, no number
  AssignOperands,  \* may a compound assignment be an operand?
  MixedBits,       \* may a constant apply & | ^ << >> to different types?
  ArrayCasts,      \* may an array be cast into one of another size?
  CastTargets,     \* may a cast be assigned to, or its address taken?
  WideCounts       \* may an array have a size that is no int32_t?

\* What make_node_type makes: no array of functions, no const function.
Entries == 1..Len(Table)
ProgramTypes ==
  {t \in [id : Entries, const : BOOLEAN, mods : Seq({Pointer, ConstPointer} \cup (Nat \ {0}))] :
     Table[t.id].kind = "function" => ~t.const /\ (t.mods # <<>> => IsPointer(t.mods[1]))}

IntegerSizes == {1, 2, 4, 8}
Basics == {i \in Entries : Table[i].kind = "basic"}
integer_entries(size, signed) ==
  {i \in Basics : /\ Table[i].size = size /\ (Table[i].name \in Signed) = signed
                  /\ Table[i].name \notin {"bool_t", "void_t"}}

\* The table of a program that has been checked: the basic types and what Types adds.
ASSUME TableAssumption ==
  /\ Len(Table) \in Nat /\ SizeLimit = Word
  /\ \A i \in Entries :
       LET info == Table[i]
       IN  /\ info.size \in 0..(SizeLimit - 1)
           /\ info.kind = "basic" => info.size \in IntegerSizes
           /\ info.kind = "function" => /\ info.size = 0 /\ info.returns[1] \in ProgramTypes
                                        /\ info.params \in Seq(ProgramTypes)
           /\ info.fields \in Seq(ToSet(info.fields))
           /\ \A f \in ToSet(info.fields) :
                /\ f.type \in ProgramTypes /\ ~is_function(Table, f.type)
                /\ f.size = size_of(Table, f.type)
  /\ \A size \in IntegerSizes, signed \in BOOLEAN : integer_entries(size, signed) # {}
  /\ get_id(Table, "int8_t") \in Basics

ASSUME ExprAssumption ==
  /\ Contexts \subseteq {"local", "global", "count"}
  /\ Vars \subseteq ProgramTypes /\ CastTypes \subseteq ProgramTypes /\ NoType \notin ProgramTypes
  /\ \A lit \in Literals :
       /\ lit.size \in IntegerSizes /\ lit.signed \in BOOLEAN
       /\ lit.value \in 0..(Modulus(lit.size) - 1)
  /\ MaxOps \in [{"local", "global", "count"} -> Nat] /\ MaxOperands \in Nat
  /\ Ops \subseteq Comparisons \cup Logic \cup BitOps \cup Arithmetic
  /\ {AssignOperands, MixedBits, ArrayCasts, CastTargets, WideCounts} \subseteq BOOLEAN

VARIABLES
  ctx,      \* the context of the statement
  stack,    \* the operands that are checked and not yet used
  ops,      \* the operators of the statement so far
  done,     \* history: what the last step stored, and where; or the array size it accepted
  ub        \* has something undefined been done?

vars == <<ctx, stack, ops, done, ub>>

-----------------------------------------------------------------------------
(***************************************************************************)
(* An operand: the type that check_expr wrote into its node, is_lvalue,    *)
(* the Literal that eval_const returns; and, as history, the number that   *)
(* it means and the object that it designates: whether that was declared   *)
(* const, whether what it points to was, how large it is.                  *)
(***************************************************************************)
Place(frozen, points, room) == [frozen |-> frozen, points |-> points, room |-> room]

\* Data that is declared const, and a pointer to such data.
Frozen(t) == ~is_function(Table, t) /\ declared_const(Table, t)
PointsToConst(t) == is_pointer(t) /\ Frozen(pointee_type(t))
PlaceOf(t) == Place(Frozen(t), PointsToConst(t), size_of(Table, t))
NoPlace == Place(FALSE, FALSE, 0)

Operand(type, lvalue, value, meaning, place) ==
  [type |-> type, lvalue |-> lvalue, value |-> value, meaning |-> meaning, place |-> place,
   list |-> FALSE, cast |-> FALSE]

\* A result of type t that is no lvalue and no constant.
Rvalue(t) == Operand(t, FALSE, NoValue, NoValue, IF t = NoType THEN NoPlace ELSE PlaceOf(t))

is_signed(t) == Table[t.id].name \in Signed
Type(i) == [id |-> i, const |-> FALSE, mods |-> <<>>]

make_integer_type(size, signed) ==
  Type(CHOOSE i \in integer_entries(size, signed) : TRUE)

make_boolean_type == make_integer_type(4, TRUE)

\* Slip: of two types of one size, the left one wins.
make_common_integer_type_left(l, r) ==
  LET a == Table[l.id]
      b == Table[r.id]
  IN  IF a.size >= b.size THEN make_integer_type(a.size, is_signed(l))
      ELSE make_integer_type(b.size, is_signed(r))

make_common_integer_type(l, r) ==
  LET a == Table[l.id]
      b == Table[r.id]
  IN  IF a.size = b.size THEN make_integer_type(a.size, is_signed(l) /\ is_signed(r))
      ELSE IF a.size > b.size THEN make_integer_type(a.size, is_signed(l))
      ELSE make_integer_type(b.size, is_signed(r))

-----------------------------------------------------------------------------
(***************************************************************************)
(* Steps of the stack.                                                     *)
(***************************************************************************)
Busy(k) == ~ub /\ Len(stack) >= k
Arg(k, i) == stack[Len(stack) - k + i]      \* the i-th of the k operands on top
CanApply(k) == Busy(k) /\ ops < MaxOps[ctx]

\* Only what the context asks for: eval_const is not called in functions, and
\* check_expr is not called for the size of an array.
Needed(o) ==
  IF ctx = "local" THEN [o EXCEPT !.value = NoValue, !.meaning = NoValue]
  ELSE [o EXCEPT !.place = NoPlace, !.lvalue = FALSE]

Refuse ==
  /\ stack' = <<>>
  /\ ops' = 0
  /\ done' = {}
  /\ UNCHANGED <<ctx, ub>>

GoWrong ==
  /\ ub' = TRUE
  /\ stack' = <<>>
  /\ ops' = 0
  /\ done' = {}
  /\ UNCHANGED ctx

\* The statement is accepted.
Finish(moves) ==
  /\ stack' = <<>>
  /\ ops' = 0
  /\ done' = moves
  /\ UNCHANGED <<ctx, ub>>

\* An operator replaces the top k operands by o.
Replace(k, o, moves) ==
  /\ stack' = Append(SubSeq(stack, 1, Len(stack) - k), Needed(o))
  /\ ops' = ops + 1
  /\ done' = moves
  /\ UNCHANGED <<ctx, ub>>

\* An assignment among the top k operands has no type for a handler to read.
Untyped(k) == ctx # "count" /\ \E i \in 1..k : Arg(k, i).type = NoType

Typed(k) == \A i \in 1..k : Arg(k, i).type # NoType /\ ~Arg(k, i).list

\* check_expr of an operator over the top k operands: `type` is what its handler
\* says, or NoType if it refuses; eval_const comes to `outcome`.
Apply(k, type, lvalue, place, cast, outcome, meaning) ==
  LET known == outcome.kind = "value"
      o == Operand(type, lvalue, IF known THEN outcome.lit ELSE NoValue,
                   IF known THEN meaning ELSE NoValue, place)
  IN  IF Untyped(k) THEN GoWrong
      ELSE IF type = NoType /\ ctx # "count" THEN Refuse
      ELSE IF outcome.kind = "undefined" /\ ctx # "local" THEN GoWrong
      ELSE Replace(k, [o EXCEPT !.cast = cast], {})

\* Operators that no constant has.
ApplyVariable(k, type, lvalue, place, cast) ==
  Apply(k, type, lvalue, IF type = NoType THEN NoPlace ELSE place, cast, Throw, NoValue)

-----------------------------------------------------------------------------
(***************************************************************************)
(* check_expr of the leaves.                                               *)
(***************************************************************************)
Push(o) ==
  /\ ~ub /\ Len(stack) < MaxOperands
  /\ stack' = Append(stack, Needed(o))
  /\ done' = {}
  /\ UNCHANGED <<ctx, ops, ub>>

check_name(t) == Push(Operand(t, TRUE, NoValue, NoValue, PlaceOf(t)))

check_literal(lit) ==
  LET t == make_integer_type(lit.size, lit.signed)
  IN  Push(Operand(t, FALSE, lit, Wrapped(lit.value, lit.size, lit.signed), PlaceOf(t)))

check_string ==
  Push(Rvalue([id |-> get_id(Table, "int8_t"), const |-> TRUE, mods |-> <<Pointer>>]))

-----------------------------------------------------------------------------
(***************************************************************************)
(* Operators.                                                              *)
(***************************************************************************)
binary_type(op, a, b) ==
  LET integers == is_integer(Table, a) /\ is_integer(Table, b)
      pointers == is_pointer(a) /\ is_pointer(b)
  IN  CASE op \in Comparisons \cup Logic ->
             IF integers \/ (pointers /\ op \in {"==", "!="}) THEN make_boolean_type ELSE NoType
        [] op \in BitOps -> IF integers THEN a ELSE NoType
        [] op \in Arithmetic -> IF integers THEN make_common_integer_type(a, b) ELSE NoType

check_binary_op ==
  /\ CanApply(2)
  /\ \E op \in Ops :
     LET l == Arg(2, 1)
         r == Arg(2, 2)
         type == IF Typed(2) THEN binary_type(op, l.type, r.type) ELSE NoType
         constant == l.value # NoValue /\ r.value # NoValue
         known == l.meaning # NoValue /\ r.meaning # NoValue
         outcome == IF constant THEN apply_binary(op, l.value, r.value) ELSE Throw
     IN  /\ constant /\ op \in BitOps /\ ~MixedBits =>
              l.value.size = r.value.size /\ l.value.signed = r.value.signed
         /\ Apply(2, type, FALSE, IF type = NoType THEN NoPlace ELSE PlaceOf(type), FALSE, outcome,
                  IF outcome.kind = "value" /\ known THEN BinaryMeaning(op, l.meaning, r.meaning) ELSE NoValue)

check_unary_op(op) ==
  /\ CanApply(1)
  /\ LET o == Arg(1, 1)
         type == IF ~Typed(1) \/ ~is_integer(Table, o.type) THEN NoType
                 ELSE IF op = "!" THEN make_boolean_type ELSE o.type
     IN  Apply(1, type, FALSE, IF type = NoType THEN NoPlace ELSE PlaceOf(type), FALSE,
               IF o.value = NoValue THEN Throw ELSE apply_unary(op, o.value),
               IF o.meaning = NoValue THEN NoValue ELSE UnaryMeaning(op, o.meaning))

\* The object of type t that a pointer or an array of this place gives.
Pointee(o, t) ==
  Place(IF is_array(o.type) THEN o.place.frozen ELSE o.place.points, PointsToConst(t), size_of(Table, t))

check_subscript ==
  /\ CanApply(2)
  /\ LET o == Arg(2, 1)
         good == /\ Typed(2)
                 /\ is_array(o.type) \/ is_pointer(o.type)
                 /\ is_integer(Table, Arg(2, 2).type)
         type == IF good THEN pointee_type(o.type) ELSE NoType
     IN  ApplyVariable(2, type, o.lvalue, Pointee(o, type), o.cast)

check_deref ==
  /\ CanApply(1)
  /\ LET o == Arg(1, 1)
         type == IF Typed(1) /\ is_pointer(o.type) THEN pointee_type(o.type) ELSE NoType
     IN  ApplyVariable(1, type, TRUE, Pointee(o, type), FALSE)

check_addr ==
  /\ CanApply(1) /\ (Arg(1, 1).cast => CastTargets)
  /\ LET o == Arg(1, 1)
         type == IF Typed(1) /\ o.lvalue THEN [o.type EXCEPT !.mods = Append(@, Pointer)] ELSE NoType
     IN  ApplyVariable(1, type, FALSE, Place(FALSE, o.place.frozen, PtrSize), FALSE)

\* The place of the field f in the structure o, or 0.
field_index(o, f) ==
  IF Typed(1) /\ is_struct(Table, o.type)
    THEN SelectInSeq(Table[o.type.id].fields, LAMBDA g : g.name = f) ELSE 0

\* Slip: a field of a const structure may be changed.
check_get_mutable(f) ==
  /\ CanApply(1)
  /\ LET o == Arg(1, 1)
         i == field_index(o, f)
         field == Table[o.type.id].fields[i]
         type == IF i = 0 THEN NoType ELSE field.type
     IN  ApplyVariable(1, type, o.lvalue,
           Place(o.place.frozen \/ Frozen(field.type), PointsToConst(field.type), field.size),
           o.cast)

\* The field of a structure that is const, or has a const field, is const.
check_get(f) ==
  /\ CanApply(1)
  /\ LET o == Arg(1, 1)
         i == field_index(o, f)
         field == Table[o.type.id].fields[i]
         type == IF i = 0 THEN NoType
                 ELSE IF is_const(Table, o.type) THEN as_const(field.type) ELSE field.type
     IN  ApplyVariable(1, type, o.lvalue,
           Place(o.place.frozen \/ Frozen(field.type), PointsToConst(field.type), field.size),
           o.cast)

\* What check_cast takes: between integers and pointers, from an array to a
\* pointer, between any two arrays, and whatever is compatible.
castable(to, from) ==
  \/ is_pointer(to) /\ (is_integer(Table, from) \/ is_array(from))
  \/ is_integer(Table, to) /\ (is_integer(Table, from) \/ is_pointer(from))
  \/ is_array(to) /\ is_array(from)
  \/ is_types_compatible(Table, to, from, "IGNORE")

\* eval_const of a cast: by size and sign of the entry of the table, which for a
\* pointer is the one that it points to.
eval_cast(o, t) ==
  IF o.value = NoValue \/ ~(is_integer(Table, t) \/ is_pointer(t)) THEN Throw
  ELSE Outcome(converted(o.value, Table[t.id].size, is_signed(t)))

CastMeaning(o, t) ==
  IF o.meaning = NoValue \/ ~is_integer(Table, t) THEN NoValue
  ELSE Wrapped(o.meaning.v, Table[t.id].size, is_signed(t))

\* A cast is an lvalue, of the same object, if its operand is one; of two arrays,
\* the room is that of the operand.
check_cast ==
  /\ CanApply(1)
  /\ \E t \in CastTypes :
     LET o == Arg(1, 1)
         good == /\ o.type # NoType
                 /\ o.list => o.type = t
                 /\ castable(t, o.type)
         both_arrays == o.type # NoType /\ is_array(t) /\ is_array(o.type)
     IN  /\ both_arrays /\ ~ArrayCasts => size_of(Table, t) = size_of(Table, o.type)
         /\ Apply(1, IF good THEN t ELSE NoType, o.lvalue,
                  Place(o.lvalue /\ o.place.frozen, PointsToConst(t),
                        IF both_arrays THEN o.place.room ELSE size_of(Table, t)),
                  TRUE, eval_cast(o, t), CastMeaning(o, t))

\* A place of some type gets the value of an operand.
Move(kind, type, place, o) == [kind |-> kind, type |-> type, place |-> place, from |-> o.place]

\* check_call of a callee with k arguments.
check_call(k) ==
  /\ CanApply(k + 1)
  /\ LET callee == Arg(k + 1, 1)
         fn == Table[callee.type.id]
         arg(i) == Arg(k + 1, i + 1)
         good == /\ Typed(k + 1) /\ is_function(Table, callee.type)
                 /\ Len(fn.params) = k
                 /\ \A i \in 1..k : is_types_compatible(Table, fn.params[i], arg(i).type, "MAY_BE_CONST")
     IN  IF good
           THEN Replace(k + 1, Rvalue(fn.returns[1]),
                  {Move("pass", fn.params[i], PlaceOf(fn.params[i]), arg(i)) : i \in 1..k})
           ELSE ApplyVariable(k + 1, NoType, FALSE, NoPlace, FALSE)

\* check_sizeof, and eval_const of a sizeof, which takes an incomplete type too.
sizeof(k, t) ==
  LET size == IF t = NoType THEN 0 ELSE size_of(Table, t)
      good == t # NoType /\ ~is_function(Table, t)
      uint64 == make_integer_type(8, FALSE)
  IN  Apply(k, IF good /\ size # 0 THEN uint64 ELSE NoType, FALSE, PlaceOf(uint64), FALSE,
            IF good THEN Outcome(Literal(size % Word, 8, FALSE)) ELSE Throw,
            Number(size, 8, FALSE))

check_sizeof_expr == CanApply(1) /\ sizeof(1, IF Typed(1) THEN Arg(1, 1).type ELSE NoType)
check_sizeof_type == CanApply(0) /\ Len(stack) < MaxOperands /\ \E t \in CastTypes : sizeof(0, t)

\* check_initializer of an array or a structure of a type t by the k operands on top.
\* In the global context a scalar element must be constant.
check_initializer(k) ==
  /\ CanApply(k) /\ ctx # "count" /\ Len(stack) - k < MaxOperands
  /\ \E t \in CastTypes :
     LET fields == Table[t.id].fields
         capacity == IF is_array(t) THEN Last(t.mods) ELSE Len(fields)
         wanted(i) == IF is_array(t) THEN pointee_type(t) ELSE fields[i].type
         scalar(u) == is_pointer(u) \/ is_integer(Table, u)
         good == /\ is_array(t) \/ is_struct(Table, t)
                 /\ k <= capacity
                 /\ \A i \in 1..k :
                      /\ IF Arg(k, i).list THEN Arg(k, i).type = wanted(i)
                         ELSE is_types_compatible(Table, Arg(k, i).type, wanted(i), "IGNORE")
                      /\ ctx = "global" /\ scalar(wanted(i)) => Arg(k, i).value # NoValue
     IN  IF Untyped(k) THEN GoWrong
         ELSE IF ~good THEN Refuse
         ELSE Replace(k, [Rvalue(t) EXCEPT !.list = TRUE], {})

-----------------------------------------------------------------------------
(***************************************************************************)
(* Statements.                                                             *)
(***************************************************************************)

\* The tests at the end of check_assignment, for a value of some type.
assignable(left, type) ==
  left.lvalue /\ ~is_const(Table, left.type) /\ is_types_compatible(Table, left.type, type, "IGNORE")

\* check_assignment without a declaration: the right side is checked first.
check_assignment ==
  /\ ctx = "local" /\ Busy(2) /\ Len(stack) = 2
  /\ LET right == stack[1]
         left == stack[2]
     IN  /\ left.cast => CastTargets
         /\ IF Untyped(2) THEN GoWrong
            ELSE IF Typed(2) /\ assignable(left, right.type)
              THEN Finish({Move("assign", left.type, left.place, right)})
            ELSE Refuse

\* check_assignment of a compound one, whose right side is the binary operation
\* on a copy of the left one.  No type is given to the node of an assignment.
check_compound_assignment ==
  /\ ctx = "local" /\ Busy(2)
  /\ \E op \in Ops \cap (BitOps \cup Arithmetic) :
     LET left == Arg(2, 1)
         type == IF Typed(2) THEN binary_type(op, left.type, Arg(2, 2).type) ELSE NoType
     IN  /\ left.cast => CastTargets
         /\ IF Untyped(2) THEN GoWrong
            ELSE IF type = NoType THEN Refuse
            ELSE IF ~assignable(left, type) THEN Refuse
            ELSE \/ Len(stack) = 2 /\ Finish({Move("assign", left.type, left.place, Rvalue(type))})
                 \/ /\ AssignOperands /\ ops < MaxOps[ctx]
                    /\ Replace(2, Rvalue(NoType),
                               {Move("assign", left.type, left.place, Rvalue(type))})

\* check_assignment of a declaration with an initializer.
check_declaration ==
  /\ ctx # "count" /\ Busy(1) /\ Len(stack) = 1
  /\ \E t \in CastTypes :
     LET right == stack[1]
         good == /\ IF right.list THEN right.type = t
                    ELSE is_types_compatible(Table, right.type, t, "IGNORE")
                 /\ ctx = "global" => right.list \/ right.value # NoValue
                 /\ validate_type(Table, t, TRUE, FALSE)
                 /\ is_types_compatible(Table, t, right.type, "IGNORE")
     IN  IF Untyped(1) THEN GoWrong
         ELSE IF good THEN Finish({Move("init", t, PlaceOf(t), right)})
         ELSE Refuse

\* check_return of a value, in a function that returns t.
check_return ==
  /\ ctx = "local" /\ Busy(1) /\ Len(stack) = 1
  /\ \E t \in CastTypes :
     IF Untyped(1) THEN GoWrong
     ELSE IF Typed(1) /\ ~is_void(Table, t) /\ is_types_compatible(Table, t, stack[1].type, "MAY_BE_CONST")
       THEN Finish({Move("pass", t, PlaceOf(t), stack[1])})
     ELSE Refuse

\* check_condition.
check_condition ==
  /\ ctx = "local" /\ Busy(1) /\ Len(stack) = 1
  /\ IF Untyped(1) THEN GoWrong
     ELSE IF Typed(1) /\ is_integer(Table, stack[1].type) THEN Finish({}) ELSE Refuse

\* check_stmt of an expression: nobody asks for its type.
check_stmt ==
  /\ ctx = "local" /\ Len(stack) = 1 /\ ~stack[1].list
  /\ ~ub /\ Finish({})

\* Slip: a negative size is not refused.
array_size_unsigned ==
  /\ ctx = "count" /\ Busy(1) /\ Len(stack) = 1
  /\ LET o == stack[1]
         count == converted(o.value, 8, FALSE).value
     IN  IF o.value = NoValue THEN Refuse
         ELSE IF count = 0 THEN Refuse
         ELSE Finish({[kind |-> "count", count |-> count, meaning |-> o.meaning]})

\* The size of an array in make_node_type: it is refused if it is zero, or if its
\* low 32 bits are a negative int32_t.
array_size ==
  /\ ctx = "count" /\ Busy(1) /\ Len(stack) = 1
  /\ LET o == stack[1]
         count == converted(o.value, 8, FALSE).value
         low == count % Modulus(4)
     IN  IF o.value = NoValue THEN Refuse
         ELSE IF count = 0 \/ low >= Modulus(4) \div 2 THEN Refuse
         ELSE /\ o.meaning # NoValue => WideCounts \/ o.meaning.v \in -(Modulus(4) \div 2)..(Modulus(4) \div 2 - 1)
              /\ Finish({[kind |-> "count", count |-> count, meaning |-> o.meaning]})

Init ==
  /\ ctx \in Contexts
  /\ stack = <<>>
  /\ ops = 0
  /\ done = {}
  /\ ub = FALSE

Next ==
  \/ \E t \in Vars : check_name(t)
  \/ \E lit \in Literals : check_literal(lit)
  \/ check_string
  \/ check_binary_op \/ check_compound_assignment
  \/ \E op \in {"-", "~", "!"} : check_unary_op(op)
  \/ check_subscript \/ check_deref \/ check_addr
  \/ \E f \in FieldNames : check_get(f)
  \/ \E k \in 0..MaxOperands : check_call(k) \/ check_initializer(k)
  \/ check_cast \/ check_sizeof_expr \/ check_sizeof_type
  \/ check_declaration \/ check_return
  \/ check_assignment \/ check_condition \/ check_stmt \/ array_size

Spec == Init /\ [][Next]_vars

-----------------------------------------------------------------------------
(***************************************************************************)
(* Properties.                                                             *)
(***************************************************************************)

\* eval_const comes to the number that the language gives the expression, through
\* every conversion to the common type of two operands and to the type of a cast
\* (Literal::apply, convert_to and sign_extend, types.cpp).
EvalRight ==
  \A i \in 1..Len(stack) :
    LET o == stack[i]
    IN  o.value # NoValue /\ o.meaning # NoValue => Denotes(o.value, o.meaning)

\* check_expr and eval_const, which decide on types apart from each other, agree:
\* a global's initial value has the size and the sign of the type it was given.
EvalTyped ==
  \A i \in 1..Len(stack) :
    LET o == stack[i]
    IN  ctx = "global" /\ o.value # NoValue /\ is_integer(Table, o.type) =>
          /\ o.value.size = size_of(Table, o.type)
          /\ o.value.signed = is_signed(o.type)

\* An array that is accepted has as many elements as the program says, and that
\* is a positive number (the tests of make_node_type on an unsigned word).
CountRight ==
  \A d \in done :
    d.kind = "count" /\ d.meaning # NoValue => d.count = d.meaning.v /\ d.meaning.v > 0

\* What lies inside an entry of the table, itself included, four structures deep.
ByValue(t, id) == t.id = id /\ element(t).mods = <<>>
Within == {p \in Entries \X Entries : p[1] = p[2] \/ \E f \in ToSet(Table[p[1]].fields) : ByValue(f.type, p[2])}
Compose(Q, R) == {p \in Entries \X Entries : \E j \in Entries : <<p[1], j>> \in Q /\ <<j, p[2]>> \in R}
Twice == Compose(Within, Within)
Parts == Compose(Twice, Twice)

\* An object of type t holds, as it is, something frozen.
HoldsFrozen(t) ==
  \/ Frozen(t)
  \/ \E p \in Parts : ByValue(t, p[1]) /\ \E f \in ToSet(Table[p[2]].fields) : Frozen(f.type)

\* Nothing declared const is assigned to, however it is reached: through arrays,
\* fields, pointers and addresses, or as a part of what is assigned (check_get,
\* check_subscript, check_addr and is_const); and no function gets a pointer to
\* something const without the promise to leave it.
ConstKept ==
  \A d \in done :
    /\ d.kind = "assign" => ~d.place.frozen /\ ~HoldsFrozen(d.type)
    /\ d.kind = "pass" /\ d.from.points => PointsToConst(d.type)

\* A value fills the object that it is stored in: what is assigned, passed,
\* returned or put into a variable is as large as the place (is_types_compatible
\* after check_cast).
FitsObject ==
  \A d \in done :
    d.kind \in {"assign", "pass", "init"} /\ ctx = "local" => d.from.room = d.place.room

\* What check_expr has accepted has a type: the handlers assert it of their
\* operands before they read it (check_binary_op, check_condition and others).
TypedWhenAccepted ==
  ctx # "count" => \A i \in 1..Len(stack) : stack[i].type # NoType
=============================================================================
