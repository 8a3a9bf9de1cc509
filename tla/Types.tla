-------------------------------- MODULE Types --------------------------------
(***************************************************************************)
(* The handlers of the semantic checker that put types into the table      *)
(* (TypeTable): make_node_type, check_structure, and check_call and        *)
(* check_return, which keep a reference into the table while they check    *)
(* expressions that may put new types into it.                             *)
(***************************************************************************)
EXTENDS TypeTable

CONSTANTS
  Structs,      \* names for structures
  FieldNames,
  Specs,        \* the type specifiers that the programs use
  ArgLists,     \* the argument lists of their calls, each argument the sizeof of one
  SelfFields,   \* may a structure with a field already have one of its own type?
  MaxFields     \* bound on the fields of all structures together

Names == DOMAIN BasicSize \cup Structs
Modifiers == {Pointer, ConstPointer} \cup Nat
PlainSpec == [base : Names, const : BOOLEAN, mods : Seq(Modifiers),
              call : {FALSE}, params : {<<>>}, post : {<<>>}]
TypeSpec == [base : Names, const : BOOLEAN, mods : Seq(Modifiers),
             call : BOOLEAN, params : Seq(PlainSpec), post : Seq(Modifiers)]

ASSUME TypesAssumption ==
  /\ DOMAIN BasicSize \cap Structs = {} /\ NoName \notin Structs
  /\ Specs \subseteq TypeSpec /\ ArgLists \subseteq Seq(TypeSpec)
  /\ SelfFields \in BOOLEAN /\ MaxFields \in Nat

VARIABLES
  types,     \* TypeTable::types; an id is a position
  open,      \* the id of the structure whose body is being checked, or 0
  ok,        \* check_structure's flag
  errors,    \* whether an error has been inserted
  defined,   \* history: ids of the structures whose body was accepted
  ub         \* has a reference been used that a growth of the table took away?

vars == <<types, open, ok, errors, defined, ub>>

-----------------------------------------------------------------------------
AllFields == UNION {{<<i, k>> : k \in 1..Len(types[i].fields)} : i \in 1..Len(types)}

\* No handler is in the middle of a structure, and none has gone wrong.
Idle == open = 0 /\ ~ub

\* TypeTable().
Init ==
  /\ types = [i \in 1..Cardinality(DOMAIN BasicSize) |-> Basic(SetToSeq(DOMAIN BasicSize)[i])]
  /\ open = 0
  /\ ok = TRUE
  /\ errors = FALSE
  /\ defined = {}
  /\ ub = FALSE

with_struct(s) == IF has_type(types, s) THEN types ELSE Append(types, Structure(s))

\* check_structure of a forward declaration.
declare_structure(s) ==
  /\ Idle
  /\ types' = with_struct(s)
  /\ UNCHANGED <<open, ok, errors, defined, ub>>

\* check_structure up to the fields: a structure with a size is refused.
begin_structure(s) ==
  /\ Idle
  /\ types' = with_struct(s)
  /\ LET id == get_id(types', s)
     IN  IF types'[id].size # 0
           THEN errors' = TRUE /\ UNCHANGED <<open, ok>>
           ELSE open' = id /\ ok' = TRUE /\ UNCHANGED errors
  /\ UNCHANGED <<defined, ub>>

\* One turn of the loop over the fields.
check_field(name, spec) ==
  /\ open # 0
  /\ Cardinality(AllFields) < MaxFields
  /\ LET made == make_node_type(types, spec)
         good == /\ made.ok
                 /\ validate_type(made.tab, made.type, TRUE, FALSE)
                 /\ ~has_field(types[open], name)
     IN  /\ types' = IF good THEN add_field(made.tab, open, name, made.type) ELSE made.tab
         /\ ok' = (ok /\ good)
         /\ errors' = (errors \/ ~good)
         /\ good /\ ~SelfFields => ~(made.type.id = open /\ element(made.type).mods = <<>>)
  /\ UNCHANGED <<open, defined, ub>>

\* The end of check_structure.
end_structure ==
  /\ open # 0
  /\ types' = IF ok THEN [types EXCEPT ![open].size = update_size(types[open])] ELSE types
  /\ defined' = IF ok THEN defined \cup {open} ELSE defined
  /\ open' = 0
  /\ UNCHANGED <<ok, errors, ub>>

\* declare_variable, as far as the table knows of it.
declare_variable(spec) ==
  /\ Idle
  /\ LET made == make_node_type(types, spec)
     IN  /\ types' = made.tab
         /\ errors' = (errors \/ ~made.ok \/ ~validate_type(made.tab, made.type, TRUE, FALSE))
  /\ UNCHANGED <<open, ok, defined, ub>>

\* A program can declare a function of any of these types, and then has a callee
\* and a body to return from, without a new entry in the table.
FunctionIds == {i \in 1..Len(types) : types[i].kind = "function"}

\* check_sizeof of a type: the table after it, and whether there is a size.
check_sizeof(tab, spec) ==
  LET made == make_node_type(tab, spec)
  IN  [tab |-> made.tab,
       ok |-> made.ok /\ ~is_function(made.tab, made.type) /\ size_of(made.tab, made.type) # 0]

\* What the arguments up to the i-th leave, for each i, when they are checked in order.
check_args(args) ==
  LET after[i \in 0..Len(args)] ==
        IF i = 0 THEN [tab |-> types, ok |-> TRUE] ELSE check_sizeof(after[i - 1].tab, args[i])
  IN  after

\* check_call of a callee of the function type id: `fn` refers into the table;
\* each argument that is checked without error is compared with a parameter of
\* fn, and when all fit, the return type of fn is read.  When an argument has
\* put a type into the table, the vector may have moved.  `fit` is the outcome of
\* the comparisons.
check_call(id, args, fit) ==
  /\ Idle
  /\ IF Len(args) # Len(types[id].params)
       THEN errors' = TRUE /\ UNCHANGED <<types, ub>>
       ELSE LET after == check_args(args)
            IN  /\ types' = after[Len(args)].tab
                /\ errors' = (errors \/ ~fit \/ \E i \in 1..Len(args) : ~after[i].ok)
                /\ ub' \in {FALSE, \E i \in 1..Len(args) : after[i].ok /\ after[i].tab # types}
  /\ UNCHANGED <<open, ok, defined>>

\* check_return of the sizeof of a type, in a function of the type id: `ret`
\* refers into the table before and after the value is checked.
check_return(id, spec, fit) ==
  /\ Idle
  /\ LET value == check_sizeof(types, spec)
     IN  IF is_void(types, types[id].returns[1])
           THEN errors' = TRUE /\ UNCHANGED <<types, ub>>
           ELSE /\ types' = value.tab
                /\ errors' = (errors \/ ~value.ok \/ ~fit)
                /\ ub' \in {FALSE, value.ok /\ value.tab # types}
  /\ UNCHANGED <<open, ok, defined>>

Next ==
  \/ \E s \in Structs : declare_structure(s) \/ begin_structure(s)
  \/ \E name \in FieldNames, spec \in Specs : check_field(name, spec)
  \/ end_structure
  \/ \E spec \in Specs : declare_variable(spec)
  \/ \E id \in FunctionIds, args \in ArgLists, fit \in BOOLEAN : check_call(id, args, fit)
  \/ \E id \in FunctionIds, spec \in Specs, fit \in BOOLEAN : check_return(id, spec, fit)

Spec == Init /\ [][Next]_vars

-----------------------------------------------------------------------------
(***************************************************************************)
(* Properties.                                                             *)
(***************************************************************************)
Ids == 1..Len(types)
Type(t) ==
  /\ t.id \in Ids /\ t.const \in BOOLEAN
  /\ t.mods \in Seq({Pointer, ConstPointer} \cup (Nat \ {0}))

\* Every variable ranges over what its type allows; an id that a type refers to
\* is in the table.
TypeOK ==
  /\ \A i \in Ids :
       /\ types[i].kind \in {"basic", "struct", "function"}
       /\ types[i].size \in 0..(SizeLimit - 1) /\ types[i].align \in Nat \ {0}
       /\ \A k \in 1..Len(types[i].fields) : Type(types[i].fields[k].type)
       /\ \A k \in 1..Len(types[i].params) : Type(types[i].params[k])
       /\ types[i].kind = "function" => Type(types[i].returns[1])
  /\ open \in Ids \cup {0}
  /\ ok \in BOOLEAN /\ errors \in BOOLEAN /\ ub \in BOOLEAN
  /\ defined \subseteq Ids

\* The fields of a structure that was accepted lie one after the other, each
\* aligned, inside of the structure, whose alignment serves every field and
\* divides its size, so that arrays of it keep its elements aligned.
LayoutSound ==
  \A s \in defined :
    LET info == types[s]
        last == Len(info.fields)
        end(k) == info.fields[k].offset + info.fields[k].size
    IN  /\ \A k \in 1..last :
             /\ info.fields[k].offset % align_of(types, info.fields[k].type) = 0
             /\ info.align % align_of(types, info.fields[k].type) = 0
             /\ end(k) <= IF k = last THEN info.size ELSE info.fields[k + 1].offset
        /\ info.size % info.align = 0

\* The size that a field was given is the size of its type ever after: no type
\* that is used by value, alone or in an array, is incomplete or grows later,
\* also after errors.
FieldSizesFresh ==
  \A i \in Ids : \A k \in 1..Len(types[i].fields) :
    LET field == types[i].fields[k]
    IN  field.size = size_of(types, field.type) /\ size_of(types, element(field.type)) # 0

\* "Defining the same struct twice is rejected": once its body was accepted, a
\* structure does not change.
DefinedOnce == [][\A s \in defined : types'[s] = types[s]]_vars

\* The table has one entry for each structure and for each function type.
NoDuplicates ==
  \A i, j \in Ids :
    types[i].kind = types[j].kind /\ types[i].name = types[j].name
      /\ types[i].returns = types[j].returns /\ types[i].params = types[j].params => i = j

HasByValue(s, i) ==
  \E k \in 1..Len(types[s].fields) :
    types[s].fields[k].type.id = i /\ element(types[s].fields[k].type).mods = <<>>

\* "A struct field may not have an incomplete type by value": no structure
\* contains itself, directly or through others (is_const would not return).
NotInItself ==
  \A S \in SUBSET {i \in Ids : types[i].kind = "struct"} :
    S # {} => \E s \in S : \A i \in S : ~HasByValue(s, i)

\* "Every insertion into TypesTable grows the vector and may invalidate
\* reference": no handler uses a reference that it took before an insertion.
ReferencesLive == ~ub
=============================================================================
