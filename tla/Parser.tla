------------------------------- MODULE Parser -------------------------------
(***************************************************************************)
(* The actions of the grammar (src/frontend/parser.cpp, rules.hpp): each   *)
(* reduction takes the values of its symbols from the parser's stack,      *)
(* builds nodes and edges of the tree, and leaves a value there.  A value  *)
(* is a node, a list of nodes or an optional node: here always a sequence. *)
(*                                                                         *)
(* Terminals and the choice of the reduction by the next token are left    *)
(* out (parentheses make any expr an expr1), so that a program is any      *)
(* sequence of reductions.  duplicate_subtree is the one of Forest.        *)
(***************************************************************************)
EXTENDS Integers, Sequences, SequencesExt, FiniteSets, FiniteSetsExt

CONSTANTS
  Parts,       \* the parts of the grammar that a program is made from
  MaxNodes,    \* bound on the nodes, by part
  MaxStack     \* bound on the values that wait, by part

AllParts == {"expressions", "compounds", "statements", "loops", "declarations", "functions"}

ASSUME ParserAssumption ==
  /\ Parts \subseteq AllParts
  /\ MaxNodes \in [AllParts -> Nat] /\ MaxStack \in [AllParts -> Nat]

VARIABLES
  part,     \* the part of the grammar
  graph,    \* ctx.ast: the nodes, each with its type and its edges
  stack     \* the values that the parser has not used yet

vars == <<part, graph, stack>>

\* The labels of edges; a list has the labels from its last one on.
Subscript == [VALUE |-> 0, IDX |-> 1]
BinaryOp  == [LEFT |-> 0, RIGHT |-> 1]
Cast      == [TYPE |-> 0, VALUE |-> 1]
Assign    == [LEFT |-> 0, RIGHT |-> 1]
Function  == [DECL |-> 0, BODY |-> 1, ARG0 |-> 2]
Structure == [TYPE |-> 0, FIELD0 |-> 1]
If        == [COND |-> 0, IF_STMT |-> 1, ELSE_STMT |-> 2]
For       == [INIT |-> 0, COND |-> 1, STEP |-> 2, STMT |-> 3]
Call      == [EXPR |-> 0, ARG0 |-> 1]
Only == 0      \* BASE of Deref and Get, OF, ARG, SIZE, TYPE of Declare, a value returned
First == 0     \* the first of a list that has no other labels

Kinds == {"Root", "ID", "Subscript", "Deref", "Addr", "Get", "SizeOf", "Initializer", "BinaryOp",
          "UnaryOp", "TypeSpec", "CallSign", "Ptr", "Arr", "Cast", "Declare", "Assign", "OpAssign",
          "Function", "Structure", "Block", "If", "For", "ForInit", "ForStep", "Return", "Call", "Break"}

F == INSTANCE Forest WITH NodeIds <- 1..Max({MaxNodes[p] : p \in AllParts}),
                          Data <- Kinds, Labels <- Nat

-----------------------------------------------------------------------------
(***************************************************************************)
(* Unit productions only pass their value on: what may stand for what.     *)
(***************************************************************************)
Expr == {"expr"}
Decl == {"decl"}
Type == {"type_spec"}
DeclAssign == {"decl", "decl_assign"}
ExprAssign == {"expr", "expr_assign"}
Stmt == {"stmt", "block"} \cup DeclAssign \cup ExprAssign

\* The lists of the grammar: their elements, and the symbol that one stands after.
Elements ==
  [call_args |-> Expr, expr_list |-> Expr, decl_list |-> Decl, struct_fields |-> Decl,
   type_list |-> Type, for_init |-> DeclAssign, for_step |-> ExprAssign, stmt_list |-> Stmt]
After == [call_args |-> Expr, decl_list |-> Decl, type_list |-> Type, for_step |-> {"for_cond"}]

Node(kind, edges) == [data |-> kind, forward |-> edges]
New(i) == Cardinality(DOMAIN graph) + i
Room(k) == New(k) <= MaxNodes[part]

\* The graph with these nodes, which are New(1), New(2), ...
Extended(nodes) ==
  [n \in DOMAIN graph \cup (New(1)..New(Len(nodes))) |->
     IF n \in DOMAIN graph THEN graph[n] ELSE nodes[n - Cardinality(DOMAIN graph)]]

\* The symbols on top of the stack are those of the right side.
Matches(symbols) ==
  LET k == Len(symbols)
  IN  /\ Len(stack) >= k
      /\ \A i \in 1..k : stack[Len(stack) - k + i].symbol \in symbols[i]
Arg(k, i) == stack[Len(stack) - k + i].value

Replace(k, symbol, value) ==
  /\ stack' = Append(SubSeq(stack, 1, Len(stack) - k), [symbol |-> symbol, value |-> value])
  /\ Len(stack') <= MaxStack[part]
  /\ UNCHANGED part

\* Edges to the given nodes: the first ones with these labels, the others from `rest` on.
Labelled(nodes, labels, rest) ==
  [i \in 1..Len(nodes) |->
     F!Edge(nodes[i], IF i <= Len(labels) THEN labels[i] ELSE rest + (i - Len(labels) - 1))]

\* Most rules make one node, with edges to the nodes of the right side.
Make(symbols, symbol, kind, labels, rest) ==
  /\ Room(1) /\ Matches(symbols)
  /\ LET k == Len(symbols)
         children == FlattenSeq([i \in 1..k |-> Arg(k, i)])
     IN  /\ graph' = Extended(<<Node(kind, Labelled(children, labels, rest))>>)
         /\ Replace(k, symbol, <<New(1)>>)

-----------------------------------------------------------------------------
(***************************************************************************)
(* Lists and the program.                                                  *)
(***************************************************************************)
start_list(list) ==
  /\ list \in DOMAIN After => Matches(<<After[list]>>)
  /\ Replace(0, list, <<>>)
  /\ UNCHANGED graph

push_back(list) ==
  /\ Matches(<<{list}, Elements[list]>>)
  /\ Replace(2, list, Arg(2, 1) \o Arg(2, 2))
  /\ UNCHANGED graph

\* make_root; the parser begins with it.
Init ==
  /\ part \in Parts
  /\ graph = [n \in {1} |-> Node("Root", <<>>)]
  /\ stack = <<[symbol |-> "program", value |-> <<1>>]>>

\* One more edge, labelled with its position.
Appended(g, n, child) == F!WithEdge(g, n, child, Len(g[n].forward))

add_global_stmt ==
  /\ Matches(<<{"program"}, DeclAssign \cup {"decl_function", "decl_struct", "global_stmt"}>>)
  /\ graph' = Appended(graph, Arg(2, 1)[1], Arg(2, 2)[1])
  /\ Replace(2, "program", Arg(2, 1))

-----------------------------------------------------------------------------
(***************************************************************************)
(* Expressions.                                                            *)
(***************************************************************************)

\* create_from_sv of a name or a literal.
create_from_sv == Make(<<>>, "expr", "ID", <<>>, First)

make_address     == Make(<<Expr>>, "expr", "Addr", <<Only>>, First)
make_dereference == Make(<<Expr>>, "expr", "Deref", <<Only>>, First)
make_subscript   == Make(<<Expr, Expr>>, "expr", "Subscript", <<Subscript.VALUE, Subscript.IDX>>, First)
make_dot_member  == Make(<<Expr>>, "expr", "Get", <<Only>>, First)
make_unary_op    == Make(<<Expr>>, "expr", "UnaryOp", <<Only>>, First)
make_sizeof      == Make(<<Expr \cup Type>>, "expr", "SizeOf", <<Only>>, First)
make_call        == Make(<<Expr, {"call_args"}>>, "expr", "Call", <<Call.EXPR>>, Call.ARG0)
make_initializer == Make(<<{"expr_list"}>>, "expr", "Initializer", <<>>, First)
make_binary_op   == Make(<<Expr, Expr>>, "expr", "BinaryOp", <<BinaryOp.LEFT, BinaryOp.RIGHT>>, First)

\* Slip: the labels in the order of the C-style cast in the comment.
make_cast_swapped == Make(<<Type, Expr>>, "expr", "Cast", <<Cast.VALUE, Cast.TYPE>>, First)
make_cast == Make(<<Type, Expr>>, "expr", "Cast", <<Cast.TYPE, Cast.VALUE>>, First)

make_edge_member ==
  /\ Room(2) /\ Matches(<<Expr>>)
  /\ graph' = Extended(<<Node("Get", <<F!Edge(New(2), Only)>>),
                         Node("Deref", <<F!Edge(Arg(1, 1)[1], Only)>>)>>)
  /\ Replace(1, "expr", <<New(1)>>)

\* 0uL as a pointer to void_t.
make_nullptr ==
  /\ Room(4)
  /\ graph' = Extended(<<Node("ID", <<>>), Node("TypeSpec", <<F!Edge(New(3), First)>>), Node("Ptr", <<>>),
                         Node("Cast", <<F!Edge(New(2), Cast.TYPE), F!Edge(New(1), Cast.VALUE)>>)>>)
  /\ Replace(0, "expr", <<New(4)>>)

\* The operation, and an assignment of it to `target`, on top of g.
OpAssignment(g, target, l, r) ==
  LET op == Cardinality(DOMAIN g) + 1
      with_op == F!WithEdge(F!WithEdge(F!WithNode(g, op, "BinaryOp"), op, l, BinaryOp.LEFT), op, r, BinaryOp.RIGHT)
  IN  F!WithEdge(F!WithEdge(F!WithNode(with_op, op + 1, "OpAssign"), op + 1, target, Assign.LEFT),
                 op + 1, op, Assign.RIGHT)

\* Slip: the left side is used in both places.
make_binary_assign_shared ==
  /\ Matches(<<Expr, Expr>>)
  /\ LET l == Arg(2, 1)[1]
     IN  /\ Room(2)
         /\ graph' = OpAssignment(graph, l, l, Arg(2, 2)[1])
         /\ Replace(2, "expr", <<New(2)>>)

\* Slip: only the node of the left side is copied, without what is below it.
make_binary_assign_flat ==
  /\ Matches(<<Expr, Expr>>)
  /\ LET l == Arg(2, 1)[1]
     IN  /\ Room(3)
         /\ graph' = OpAssignment(F!WithNode(graph, New(1), graph[l].data), New(1), l, Arg(2, 2)[1])
         /\ Replace(2, "expr", <<New(3)>>)

\* l op= r becomes an assignment of l op r to a copy of l.
make_binary_assign ==
  /\ Matches(<<Expr, Expr>>)
  /\ LET l == Arg(2, 1)[1]
         below == F!Reach(graph, l)
         size == Cardinality(below)
         copy == [n \in below |-> New(Cardinality({m \in below : m <= n}))]
     IN  /\ Room(size + 2)
         /\ graph' = OpAssignment(F!WithCopies(graph, copy), copy[l], l, Arg(2, 2)[1])
         /\ Replace(2, "expr", <<New(size + 2)>>)

-----------------------------------------------------------------------------
(***************************************************************************)
(* Types and declarations.                                                 *)
(***************************************************************************)
create_type == Make(<<>>, "type_spec", "TypeSpec", <<>>, First)

\* One more modifier of the type on top of the stack, itself with edges to `nodes`.
AddModifier(kind, nodes, k) ==
  /\ Room(1)
  /\ graph' = Appended(Extended(<<Node(kind, Labelled(nodes, <<>>, First))>>), Arg(k, 1)[1], New(1))
  /\ Replace(k, "type_spec", Arg(k, 1))

\* add_deref and add_const_deref; add_const_to_type changes no node but its own.
add_deref     == Matches(<<Type>>) /\ AddModifier("Ptr", <<>>, 1)
add_subscript == Matches(<<Type, Expr>>) /\ AddModifier("Arr", Arg(2, 2), 2)
add_call_sign == Matches(<<Type, {"type_list"}>>) /\ AddModifier("CallSign", Arg(2, 2), 2)

make_decl   == Make(<<Type>>, "decl", "Declare", <<Only>>, First)
decl_assign == Make(<<Decl, Expr>>, "decl_assign", "Assign", <<Assign.LEFT, Assign.RIGHT>>, First)

make_fn_decl == Make(<<Decl, {"decl_list"}>>, "decl_function", "Function", <<Function.DECL>>, Function.ARG0)

connect_with_body ==
  /\ Matches(<<{"decl_function"}, {"block"}>>)
  /\ graph' = F!WithEdge(graph, Arg(2, 1)[1], Arg(2, 2)[1], Function.BODY)
  /\ Replace(2, "global_stmt", Arg(2, 1))

\* make_struct_def, and make_struct_decl, which adds the fields to what it makes.
MakeStruct(fields, k) ==
  /\ Room(2)
  /\ graph' = Extended(<<Node("TypeSpec", <<>>),
                         Node("Structure", Labelled(<<New(1)>> \o fields, <<Structure.TYPE>>, Structure.FIELD0))>>)
  /\ Replace(k, "decl_struct", <<New(2)>>)

make_struct_def  == MakeStruct(<<>>, 0)
make_struct_decl == Matches(<<{"struct_fields"}>>) /\ MakeStruct(Arg(1, 1), 1)

-----------------------------------------------------------------------------
(***************************************************************************)
(* Statements.                                                             *)
(***************************************************************************)
make_assign == Make(<<Expr, Expr>>, "expr_assign", "Assign", <<Assign.LEFT, Assign.RIGHT>>, First)
make_block  == Make(<<{"stmt_list"}>>, "block", "Block", <<>>, First)
make_if     == Make(<<Expr, Stmt>>, "stmt", "If", <<If.COND, If.IF_STMT>>, First)
make_if_else ==
  Make(<<Expr, Stmt, Stmt>>, "stmt", "If", <<If.COND, If.IF_STMT, If.ELSE_STMT>>, First)
make_return == Make(<<Expr>>, "stmt", "Return", <<Only>>, First)

\* create_kwd of return, break and continue.
create_kwd == \E kind \in {"Return", "Break"} : Make(<<>>, "stmt", kind, <<>>, First)

for_cond ==
  \/ Matches(<<{"for_init"}>>) /\ Replace(0, "for_cond", <<>>) /\ UNCHANGED graph
  \/ Matches(<<{"for_init"}, Expr>>) /\ Replace(1, "for_cond", Arg(1, 1)) /\ UNCHANGED graph

\* The step has the label of the initialisation.
make_for ==
  /\ Room(3) /\ Matches(<<{"for_init"}, {"for_cond"}, {"for_step"}, Stmt>>)
  /\ graph' = Extended(<<Node("For", <<F!Edge(New(2), For.INIT)>>
                                     \o Labelled(Arg(4, 2), <<For.COND>>, First)
                                     \o <<F!Edge(New(3), For.INIT), F!Edge(Arg(4, 4)[1], For.STMT)>>),
                         Node("ForInit", Labelled(Arg(4, 1), <<>>, First)),
                         Node("ForStep", Labelled(Arg(4, 3), <<>>, First))>>)
  /\ Replace(4, "stmt", <<New(1)>>)

-----------------------------------------------------------------------------
Lists(names) == \E list \in names : start_list(list) \/ push_back(list)

Expressions ==
  \/ create_from_sv \/ make_address \/ make_dereference \/ make_subscript \/ make_dot_member
  \/ make_edge_member \/ make_unary_op \/ make_sizeof \/ make_call \/ make_initializer
  \/ make_binary_op \/ make_cast \/ make_nullptr \/ create_type
  \/ Lists({"call_args", "expr_list"})

Compounds == create_from_sv \/ make_dereference \/ make_subscript \/ make_binary_assign

Statements ==
  \/ create_from_sv \/ create_type \/ make_decl \/ decl_assign \/ make_assign
  \/ make_block \/ make_if \/ make_if_else \/ make_return \/ create_kwd
  \/ Lists({"stmt_list"})

Loops ==
  \/ create_from_sv \/ create_type \/ make_decl \/ create_kwd \/ for_cond \/ make_for
  \/ Lists({"for_init", "for_step"})

Declarations ==
  \/ create_from_sv \/ create_type \/ add_deref \/ add_subscript \/ add_call_sign
  \/ make_decl \/ decl_assign \/ make_struct_def \/ make_struct_decl \/ add_global_stmt
  \/ Lists({"type_list", "struct_fields"})

Functions ==
  \/ create_from_sv \/ create_type \/ make_decl \/ make_fn_decl \/ make_block \/ connect_with_body
  \/ add_global_stmt \/ Lists({"decl_list", "stmt_list"})

Next ==
  \/ part = "expressions" /\ Expressions
  \/ part = "compounds" /\ Compounds
  \/ part = "statements" /\ Statements
  \/ part = "loops" /\ Loops
  \/ part = "declarations" /\ Declarations
  \/ part = "functions" /\ Functions

Spec == Init /\ [][Next]_vars

-----------------------------------------------------------------------------
(***************************************************************************)
(* Properties.                                                             *)
(***************************************************************************)
Waiting == FlattenSeq([i \in 1..Len(stack) |-> stack[i].value])
Children(n) == [i \in 1..Len(graph[n].forward) |-> graph[n].forward[i].to]

\* What waits on the stack are trees, apart from each other, and together they
\* are all that was made: no rule loses a node, uses one twice or closes a cycle.
\* The checker writes a type into each node of such a tree once.
WholeForest ==
  LET below == UNION {F!Ends(graph, n) : n \in DOMAIN graph}
      edges == FoldSet(LAMBDA n, k : k + Len(graph[n].forward), 0, DOMAIN graph)
  IN  /\ below \subseteq DOMAIN graph
      /\ ToSet(Waiting) = DOMAIN graph \ below
      /\ Len(Waiting) + edges = Cardinality(DOMAIN graph)
      /\ UNION {F!Reach(graph, n) : n \in ToSet(Waiting)} = DOMAIN graph

\* The parts of a node as the checker asks for them (get_node, find_edge and its
\* loops over forward_edges): the labels that one child has each, those that a
\* child may have, and the label where a list begins; with the nodes that it
\* takes there.
Values == {"ID", "Subscript", "Deref", "Addr", "Get", "SizeOf", "Initializer", "BinaryOp", "UnaryOp",
           "Cast", "Call", "OpAssign"}
LocalStmts == Values \cup {"Declare", "Assign", "Block", "If", "For", "Return", "Break"}
Modifiers == {"Ptr", "Arr", "CallSign"}

Part(label, kinds) == [label |-> label, kinds |-> kinds]
NoList == Part(99, {})
Asked(one, may, list) == [one |-> one, may |-> may, list |-> list]
OneValue == Asked({Part(Only, Values)}, {}, NoList)
ListOf(kinds) == Asked({}, {}, Part(First, kinds))

AskedOf(kind) ==
  CASE kind = "Root" -> ListOf({"Declare", "Assign", "Function", "Structure"})
    [] kind \in {"ID", "Ptr", "Break"} -> Asked({}, {}, NoList)
    [] kind \in {"Deref", "Addr", "Get", "UnaryOp", "Arr"} -> OneValue
    [] kind = "SizeOf" -> Asked({Part(Only, Values \cup {"TypeSpec"})}, {}, NoList)
    [] kind = "Subscript" -> Asked({Part(Subscript.VALUE, Values), Part(Subscript.IDX, Values)}, {}, NoList)
    [] kind = "BinaryOp" -> Asked({Part(BinaryOp.LEFT, Values), Part(BinaryOp.RIGHT, Values)}, {}, NoList)
    [] kind = "OpAssign" -> Asked({Part(Assign.LEFT, Values), Part(Assign.RIGHT, {"BinaryOp"})}, {}, NoList)
    [] kind = "Assign" ->
         Asked({Part(Assign.LEFT, Values \cup {"Declare"}), Part(Assign.RIGHT, Values)}, {}, NoList)
    [] kind = "Cast" -> Asked({Part(Cast.TYPE, {"TypeSpec"}), Part(Cast.VALUE, Values)}, {}, NoList)
    [] kind = "Call" -> Asked({Part(Call.EXPR, Values)}, {}, Part(Call.ARG0, Values))
    [] kind = "Initializer" -> ListOf(Values)
    [] kind = "TypeSpec" -> ListOf(Modifiers)
    [] kind = "CallSign" -> ListOf({"TypeSpec"})
    [] kind = "Declare" -> Asked({Part(Only, {"TypeSpec"})}, {}, NoList)
    [] kind = "Function" ->
         Asked({Part(Function.DECL, {"Declare"})}, {Part(Function.BODY, {"Block"})}, Part(Function.ARG0, {"Declare"}))
    [] kind = "Structure" -> Asked({Part(Structure.TYPE, {"TypeSpec"})}, {}, Part(Structure.FIELD0, {"Declare"}))
    [] kind \in {"Block", "ForInit", "ForStep"} -> ListOf(LocalStmts)
    [] kind = "If" ->
         Asked({Part(If.COND, Values), Part(If.IF_STMT, LocalStmts)}, {Part(If.ELSE_STMT, LocalStmts)}, NoList)
    [] kind = "Return" -> Asked({}, {Part(Only, Values)}, NoList)
    [] kind = "For" ->
         Asked({Part(For.INIT, {"ForInit"}), Part(For.STMT, LocalStmts)}, {Part(For.COND, Values)}, NoList)

\* Every node has the children that the checker asks for, each of a kind that it
\* takes, under the label that it looks for; the elements of a list are numbered
\* in their order.  A step of a loop has the label of another child: what comes
\* of that is Checker's matter.
LabelsRight ==
  \A n \in DOMAIN graph :
    LET asked == AskedOf(graph[n].data)
        edges == SelectSeq(graph[n].forward, LAMBDA e : graph[e.to].data # "ForStep")
        at(l) == {i \in 1..Len(edges) : edges[i].label = l}
        single == {p.label : p \in asked.one \cup asked.may}
        list == SelectSeq(edges, LAMBDA e : e.label \notin single)
    IN  /\ \A p \in asked.one : Cardinality(at(p.label)) = 1
        /\ \A p \in asked.may : Cardinality(at(p.label)) <= 1
        /\ \A p \in asked.one \cup asked.may : \A i \in at(p.label) : graph[edges[i].to].data \in p.kinds
        /\ \A i \in 1..Len(list) : /\ list[i].label = asked.list.label + i - 1
                                   /\ graph[list[i].to].data \in asked.list.kinds

\* The first child under a label: get_node of the checker.
get_node(n, label) ==
  LET at == {i \in 1..Len(graph[n].forward) : graph[n].forward[i].label = label}
  IN  graph[n].forward[Min(at)].to

\* What a walk over a tree sees.
Spelled(n) ==
  LET spelled[m \in F!Reach(graph, n)] ==
        <<graph[m].data, [i \in 1..Len(Children(m)) |-> <<graph[m].forward[i].label, spelled[Children(m)[i]]>>]>>
  IN  spelled[n]

\* l op= r is l = l op r: the target of a compound assignment and the left side
\* of its operation are spelled alike, and apart from each other.
CompoundRight ==
  \A n \in DOMAIN graph : graph[n].data = "OpAssign" =>
    LET target == get_node(n, Assign.LEFT)
        left == get_node(get_node(n, Assign.RIGHT), BinaryOp.LEFT)
    IN  /\ Spelled(target) = Spelled(left)
        /\ F!Reach(graph, target) \cap F!Reach(graph, left) = {}
=============================================================================
