# A verification development of r04-compiler

TLA+ models of the compiler front end in `src/`, the TLC configurations that
check them on small instances, and proofs checked by TLAPS. Every definition
that stands for code is listed in `PROJECT.json` under `map`, with the lines it
stands for.

The whole program runs in one thread. What makes it hard is not concurrency
but *identity and state over long sequences of calls*: containers that hand out
iterators and must keep them good, a graph kept in four redundant views,
handlers that return early and leave scopes and pointers behind, and agreement
between parts that know of each other only through a label on an edge.

## 1. Inventory

| Component | State | Operations | What makes it correct |
|---|---|---|---|
| `bitset` (`tools/bitset.hpp`) | one integer | first free, first used, full, empty, set, unset | indexes stay in the width; -1 exactly when there is none |
| `fixedset` (`tools/fixedset.hpp`) | raw slots and a bitset | emplace, erase, iterate, copy, move, swap | a slot holds an object exactly when its bit is set |
| `blocklist` (`tools/blocklist.hpp`, `tools/iterator.hpp`) | a `std::list` of fixedsets, a count | emplace, insert, erase, iterate, clear | iterators to other elements survive insertion and erasure; no empty block in the list; the count is exact |
| `orgraph_t` (`tools/graph.hpp`) | two blocklists; in each node two vectors of edges, in each edge two ends | insert, move and remove edges and nodes, `assert_integrity` | the views agree; no dangling, no parallel edge; order of the lists kept |
| `traverse` (`tools/graph.hpp`) | visited set and deque, local to a call | one walk, with a handler | returns; visits the reachable nodes; each edge once, with the right colour |
| `tree_t` (`tools/tree.hpp`) | the root | erase and duplicate a subtree | no node of the subtree stays, no other goes; the copy has the shape of the original |
| parser (`parser.cpp`, `parser/rules.hpp`) | the tree under construction, the values that wait | one function per rule of the grammar | every node ends in one place of the tree, every child under the label by which the checker looks for it |
| checker, control (`check_semantics.cpp`) | scopes, functions, current function, errors | one handler per kind of statement | accepts exactly the programs without a flaw; every refusal is reported |
| checker, expressions and types | types stored in nodes | one handler per kind of expression; `is_lvalue`, `eval_const` | every accepted expression has a type; nothing const is written; a value fits its place |
| type table (`type_info.cpp`) | a growing vector of types and a map of names | insert, look up, add a field | references not used after growth; offsets aligned and disjoint; sizes complete |
| constants (`types.cpp`, `eval_const`) | a value, its width and sign | conversion, operators | the number, and the type, that the language gives the expression |
| source map, printing, driver | none that lasts | format, read, exit codes | not modelled: sequential input and output |
| ctpg | - | LR parser | external: its directory is empty in this repository |

**Interactions.** The parser builds the AST, a `tree_t`, hence an `orgraph_t`,
by `emplace_node` and `emplace_edge`; the graph keeps nodes and edges in
blocklists and stores blocklist iterators in both; blocklists put elements in
fixedsets, which find slots through a bitset. The checker walks the same tree
by recursion over `forward_edges()`, in the order of the lists and by the label
of each edge, and writes types into nodes and the type table; `tree_t` is
built on `traverse`. All of it is direct calls; the one callback is the
handler of `traverse`.

**Behaviours that are hard.** Reuse of a slot after erasure; an iterator kept
while its container changes; the cascade of `remove_node`; moving an edge by
updating two lists and one end; early return in the middle of a handler that
pushed a scope; a pointer into a vector that grows; names in their own
initializers; a second declaration of a function in any order of prototype,
definition and variable. There are no crashes to recover from (nothing is
persistent), no messages, no time-outs. `PROJECT.json` lists each hazard at its
line with the properties that cover it.

## 2. Modules

| Module | Stands for | Role |
|---|---|---|
| `Bitset`, `FixedSet` | `bitset`, `fixedset` | values and operators, no state of their own |
| `BlockList` | `blocklist` and its iterators | state machine over `FixedSet` blocks |
| `Store` | what a client of a blocklist relies on | abstract specification of `BlockList` |
| `Graph` | `orgraph_t` | state machine; identities are abstract |
| `Digraph` | the doc comments of `orgraph_t` | abstract specification of `Graph` |
| `GraphProofs`, `TraverseProofs`, `BlockListProofs`, `TreeProofs`, `CheckerProofs`, `TypesProofs`, `ExprProofs` | - | theorems on the module of that name |
| `ListLemmas` | - | lemmas on sequences, least elements and recursion that these share |
| `Traverse` | `orgraph_t::traverse` | state machine over a constant graph |
| `Tree` | `tree_t`, with the walk and the graph that it composes | state machine |
| `Forest` | the doc comments of `tree_t` | abstract specification of `Tree`; its operators serve `Parser` |
| `Parser` | the actions of the grammar, `rules.hpp` | state machine: reductions over the parser's stack |
| `Checker` | the control of `check_semantics.cpp`, and `make_for` | state machine with a stack of handlers |
| `TypeTable` | `node_type`, `type_info`, the table; `make_node_type`, `validate_type`, `is_types_compatible` | operators on a table of types |
| `Types` | how the table grows: `check_structure`, `declare_variable`, the references of `check_call` and `check_return` | state machine over `TypeTable` |
| `Constants` | `Literal`, and what the language means by an operator | operators |
| `Expr` | `check_expr` and all it calls, `is_lvalue`, `eval_const`, assignments, conditions, returns, initializers | state machine over a fixed table of `TypeTable` and the numbers of `Constants` |
| `MC*` | - | constants for TLC |

### Graph and Digraph

State: the sets of live nodes and edges, the two ends of each edge, the two
lists of each node. An operation that throws changes nothing and so is a
stutter. `remove_node` is not one step: it copies the lists of the node, then
`remove_incident` removes one edge at a time, then `erase_node` frees the node;
the copies are the variable `todo`. Nothing else runs in between, but the
state in between is where stale copies would show, so it is modelled. An
iterator that is used after its element is freed sets `ub`; nothing is said of
what follows.

`Digraph` is the graph of the doc comments: a set of vertices and a set of
arcs, `DropVertex` in one step. The refinement hides a node, with its edges, from the
moment its removal begins: `remove_node` is the abstract step, and the rest of the
cascade stutters. The client may only join a node to itself if `SelfLoops` is
TRUE; `CascadeLive` then fails: `remove_node` removes such an edge twice, the
second time through an iterator to a freed slot. No rule of the parser makes one.

### Traverse

`adj` is the graph in the direction of the walk, so that one model covers
`FORWARD` and `BACKWARD`. A step takes the front of the deque or handles one
edge; the handler may stop the walk at any call. `order` and `calls` are history.
An edge is the pair of its ends: `NoParallelEdges`, proved of `Graph`, justifies
it.

### BlockList, FixedSet, Bitset and Store

A block is its bit map and what its slots hold, which are kept apart so that
they can disagree. Block addresses are reused. An iterator is a block and an
index, and the index may be unset, as in the code: it becomes the first used
slot when the iterator is next used. The client keeps the iterator of each
element and walks with one more. It never uses an iterator of an erased
element, and erases the element its walk is at only through the walk:
`blocklist.hpp:26` invalidates the iterator otherwise.

`Store` promises a set and a walk that passes every element that stays, once,
whatever comes and goes. An element inserted during the walk may or may not be met. An iterator whose index is unset is
resolved against the block as it is when it is next used, so that an insertion in between may
move it to another element; `Store` therefore does not say where it stands.
This is less than `blocklist.hpp:25` says, where insertion affects no iterator; it is
what the code keeps.

`clear` resets no count (`blocklist.hpp:267`), so that `size()` goes on counting what was dropped and
`empty()` no longer agrees with it, against `blocklist.hpp:96` and 99. A client may clear a list that is not
empty if `ClearsStored` is TRUE; `SizeExact` and `EmptyRight` then fail. Nothing else does: the theorems on
blocks, iterators and the walk have no such premise. In the run it is FALSE, so that `clear` meets empty
lists only and changes nothing there; `clear` of a full list is covered by those theorems.

### Checker

The recursion of the handlers is the stack `frames`. An action is one handler of a
statement that contains no other, or the part of a handler between two
recursive calls; `ret` is what the last callee returned. The program is chosen while it
is walked, so a run ranges over all programs up to its bounds.

Types and expressions are abstracted to what the control depends on. An expression
is the name it uses, if any, and `typed`: whether the other rules of
`check_expr` take it. Each of these rules ends in `insert_error` when it
refuses, which was read off the code rule by rule. A function type is its return
type and parameter types by name. `check_structure` is an outcome.

Beside the scopes of the code (`scopes`), the model keeps those of the
language: each frame's `declared`. They differ as soon as a handler leaves a scope behind.
`flaw` is history: a rule of the language has been broken. `VerdictRight` compares the
two. The reference definitions are `Lexical`, `Home`, `InLoop`, `Flawed`,
`FlawedFunction`, `Redeclared` and `IsMainType`.

### Tree and Forest

`erase_subtree`, `duplicate_subtree` and `assert_integrity` each walk the graph
and act from the handler of the walk, so each is a state machine: a client's call, the steps
of the depth-first `traverse` (over the lists as they are at that step: `duplicate_subtree`
changes the graph that it walks over), the handler, and for `erase_subtree` one `remove_node` per
collected node. The inherited operations are single steps; `Graph` has their parts. One of them is not a
step that always succeeds: `remove_node` of a node with an edge to itself removes that edge twice, so
`remove_next` sets `ub` there, as it does for a node that is gone. A client may make such edges, and walk
over them; it may call `erase_subtree` where one would be removed if `LoopsErased` is TRUE, and
`EraseDefined` then fails.

`Forest` promises each of them in one step: the subtree goes, whole and alone, whatever
edges are shared or closed to a cycle in it; the copy has the data, the labels and the
order of the original, and the rest is untouched. The refinement hides the copies until the
last one is made, and hides the subtree from the moment its removal begins. As `tree.hpp:56-57` demands, a client
copies only trees. A root that is erased dangles unless nothing is left (`tree.hpp:114`); `lost`
records it, and the client then sets a new root before it asks for the integrity of the tree.

### Parser

State: the values on the parser's stack, each a list of nodes with the symbol it was reduced to,
and the tree. An action is a production with its function in `rules.hpp`: it takes the
values of its right side from the stack, makes nodes and edges, and leaves a value. Productions that only
pass a value on are the sets `Expr`, `Stmt` and so on of symbols that may stand for one another; of
productions that share an action and a shape one is listed. Terminals, precedence and
lookahead are ctpg's: the model reduces whenever the top of the stack fits, so its
programs include every parse, and some that the generator would resolve in another way. A list begins only behind the
symbol that comes before it in the grammar (`After`); this alone is kept of the choice.

A node that nobody uses, or two parents of one node, would show only much later, in the checker. `WholeForest`
says that the values on the stack are disjoint trees that together hold all that was made; it
serves as the type invariant too. `LabelsRight` compares every node with what the checker asks of it:
`AskedOf` is read off `get_node`, `find_edge` and the loops over `forward_edges()` in
`check_semantics.cpp`. The `ForStep` of a loop is left out of it: it has the label of
the init (run `checker_for_step`). `CompoundRight` is about the one rule that needs a
subtree twice: `l op= r` is built as `l = l op r` with a copy of `l`.

The grammar is checked in six parts (expressions, compound assignments, statements, loops, declarations,
functions), as a tree with all kinds of node in it would be too large; each part has the
productions of one level, with those of the level below at their smallest.

### TypeTable and Types

`TypeTable` has the types and the questions about them as operators on a table; an id is a
position in it. A type is an entry, `_is_const`, and the pointers and arrays around it.

`Types` has the table as its state, with the structure whose body is being
checked. `check_structure` is an action per field, because what a type is worth
changes between two fields: the structure under construction has a size from its
first field on. A type specifier is a base, its modifiers and, if it is a
function type, parameters and the modifiers around it; `make_node_type` returns
the table after it, as a specifier may put a function type into the table and be
refused all the same. Arguments and returned values are `sizeof` expressions,
the shortest that put a type into the table; all handlers that take a type
specifier do it through the same function. A use of a reference after the table grew sets `ub` or
not, as the vector may have had room; nothing is said of what follows `ub`.

Left out: packed structures (nothing sets `is_packed`) and `repr`: a function type is
found by its return type and parameters, of which `repr` is the name. `errors` says
whether one was reported.

### Constants and Expr

`Constants` has `Literal`: conversion, sign extension and the operators as the code computes them, in
words of `8 * Byte` bits with masks, and `Undefined` where C++ defines no result. Its second half says what
the language means: arithmetic on integers, wrapped into the common type of the operands, which is
stated by the comment at `check_semantics.cpp:50-56`. The bit operators go through the set of
places where a word has a one (`ones`, `with_ones`). `Byte` is 1 in the runs, so that all four
integer sizes are there and a word has 256 values.

`Expr` checks expressions from the leaves up. `check_expr`, `is_lvalue` and
`eval_const` are three recursions over one tree; an operand on the stack carries the result of
each: the type written into the node, whether it is an lvalue, and its `Literal`. An
operator takes its operands from the stack and leaves its own; a refusal ends the statement.
Beside these the operand carries, as history, `meaning`, the number that the language gives it,
and `place`, the object that it designates: whether that was declared const, whether
what it points to was, and its size. The properties compare the two.

The context says what the code asks for: in a function (`local`) no constant; in an initializer
of a global (`global`) type and constant; in the size of an array (`count`) only the
constant, as `make_node_type` calls `eval_const` and not `check_expr`. The operand of a
`sizeof` in a constant counts as computed too, which refuses a few programs that the code takes
(`sizeof` of a name's address). The table of types is fixed, with a structure with a const
field, one with arrays and pointers, one that holds structures, an incomplete one, and two function types.

Assigning or initializing drops const below a pointer (policy `IGNORE`) by design;
`ConstKept` therefore is about the object that is written, reached in one expression, and about arguments and
returned values, where the policy is `MAY_BE_CONST`.

## 3. Runs

| Run | Result | Shows |
|---|---|---|
| `graph` | pass | the views agree, ends are alive, no parallels, order kept, `Digraph` implemented |
| `traverse` | pass | reachable nodes, each edge once, right colours, breadth-first order, termination |
| `blocklist` | pass | iterators stay good, blocks sound, `size()` right, `Store` implemented |
| `tree` | pass | `erase_subtree` removes each node once, `Forest` implemented, `assert_integrity` accepts exactly the trees, every call returns |
| `parser` | pass | nothing lost or used twice, labels as the checker expects them, compound assignments |
| `checker` | pass | right verdict, diagnosis, lexical lookup, current function |
| `checker_for_step` | violation of `UndeclaredRejected` | the step of a `for` is never checked |
| `types` | pass | layouts sound, no stale size, one entry per structure and function type |
| `types_self_field` | violation of `NotInItself` | a structure may contain itself after its first field |
| `types_stale_reference` | violation of `ReferencesLive` | a reference into the table is used after the table grew |
| `expr` | pass | constants come to the right number and type, const is kept, values fit, array sizes are what they say |
| `expr_untyped_operand` | violation of `TypedWhenAccepted` | a compound assignment as an operand has no type for the handler around it |

**Constants that keep a known defect out of a passing run.** Each is named, and changing it makes the
property fail that the defect is about. Where the last column names a run, that
run shows it; the others were seen to fail with the constant changed.

| Constant | Leaves out | Otherwise |
|---|---|---|
| `SelfLoops = FALSE` | an edge from a node to itself | `CascadeLive` fails |
| `LoopsErased = FALSE` | `erase_subtree` of a node with an edge to itself | `EraseDefined` fails |
| `ThrowsInNewBlock = FALSE` | a constructor that throws into a new block, which then stays empty (short of exhausted memory, no stored type throws there) | `BlocksSound` fails |
| `ClearsStored = FALSE` | `clear` of a list with elements | `SizeExact` fails |
| `StepsFlawed = FALSE` | a step of a loop that breaks a rule | `VerdictRight` fails; run `checker_for_step` |
| `FnTypes <- PlainTypes` | a `main` that returns `int32_t` with two other parameters, which the precedence of OR in `check_main` accepts | `VerdictRight` fails |
| `SelfFields = FALSE` | a later field of the structure's own type | `FieldSizesFresh` fails; run `types_self_field` |
| `AssignOperands = FALSE` | a compound assignment as an operand | run `expr_untyped_operand` |
| `MixedBits = FALSE` | a constant with & \| ^ << >> of two types, typed by the left one in `check_binary_op` and by both in `Literal::apply` | `EvalTyped` fails; no line of the repository says which is right |
| `ArrayCasts = FALSE` | a cast to an array of another size (`check_semantics.cpp:1048` compares the size of the target with itself) | `FitsObject` fails |
| `CastTargets = FALSE` | a cast as the target of an assignment or of & | `ConstKept` fails |
| `WideCounts = FALSE` | a size of an array that is no `int32_t`, of which only the low half is tested | `CountRight` fails |

Of the walk called DFS it should be known that it marks nodes when they enter the deque: on
graphs that are not trees its order is not depth-first. The program walks trees.

**Bounds.**
- `graph`: four nodes and five edges, symmetric. A list of three edges has a first, a
  middle and a last one, which order and erasure tell apart; the fourth node
  gives an edge somewhere to move; five edges allow a node with two in and two
  out, and one elsewhere. Deadlock is checked: with all edges used, one can still be removed.
- `traverse`: every graph of three nodes with loops, with each list in every
  order; every loop-free graph of four nodes with lists in one order. Four
  nodes are the least on which the two orders of the deque differ after a branch.
  One start is enough as node names mean nothing. `CHECK_DEADLOCK FALSE`: the walk ends.
- `blocklist`: blocks of two slots have a first and a last; three blocks have one
  between two; five elements leave one slot open when three blocks are in
  use. `MaxCounted` bounds the count at which a list with elements is still cleared, as the count
  never falls again. Deadlock is checked.
- `tree`: a client makes three nodes and three edges: a chain, a fork, a shared node, a cycle of
  two and of three nodes, edges from a node to itself that stay or are walked over (`LoopsErased`); two
  subtrees are erased or copied (`MaxCalls`), so that one may be a copy of the other; storage for six nodes holds
  all copies. Two kinds of data alternate by storage. `CHECK_DEADLOCK FALSE`: the bounds on calls may be used up.
- `parser`: a bound on nodes and one on waiting values for each part, by which each production
  of the part fires with something below and something beside it: 12 nodes for compound assignments, where `a[i] op= b`
  has seven, so that one may stand in another. `CHECK_DEADLOCK FALSE`: the bounds end the program.
- `checker*`: two names, `main` and another, so that a name may be the wrong one,
  shadowed, or a function; six statements and six frames, enough for a function after a
  refused function, a loop with its init in a function, a shadowed name with a use before
  and after. `CHECK_DEADLOCK FALSE`: the check ends with its verdict.
- `types*`: two structures, so that one may contain the other in each order of definition;
  three fields in all, so that a structure may have one that needs padding before it, one after,
  and one more; specifiers with an array of an odd size, an array of structures, an array of pointers, a
  function pointer that needs a complete structure, and one that is refused after it was
  inserted. `SizeLimit` is out of reach of these sizes: overflow is not checked. `CHECK_DEADLOCK FALSE` because
  the model stops once `ub` holds; the passing run says nothing of `ReferencesLive`.
- `expr*`: `SizeLimit` is `Word`, 256 with bytes of one bit, and the sizes of the table stay below it. Four operators in a function reach a field of an element behind a pointer, and its address; two in constants, as every
  conversion takes one operator and shows in the next. Literals are the least, the greatest and the numbers around zero of each of eight types;
  nine operators, one or two of each group that the code treats alike (`calculated` and `holds` are used by the model and its
  reference: what is compared is the conversions). Two waiting operands. `CHECK_DEADLOCK FALSE` because the model stops once `ub` holds:
  undefined arithmetic, or an operand without a type.

**Fairness.** Two models state a liveness property. `Traverse` assumes weak fairness of
the whole next-state relation, `Tree` of the steps of an operation that was called and not of the
client: the walk is one thread in a loop without a wait, and the handlers in the program
return. The other models are safety only: when a client calls is the client's choice, and
nothing in them waits.

## 4. Theorems

`GraphProofs` proves, for any sets of nodes and edges (finite or not), and under
`~SelfLoops`:
`TypeCorrect`, `IntegrityHolds`, `EndsStayAlive`, `NoParallels`,
`CascadeIsDefined` (`CascadeLive /\ ~ub`), `GraphImplementsDigraph` and `OrderStays` (the action property
`OrderKept`).

*Argument.* `Integrity` is not inductive: that an erasure by position removes the
right entry needs both that the edge is listed once at each of its ends and that no
other edge has its ends. The invariant `IInv` therefore joins the type invariant,
the agreement of the four views with the live edges, the absence of parallels, that freed nodes have
empty lists, and, for the cascade, that `todo` names each remaining incident edge of `dying`
exactly once. The last part is where self-loops are excluded: with one, `todo` names
it twice. Each action has one step of the proof and under it one per part that it
can disturb. Lemmas state what `RemoveAt` and `Append` do to the members of a
list without repetition. Refinement is a step per action from the same invariant, and so is `OrderStays`:
a list without repetition has one order (`SameKept`), and the two ways in which a list changes keep it (`RemoveKept`,
`AppendKept`).

`TraverseProofs` proves all safety properties of `Traverse` for any graph, finite or not: `TypeCorrect`,
`VisitsAllReachable`, `ColoursAreRight`, `EdgesAreToldOnce` and `BreadthFirst`. There are three
invariants, each on top of the last. `IInv` is `TypeOK /\ Sound /\ Swept /\ ColoursRight`: every
visited node is reachable; a visited node is waiting, current or done, and the ends of
edges already handled are visited. When the deque is empty this makes `visited`
closed, and `Reachable` is the least closed set around the start. `EInv` adds that no node is
queued twice or after it was taken (`Once`), and that the calls are those for the edges handled so far,
those of a node in the order of its list (`Told`). `BInv` adds, for the queue, that every node discovered
after the start has an edge from a node taken (`Parented`), and that what was discovered before the other end of a
handled edge has an edge from the node of that edge or from an earlier one (`Waves`). Lists are assumed to name no node
twice (`TraverseAssumption`); `NoParallelEdges`, a theorem on `Graph`, justifies it.

`BlockListProofs` proves, for any elements, any size of a block and any number of blocks, and under
`~ThrowsInNewBlock` (see the table in section 3), every property of `BlockList`: `TypeCorrect`, `BlocksAreSound`,
`IteratorsAreStable` and `KeepsPromise`, the refinement of `Store`; and, when no list with elements is cleared
(`~ClearsStored`), `SizeIsExact` and `EmptyIsRight`: `empty()`, which looks at the blocks, says whether `size()`, the count, is 0.
Neither premise of the last two can be dropped: TLC refutes `EmptyRight` with either constant TRUE. `EmptyRight` is no property
of the run, where `BlocksSound` and `SizeExact` give it.

*Argument.* None of the properties is inductive alone. That an iterator is good needs that no block
holds an element twice and no two blocks hold the same one; that the walk is good needs that its index, once
set, is that of a used slot; that the count is exact needs that the stored elements are a
finite set, which the invariant carries, as it is true of every state and not of every value of the
constants. The refinement maps to `Store` the elements `Ahead` of the walk; the lemma
`AheadKnown` replaces its recursion over blocks by a comparison of positions (`InFront`), which each action
either leaves alone or shifts.

`TreeProofs` proves, for any finite storage, any data and any labels: `IntegrityIsRight` on any graph; and, when no
client erases a node with an edge to itself (`~LoopsErased`), `ErasureIsDefined`, `TypeCorrect` and
`TreeImplementsForest`, that is the promises of `erase_subtree` and `duplicate_subtree` with all the steps that they take.

*Argument.* `duplicate_subtree` changes the graph that it walks over. The invariant is therefore stated over `View`, the
nodes that are no copy in progress with the lists that they had at the call: nothing ever leads from them to a copy, so the
walk is one over a graph that stays. `Deque` and `Swept` say of that walk what `IInv` says in `TraverseProofs`, and at its end make
`visited` equal to `Below`, the least closed set around the start. The same walk serves three handlers:
- `assert_integrity`: as long as no node was found again, each edge handled so far found a node of its own (`Once`). At the end this
  means that every node has one edge into it and the start none (`EndIsTree`); a node that was found
  again has two, or is the start (`AgainIsNoTree`).
- `duplicate_subtree`: each node found has one copy, no two the same, with its data and with the edges handled so far (`Paired`, `Copied`), and that
  suffices for the shape of the whole copy: no induction over the tree is needed. That there is storage for the next copy
  follows by counting: copies are as many as nodes found, and some node below the argument has none yet (`RoomForCopy`).
- `erase_subtree`: `to_remove` is what was found, each node once. A client sees the graph without the nodes below the argument from the moment the
  removal begins; taking one of them away changes nothing in this (`WithoutTwice`). That no removal is undefined needs
  that `to_remove` names live nodes, each once, and that none of them has an edge to itself (`LoopFree`): the walk finds
  nodes below the argument only, where the client's call has excluded such edges, and a removal adds no edge.

`CheckerProofs` proves, for any names, function types and depth of nesting: `TypeCorrect`, `RefusalsReported`,
`InnermostFound`, `CurrentFunctionRight`, `NoFalseAlarm` (a program without a flaw is not
rejected) and `VerdictIsRight`. The last is under `Plain`, which excludes the two known deviations,
`StepsFlawed` and a type of `main` that `check_main` takes and the language does not; `NoFalseAlarm`
needs no such premise.

*Argument.* The scopes of the code are pushed and popped by handlers, those of the language are the frames
that hold names; a handler that returns early pops nothing, so the two agree only as long as nothing was
refused. `Sync` therefore maps each frame that holds names to a scope, in the order of both: after an
error there may be more scopes than frames; without one there are as many, and each
scope has the names and the kind of its frame. `Reported` says that a
refusal anywhere in the stack (`ret`, the `ok` of a frame) has an error, so that the agreement
is there whenever it is needed; `Shape` which frames may be on which; `Apart` that functions and
global variables share no name; `Judged` relates `errors` to `flaw`, once for each direction, and is what makes
the verdict right.

`TypesProofs` proves, for any basic types, structures, fields and specifiers: `TypeCorrect`,
`OneEntryEach`, `DefinitionsStay` (`DefinedOnce`: no handler changes a structure that was accepted) and, under `~SelfFields`,
`SizesStayFresh`, `NothingInItself` and `LayoutsAreSound`.

*Argument.* `Sound` says that every id in the table is in it, that no two entries are the same type, and that a
structure that is defined is not open and has a size other than 0, which is what makes `begin_structure`
refuse it: only the entry of the open structure ever changes. For the sizes of fields the invariant is that
a field whose type has no pointer in it has a complete type that is not open (`Fresh`); with a field of the structure's own type
this fails at once. On `Fresh` rest the other two. A loop of containment would have to be closed by a field that is
added, hence go through the open structure, which nothing contains (`NoLoop`, kept for any set of structures). The layout of a
structure (`Laid`) is that of its fields' types, and those do not change while it is open.

`LayoutSound` is true of sizes that do not wrap only. `LayoutsAreSound` therefore says: in every behaviour in which each field has a size and
ends below `SizeLimit`, and each entry's size leaves room to align another field (`Roomy`), and if of two alignments the smaller divides the
larger (`AlignmentsDivide`; in the code they are 1, 2, 4 and 8). Both hold in the run `types`, whose sizes stay below 100 with a limit of 1024.

`TypeOK` could only be proved once `round_up` wrapped as the code does (a size within an alignment
of 2^64 rounds up to a small one), and the parameters of a function type were held to the same rule on
arrays of no elements as every other type.

`ExprProofs` proves, for any checked program (any table that `TableAssumption` describes), any names, literals, operators
and casts, statements of any length and bytes of any number of bits:

| Theorem | Under |
|---|---|
| `EvaluationIsRight`: `eval_const` comes to the number of the language (`EvalRight`) | - |
| `EvaluationIsTyped`: with the size and sign of the type from `check_expr` (`EvalTyped`) | `~MixedBits` |
| `CountsAreRight`: arrays have as many elements as the program says (`CountRight`) | `~WideCounts` |
| `ConstIsKept`: nothing declared const is changed or passed on as not const (`ConstKept`) | `~CastTargets` |
| `ValuesFit`: what is stored is as large as the place (`FitsObject`) | `~ArrayCasts` |
| `AcceptedIsTyped`: what is accepted has a type (`TypedWhenAccepted`) | `~AssignOperands` |

Each premise is the one known defect of that property from the table in section 3 and nothing more; the last theorem says
that the violation run `expr_untyped_operand` shows the only way to an operand without a type.

*Argument.* The properties speak of the numbers and places of operands, and the invariant (`Inv`) says of each operand what the
next operator needs. Of a constant (`ValueRight`): its meaning is in the range of its type (`Canonical`) and its word is that number's
remainder (`Denotes`); without the range a conversion to a wider type would not be determined. Of an object (`PlaceRight`): it is as large as its type; if it is frozen then its type says so,
unless it went through a cast; and if it points to something frozen then its type does. `EvalRight` rests on arithmetic: a
`Modulus` divides the wider ones (`PowerDivides`), so that a remainder of a remainder is a remainder (`RemainderTwice`), and
`sign_extend` followed by `int64` gives back the number (`ExtendedIs`); then `ConvertMeans`, `BinaryRight` and `UnaryRight`. For
`ConstKept`, `is_const` looks into structures to any depth while the property looks at the declared parts:
`HoldsNothing` relates the two, `AsConstIs` and `FieldIs` carry const into fields, `FrozenElement` through arrays, `AddressIs` through addresses.
For `FitsObject`, two types that `is_types_compatible` takes have one size (`CompatibleSize`), although it never computes
it. For `CountRight`, a word that is not zero and whose low half is no negative `int32_t` is the number that it came from (`CountIs`).
What `calculated` computes is the same operator on both sides, in the model and in the meaning: the theorem is on conversions.

*Recursion.* `Reach` and `Outside` of `Forest` are recursive functions as well: of the first it is proved that it is the
least closed set around a node, of the second which entries it leaves. `size_of` and `check_args` are recursive functions over the positions of a list,
`Power` is one over numbers. `is_const` is one over the entries of the table in no particular order: it has a
solution because a greatest set of entries agrees with it (`ConstExists`). The lemmas
`RecursionTo` (such a function exists) and `InductionTo` (what holds at 0 and is passed on holds up to n) are stated for
a set in the place of a predicate, and follow from the existence of least elements, `MinOfSet`.

*Assumptions.* The named assumptions of the modules, and nothing else. TLC evaluates
them in every run. Those of `Expr` are the weight of the proofs on it. `TableAssumption`: the table is one that has been built: each integer type
of the code is there, entries lead to types of the program, the size of a field is that of its type (`FieldSizesFresh`, a
theorem on `Types`), and sizes are words of the machine that the constants are computed in (`SizeLimit = Word`). `ExprAssumption`: names, casts and literals are
such that `make_node_type` and the grammar make (`ProgramTypes`: no array of functions and no const function).

**Only model-checked.**
- What a layout is once sizes have wrapped.
- `Parser`: that the values on the stack are trees is an induction over their shape, and so is what the checker finds below a label.
- `Terminates` and `Returns`: liveness and `ENABLED` are out of TLAPS's reach.

## 5. Plan

Every component that the inventory lists with a state of its own is modelled. What could still be added:
1. A grammar with precedence in `Parser`, if the sources of ctpg become part of the repository.
2. A theorem on `WholeForest` of `Parser`, for which an induction over the shape of a value would have to be stated for sets, as
   `InductionTo` is.

## 6. Not modelled

- ctpg, an external generator: which reduction the next token selects, precedence, terminals, syntax
  errors. The directory is empty in this repository.
- Reading a literal from its text (`from_int`, `from_char`, `decode_escape`): its result is any literal.
- Copies, moves and swaps of `fixedset` and `blocklist`: none happens in the program.
- Overflow of `size_of`: sizes that wrap have no meaning in the language to compare with.
- Compatibility of prototypes beyond equal types: two pointers of one shape agree whatever they point
  to, also where `check_semantics.cpp:1414` wants the types strictly the same. `Checker` compares types by name.
- `repr`, `edge_name`, `to_dot`, source locations and messages (formatting only); the driver and the tests.
