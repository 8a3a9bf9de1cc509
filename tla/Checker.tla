------------------------------- MODULE Checker -------------------------------
(***************************************************************************)
(* The control of the semantic checker (src/frontend/ast/                  *)
(* check_semantics.cpp): scopes, functions and statements.  The recursive  *)
(* handlers are a stack of frames; an action is one handler of a statement *)
(* without statements in it, or the part of another between two calls.     *)
(*                                                                         *)
(* The program is chosen while it is walked.  A type is what the control   *)
(* depends on: a function's return and parameter types, by name.  An       *)
(* expression is the name it uses and whether the other rules of           *)
(* check_expr take it; each of those rules that refuses inserts an error.  *)
(***************************************************************************)
EXTENDS Integers, Sequences, SequencesExt, FiniteSetsExt

CONSTANTS
  Names,         \* identifiers; "main" is one
  NoName,        \* an expression that uses no name
  FnTypes,       \* function types the programs use
  StepsFlawed,   \* whether a for-step may use a name that is not declared
  MaxStmts,      \* bound on the statements of a program
  MaxFrames      \* bound on the nesting of statements

ASSUME CheckerAssumption ==
  /\ "main" \in Names /\ NoName \notin Names
  /\ StepsFlawed \in BOOLEAN
  /\ MaxStmts \in Nat /\ MaxFrames \in Nat \ {0}

VARIABLES
  scopes,            \* context::scopes
  functions,         \* context::functions, by name
  current_function,  \* the entry it points to, by name
  stale,             \* whether that pointer was taken before a push_back
  errors,            \* whether pctx.errors holds an error
  frames,            \* the handlers that are active, outermost first
  ret,               \* "call": the top handler goes on; what its callee returned
  verdict,           \* what check_semantics returned
  flaw,              \* history: the program breaks a rule of the language
  stmts              \* how many statements the program has so far

code == <<scopes, functions, current_function, stale>>
vars == <<code, errors, frames, ret, verdict, flaw, stmts>>

NoFn == [type |-> [returns |-> "none", params |-> <<>>], body |-> FALSE]
Declared(n) == functions[n] # NoFn

\* A scope_layer: for each name, the frame that declared it, or 0.
Layer(is_loop) == [names |-> [n \in Names |-> 0], is_loop |-> is_loop]

Frame(kind, fn) == [kind |-> kind, fn |-> fn, stage |-> "start", ok |-> TRUE, declared |-> {}]
Top == Last(frames)

Exprs == [name : Names \cup {NoName}, typed : {TRUE}] \cup {[name |-> NoName, typed |-> FALSE]}

-----------------------------------------------------------------------------
(***************************************************************************)
(* The scopes of the code.                                                 *)
(***************************************************************************)
is_global_scope == Len(scopes) = 1

is_in_loop == \E k \in 1..Len(scopes) : scopes[k].is_loop

\* Slip: the outermost declaration is found.
lookup_var_outermost(n) ==
  LET hits == {k \in 1..Len(scopes) : scopes[k].names[n] # 0}
  IN  IF hits = {} THEN 0 ELSE scopes[Min(hits)].names[n]

\* The declaration of n in the innermost scope that has one.
lookup_var(n) ==
  LET hits == {k \in 1..Len(scopes) : scopes[k].names[n] # 0}
  IN  IF hits = {} THEN 0 ELSE scopes[Max(hits)].names[n]

lookup_global_var(n) == Head(scopes).names[n]

\* insert_name refuses a second declaration in the scope, and in the global
\* scope the name of a function.
name_is_taken(n) == Last(scopes).names[n] # 0 \/ (is_global_scope /\ Declared(n))

(***************************************************************************)
(* The scopes of the language: a name is declared in the innermost of the  *)
(* program, function, block or loop around its declaration.                *)
(***************************************************************************)
Scoped == {k \in 1..Len(frames) : frames[k].kind \in {"Root", "Function", "Block", "For"}}
Home == Max(Scoped)
Lexical(n) ==
  LET hits == {k \in Scoped : n \in frames[k].declared}
  IN  IF hits = {} THEN 0 ELSE Max(hits)
InLoop == \E k \in 1..Len(frames) : frames[k].kind = "For"

\* What check_expr refuses, and what the language does.
Refused(e) == ~e.typed \/ (e.name # NoName /\ lookup_var(e.name) = 0 /\ ~Declared(e.name))
Flawed(e) == ~e.typed \/ (e.name # NoName /\ Lexical(e.name) = 0 /\ ~Declared(e.name))

-----------------------------------------------------------------------------
Running == verdict = "running"

\* The top handler is about to check a statement.
AtStmt ==
  /\ Running /\ ret = "call" /\ stmts < MaxStmts
  /\ \/ Top.kind \in {"Function", "Block", "If"}
     \/ Top.kind = "For" /\ Top.stage = "body"
AtDeclaration == AtStmt \/ (Running /\ ret = "call" /\ stmts < MaxStmts /\ Top.kind \in {"Root", "ForInit"})
AtGlobal == Running /\ ret = "call" /\ stmts < MaxStmts /\ Top.kind = "Root"

\* A handler without statements in it returns; a refusal inserts an error.
Return(ok) ==
  /\ ret' = IF ok THEN "ok" ELSE "failed"
  /\ errors' = (errors \/ ~ok)
  /\ stmts' = stmts + 1

\* The handler of the top frame returns.
Leave(ok) ==
  /\ frames' = Front(frames)
  /\ ret' = IF ok THEN "ok" ELSE "failed"

Insert(n) ==
  /\ scopes' = [scopes EXCEPT ![Len(scopes)].names[n] = Home]
  /\ frames' = [frames EXCEPT ![Home].declared = @ \cup {n}]

Redeclared(n) == n \in frames[Home].declared \/ (Home = 1 /\ Declared(n))

\* declare_variable, of a declaration without an initializer.
declare_variable(n, typed) ==
  /\ AtDeclaration
  /\ LET ok == typed /\ ~name_is_taken(n)
     IN  /\ Return(ok)
         /\ IF ok THEN Insert(n) ELSE UNCHANGED <<scopes, frames>>
  /\ flaw' = (flaw \/ ~typed \/ Redeclared(n))
  /\ UNCHANGED <<functions, current_function, stale, verdict>>

\* Slip: the name is declared before its initializer is checked.
check_declare_assign_early(n, e) ==
  /\ AtDeclaration
  /\ LET ok == /\ (e.name # n => ~Refused(e))
               /\ is_global_scope => e.name = NoName
               /\ ~name_is_taken(n)
     IN  /\ Return(ok)
         /\ IF ok THEN Insert(n) ELSE UNCHANGED <<scopes, frames>>
  /\ flaw' = (flaw \/ Flawed(e) \/ (Home = 1 /\ e.name # NoName) \/ Redeclared(n))
  /\ UNCHANGED <<functions, current_function, stale, verdict>>

\* check_assignment of a declaration with an initializer: the initializer is
\* checked, in the global scope it must be constant, then the name is declared.
\* The initializers with a name are not constant: sizeof of a name is not among them.
check_declare_assign(n, e) ==
  /\ AtDeclaration
  /\ LET ok == /\ ~Refused(e)
               /\ is_global_scope => e.name = NoName
               /\ ~name_is_taken(n)
     IN  /\ Return(ok)
         /\ IF ok THEN Insert(n) ELSE UNCHANGED <<scopes, frames>>
  /\ flaw' = (flaw \/ Flawed(e) \/ (Home = 1 /\ e.name # NoName) \/ Redeclared(n))
  /\ UNCHANGED <<functions, current_function, stale, verdict>>

\* check_expr of a statement, and check_assignment of another assignment.
check_expr(e) ==
  /\ AtStmt
  /\ Return(~Refused(e))
  /\ flaw' = (flaw \/ Flawed(e))
  /\ UNCHANGED <<code, frames, verdict>>

\* Slip: a jump outside of a loop is refused, and not reported.
check_jump_silent ==
  /\ AtStmt
  /\ ret' = IF is_in_loop THEN "ok" ELSE "failed"
  /\ stmts' = stmts + 1
  /\ flaw' = (flaw \/ ~InLoop)
  /\ UNCHANGED <<code, errors, frames, verdict>>

\* The break and continue of check_stmt.
check_jump ==
  /\ AtStmt
  /\ Return(is_in_loop)
  /\ flaw' = (flaw \/ ~InLoop)
  /\ UNCHANGED <<code, frames, verdict>>

\* The type of the function around the statement.
Enclosing == CHOOSE k \in 1..Len(frames) : frames[k].kind = "Function"
return_type(fn) == functions[fn].type.returns

\* check_return of a bare return: the function must be void.
check_return_bare ==
  /\ AtStmt
  /\ Return(current_function # NoName /\ return_type(current_function) = "void_t")
  /\ flaw' = (flaw \/ return_type(frames[Enclosing].fn) # "void_t")
  /\ UNCHANGED <<code, frames, verdict>>

\* check_return of a value: the function must not be void, and takes the value.
check_return_value(e) ==
  /\ AtStmt
  /\ Return(current_function # NoName /\ return_type(current_function) # "void_t" /\ ~Refused(e))
  /\ flaw' = (flaw \/ return_type(frames[Enclosing].fn) = "void_t" \/ Flawed(e))
  /\ UNCHANGED <<code, frames, verdict>>

-----------------------------------------------------------------------------
(***************************************************************************)
(* Statements with statements in them.                                     *)
(***************************************************************************)
CanNest == AtStmt /\ Len(frames) < MaxFrames

\* check_block with a scope of its own.
check_block ==
  /\ CanNest
  /\ scopes' = Append(scopes, Layer(FALSE))
  /\ frames' = Append(frames, Frame("Block", NoName))
  /\ stmts' = stmts + 1
  /\ UNCHANGED <<functions, current_function, stale, errors, ret, verdict, flaw>>

\* After a statement of the block: go on, or leave at the first refusal.
block_next ==
  /\ Running /\ Top.kind = "Block"
  /\ \/ ret = "ok" /\ ret' = "call" /\ UNCHANGED <<scopes, frames>>
     \/ ret \in {"call", "failed"} /\ scopes' = Front(scopes) /\ Leave(ret # "failed")
  /\ UNCHANGED <<functions, current_function, stale, errors, verdict, flaw, stmts>>

\* check_if_stmt up to the then-branch: a refused condition ends it.
check_if_stmt(e) ==
  /\ CanNest
  /\ IF Refused(e)
       THEN Return(FALSE) /\ UNCHANGED frames
       ELSE /\ frames' = Append(frames, Frame("If", NoName))
            /\ stmts' = stmts + 1
            /\ UNCHANGED <<errors, ret>>
  /\ flaw' = (flaw \/ Flawed(e))
  /\ UNCHANGED <<code, verdict>>

\* Slip: the end of the statement pops a scope, as that of a loop does.
if_next_pops ==
  /\ Running /\ Top.kind = "If" /\ ret # "call"
  /\ \/ /\ ret = "ok" /\ Top.stage = "start"
        /\ frames' = [frames EXCEPT ![Len(frames)].stage = "else"]
        /\ ret' = "call"
        /\ UNCHANGED scopes
     \/ Leave(ret = "ok") /\ scopes' = Front(scopes)
  /\ UNCHANGED <<functions, current_function, stale, errors, verdict, flaw, stmts>>

\* After a branch: the else-branch if there is one, unless the first failed.
if_next ==
  /\ Running /\ Top.kind = "If" /\ ret # "call"
  /\ \/ /\ ret = "ok" /\ Top.stage = "start"
        /\ frames' = [frames EXCEPT ![Len(frames)].stage = "else"]
        /\ ret' = "call"
     \/ Leave(ret = "ok")
  /\ UNCHANGED <<code, errors, verdict, flaw, stmts>>

\* check_for_stmt up to its ForInit, which declares into the loop's scope.
check_for_stmt ==
  /\ CanNest
  /\ scopes' = Append(scopes, Layer(TRUE))
  /\ frames' = frames \o <<Frame("For", NoName), Frame("ForInit", NoName)>>
  /\ stmts' = stmts + 1
  /\ UNCHANGED <<functions, current_function, stale, errors, ret, verdict, flaw>>

\* check_stmt of a ForInit checks all its declarations, refused or not.
init_next ==
  /\ Running /\ Top.kind = "ForInit"
  /\ \/ /\ ret # "call"
        /\ frames' = [frames EXCEPT ![Len(frames)].ok = @ /\ ret = "ok"]
        /\ ret' = "call"
     \/ ret = "call" /\ Leave(Top.ok)
  /\ UNCHANGED <<code, errors, verdict, flaw, stmts>>

\* After the init: a refused one ends check_for_stmt where it stands.
for_after_init ==
  /\ Running /\ Top.kind = "For" /\ Top.stage = "start" /\ ret # "call"
  /\ IF ret = "failed"
       THEN Leave(FALSE)
       ELSE /\ frames' = [frames EXCEPT ![Len(frames)].stage = "head"]
            /\ ret' = "call"
  /\ UNCHANGED <<code, errors, verdict, flaw, stmts>>

\* The condition, and the step: make_for labels its edge INIT, so the loop over
\* the edges passes it over.
for_head(cond, step) ==
  /\ Running /\ Top.kind = "For" /\ Top.stage = "head" /\ ret = "call"
  /\ step.typed /\ (StepsFlawed \/ ~Flawed(step))
  /\ frames' = [frames EXCEPT ![Len(frames)].stage = "body", ![Len(frames)].ok = ~Refused(cond)]
  /\ errors' = (errors \/ Refused(cond))
  /\ flaw' = (flaw \/ Flawed(cond) \/ Flawed(step))
  /\ UNCHANGED <<code, ret, verdict, stmts>>

\* After the body.
for_after_body ==
  /\ Running /\ Top.kind = "For" /\ Top.stage = "body" /\ ret # "call"
  /\ scopes' = Front(scopes)
  /\ Leave(Top.ok /\ ret = "ok")
  /\ UNCHANGED <<functions, current_function, stale, errors, verdict, flaw, stmts>>

-----------------------------------------------------------------------------
(***************************************************************************)
(* Global statements.                                                      *)
(***************************************************************************)

\* check_structure: what it refuses, it reports.
check_structure(ok) ==
  /\ AtGlobal
  /\ Return(ok)
  /\ flaw' = (flaw \/ ~ok)
  /\ UNCHANGED <<code, frames, verdict>>

\* Why check_function refuses a function before its body: its types, another
\* declaration of it, a second body, or a variable of that name.
RefusedFunction(n, typed, type, body) ==
  \/ ~typed
  \/ Declared(n) /\ functions[n].type # type
  \/ Declared(n) /\ functions[n].body /\ body
  \/ ~Declared(n) /\ lookup_global_var(n) # 0

FlawedFunction(n, typed, type, body) ==
  \/ ~typed
  \/ Declared(n) /\ functions[n].type # type
  \/ Declared(n) /\ functions[n].body /\ body
  \/ n \in frames[1].declared

\* register_function pushes a new entry, which may move the others.
Register(n, type, body) ==
  /\ functions' = [functions EXCEPT ![n] = [type |-> type, body |-> @.body \/ body]]
  /\ stale' = IF body THEN FALSE ELSE stale \/ (~Declared(n) /\ current_function # NoName)

\* check_function of a prototype, and of a function that is refused.
check_prototype(n, typed, type, body) ==
  /\ AtGlobal
  /\ LET ok == ~RefusedFunction(n, typed, type, body)
     IN  /\ ok => ~body
         /\ Return(ok)
         /\ IF ok THEN Register(n, type, FALSE) ELSE UNCHANGED <<functions, stale>>
  /\ flaw' = (flaw \/ FlawedFunction(n, typed, type, body))
  /\ UNCHANGED <<scopes, current_function, frames, verdict>>

\* The layer of the parameters; declare_variable refuses one of the same name.
ParamLayer(params) ==
  [names |-> [n \in Names |-> IF n \in Range(params) THEN 2 ELSE 0], is_loop |-> FALSE]
Repeated(params) == Cardinality(Range(params)) < Len(params)

\* Slip: a definition after a prototype leaves current_function as it was.
check_function_keeps_current(n, type, params) ==
  /\ AtGlobal /\ Len(params) = Len(type.params)
  /\ ~RefusedFunction(n, TRUE, type, TRUE)
  /\ Register(n, type, TRUE)
  /\ current_function' = IF Declared(n) THEN current_function ELSE n
  /\ scopes' = Append(scopes, ParamLayer(params))
  /\ stmts' = stmts + 1
  /\ IF Repeated(params)
       THEN ret' = "failed" /\ errors' = TRUE /\ UNCHANGED frames
       ELSE /\ frames' = Append(frames, [Frame("Function", n) EXCEPT !.declared = Range(params)])
            /\ UNCHANGED <<ret, errors>>
  /\ flaw' = (flaw \/ FlawedFunction(n, TRUE, type, TRUE) \/ Repeated(params))
  /\ UNCHANGED verdict

\* check_function of a definition, up to its body.  A repeated parameter ends
\* it where it stands.
check_function(n, type, params) ==
  /\ AtGlobal /\ Len(params) = Len(type.params)
  /\ ~RefusedFunction(n, TRUE, type, TRUE)
  /\ Register(n, type, TRUE)
  /\ current_function' = n
  /\ scopes' = Append(scopes, ParamLayer(params))
  /\ stmts' = stmts + 1
  /\ IF Repeated(params)
       THEN ret' = "failed" /\ errors' = TRUE /\ UNCHANGED frames
       ELSE /\ frames' = Append(frames, [Frame("Function", n) EXCEPT !.declared = Range(params)])
            /\ UNCHANGED <<ret, errors>>
  /\ flaw' = (flaw \/ FlawedFunction(n, TRUE, type, TRUE) \/ Repeated(params))
  /\ UNCHANGED verdict

\* After a statement of the body: go on, or return at the first refusal, with
\* the scope and current_function as they are.
function_next ==
  /\ Running /\ Top.kind = "Function"
  /\ \/ ret = "ok" /\ ret' = "call" /\ UNCHANGED <<scopes, current_function, frames>>
     \/ ret = "failed" /\ Leave(FALSE) /\ UNCHANGED <<scopes, current_function>>
     \/ /\ ret = "call" /\ Leave(TRUE)
        /\ scopes' = Front(scopes)
        /\ current_function' = NoName
  /\ UNCHANGED <<functions, stale, errors, verdict, flaw, stmts>>

\* check_global_names goes on after a refusal.
global_next ==
  /\ Running /\ Top.kind = "Root" /\ ret # "call"
  /\ frames' = [frames EXCEPT ![1].ok = @ /\ ret = "ok"]
  /\ ret' = "call"
  /\ UNCHANGED <<code, errors, verdict, flaw, stmts>>

ArgcArgv == <<"uint32_t", "const uint8_t **">>

\* check_main's test of the signature.
main_is_valid(type) ==
  LET returns_int == type.returns = "int32_t"
  IN  IF Len(type.params) = 2 THEN returns_int \/ type.params = ArgcArgv
      ELSE returns_int /\ type.params = <<>>

\* The two signatures that the language has for main.
IsMainType(type) == type.returns = "int32_t" /\ type.params \in {<<>>, ArgcArgv}

\* check_main and the result of check_global_names.
check_main ==
  /\ Running /\ Top.kind = "Root" /\ ret = "call"
  /\ LET main == functions["main"]
         ok == main.body /\ main_is_valid(main.type)
     IN  /\ errors' = (errors \/ ~ok)
         /\ verdict' = IF Top.ok /\ ok /\ ~errors' THEN "accepted" ELSE "rejected"
         /\ flaw' = (flaw \/ ~(main.body /\ IsMainType(main.type)))
  /\ UNCHANGED <<code, frames, ret, stmts>>

-----------------------------------------------------------------------------
\* check_semantics: a new context; check_global_names pushes the global scope.
Init ==
  /\ scopes = <<Layer(FALSE)>>
  /\ functions = [n \in Names |-> NoFn]
  /\ current_function = NoName
  /\ stale = FALSE
  /\ errors = FALSE
  /\ frames = <<Frame("Root", NoName)>>
  /\ ret = "call"
  /\ verdict = "running"
  /\ flaw = FALSE
  /\ stmts = 0

Statement ==
  \/ \E n \in Names, typed \in BOOLEAN : declare_variable(n, typed)
  \/ \E n \in Names, e \in Exprs : check_declare_assign(n, e)
  \/ \E e \in Exprs : check_expr(e) \/ check_return_value(e) \/ check_if_stmt(e)
  \/ check_jump
  \/ check_return_bare
  \/ check_block
  \/ check_for_stmt

GlobalStatement ==
  \/ \E ok \in BOOLEAN : check_structure(ok)
  \/ \E n \in Names, type \in FnTypes, typed, body \in BOOLEAN : check_prototype(n, typed, type, body)
  \/ \E n \in Names, type \in FnTypes : \E params \in [1..Len(type.params) -> Names] :
       check_function(n, type, params)

Resume ==
  \/ block_next \/ if_next \/ init_next \/ for_after_init \/ for_after_body
  \/ function_next \/ global_next
  \/ \E cond, step \in Exprs : for_head(cond, step)

Next == Statement \/ GlobalStatement \/ Resume \/ check_main

Spec == Init /\ [][Next]_vars

-----------------------------------------------------------------------------
(***************************************************************************)
(* Properties.                                                             *)
(***************************************************************************)
\* Every variable ranges over what its type allows; the scopes never run out.
TypeOK ==
  /\ scopes \in Seq([names : [Names -> 0..(MaxFrames + 1)], is_loop : BOOLEAN]) /\ scopes # <<>>
  /\ \A n \in Names : Declared(n) => functions[n].type \in FnTypes /\ functions[n].body \in BOOLEAN
  /\ current_function \in Names \cup {NoName}
  /\ stale \in BOOLEAN /\ errors \in BOOLEAN /\ flaw \in BOOLEAN
  /\ \A k \in 1..Len(frames) :
       /\ frames[k].kind \in {"Root", "Function", "Block", "If", "For", "ForInit"}
       /\ frames[k].declared \subseteq Names
  /\ ret \in {"call", "ok", "failed"}
  /\ verdict \in {"running", "accepted", "rejected"}

\* The checker accepts the programs without a flaw, and no other: names used
\* after their declaration and in its scope, declared once, jumps in loops,
\* returns that fit their function, one body per function, a proper main.
VerdictRight == verdict # "running" => (verdict = "accepted" <=> ~flaw)

\* A handler returns false only when an error was inserted: no program is
\* rejected without a message.
Diagnosed == ret = "failed" \/ verdict = "rejected" \/ ~frames[1].ok => errors

\* As long as nothing was refused, a name denotes its innermost declaration
\* that is open at that place of the program; handlers that return early leave
\* scopes behind only when the program is rejected.
LookupInnermost == ~errors => \A n \in Names : lookup_var(n) = Lexical(n)

\* In the body of a function, after errors too, current_function points to that
\* function and was not moved by a growth of context::functions.
CurrentFunctionFresh ==
  \A k \in 1..Len(frames) :
    frames[k].kind = "Function" => current_function = frames[k].fn /\ ~stale

\* "Using an undeclared identifier is rejected."
UndeclaredRejected == verdict = "accepted" => ~flaw
=============================================================================
