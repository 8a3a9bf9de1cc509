----------------------------- MODULE MCChecker -----------------------------
(***************************************************************************)
(* Checker over programs of a few statements.                              *)
(***************************************************************************)
EXTENDS Checker

Fn(returns, params) == [returns |-> returns, params |-> params]

\* Function types that check_main judges as the language does.
PlainTypes == {Fn("int32_t", <<>>), Fn("void_t", <<>>), Fn("int32_t", <<"int8_t">>),
               Fn("int32_t", ArgcArgv)}
=============================================================================
