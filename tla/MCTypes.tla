------------------------------- MODULE MCTypes -------------------------------
(***************************************************************************)
(* Types over two structures and eight specifiers.                         *)
(***************************************************************************)
EXTENDS Types, TLC

CONSTANTS f, g, h

MCBasicSize == [n \in {"int8_t", "int32_t", "void_t"} |-> IF n = "int32_t" THEN 4 ELSE 1]
MCFieldNames == {f, g, h}

Callback(result, param, post) ==
  FunctionSpec(Plain(result, <<>>), <<Plain(param, <<>>)>>, post)

MCSpecs == {Const(Plain("int8_t", <<3>>)), Plain("int32_t", <<>>), Plain("void_t", <<>>),
            Plain("S", <<>>), Plain("T", <<2>>), Plain("S", <<Pointer, 2>>),
            Callback("void_t", "T", <<Pointer>>), Callback("int8_t", "int8_t", <<2>>)}

MCArgLists == {<<>>, <<Callback("void_t", "T", <<Pointer>>)>>, <<Plain("T", <<2>>)>>}

\* Field names are only compared.
MCSymmetry == Permutations(MCFieldNames)
=============================================================================
