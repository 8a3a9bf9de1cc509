------------------------------- MODULE MCExpr -------------------------------
(***************************************************************************)
(* Expr over the basic types, four structures and two functions.           *)
(***************************************************************************)
EXTENDS Expr

BasicNames == <<"uint64_t", "uint32_t", "uint16_t", "uint8_t",
                "int64_t", "int32_t", "int16_t", "int8_t", "bool_t", "void_t">>
MCSigned == {"int64_t", "int32_t", "int16_t", "int8_t"}
MCBasicSize ==
  [n \in ToSet(BasicNames) |->
     CASE n \in {"uint64_t", "int64_t"} -> 8
       [] n \in {"uint32_t", "int32_t"} -> 4
       [] n \in {"uint16_t", "int16_t"} -> 2
       [] OTHER -> 1]

BasicTable == [i \in 1..Len(BasicNames) |-> Basic(BasicNames[i])]
T(n, const, mods) ==
  [id |-> CHOOSE i \in 1..Len(BasicNames) : BasicNames[i] = n, const |-> const, mods |-> mods]
S(i, mods) == [id |-> i, const |-> FALSE, mods |-> mods]

Complete(info) == [info EXCEPT !.size = update_size(info)]
WithFields(tab, id, fields) ==
  [FoldLeft(LAMBDA t, f : add_field(t, id, f[1], f[2]), tab, fields) EXCEPT ![id] = Complete(@)]
Define(tab, s, fields) == WithFields(Append(tab, Structure(s)), Len(tab) + 1, fields)

int8 == T("int8_t", FALSE, <<>>)
const_int8 == T("int8_t", TRUE, <<>>)

MCMaxOps == [c \in {"local", "global", "count"} |-> IF c = "local" THEN 4 ELSE 2]

\* 11 has a const field, 12 arrays and pointers, 13 has 11 inside, 14 is incomplete.
WithA == Define(BasicTable, "A", <<<<"x", int8>>, <<"y", T("int32_t", TRUE, <<>>)>>>>)
WithB == Define(WithA, "B", <<<<"x", T("int8_t", FALSE, <<2>>)>>, <<"y", T("int8_t", FALSE, <<Pointer>>)>>>>)
WithC == Define(WithB, "C", <<<<"x", S(11, <<2>>)>>>>)
MCTable ==
  WithC \o <<Structure("D"),
             Function(int8, <<T("int8_t", TRUE, <<Pointer>>)>>),
             Function(T("int8_t", FALSE, <<Pointer>>), <<T("int8_t", FALSE, <<Pointer>>)>>)>>

MCVars == {int8, const_int8, T("uint64_t", FALSE, <<>>), T("int8_t", TRUE, <<Pointer>>),
           T("int8_t", FALSE, <<ConstPointer>>), T("int8_t", FALSE, <<Pointer, Pointer>>),
           T("int8_t", TRUE, <<2>>), T("int16_t", FALSE, <<2, Pointer>>),
           S(11, <<>>), [S(12, <<>>) EXCEPT !.const = TRUE], S(13, <<Pointer>>), S(14, <<Pointer>>),
           S(15, <<>>), S(16, <<>>), S(15, <<Pointer>>)}

\* The least and the largest number of each type, and those around zero.
Boundary(size, signed) ==
  {Literal(v % Modulus(size), size, signed) : v \in {0, 1, -1, Modulus(size) \div 2, (Modulus(size) \div 2) - 1}}
MCLiterals == UNION {Boundary(size, signed) : size \in {1, 2, 4, 8}, signed \in BOOLEAN}

MCCastTypes == {int8, T("uint16_t", FALSE, <<>>), T("int64_t", FALSE, <<>>), T("int8_t", FALSE, <<Pointer>>),
                T("int8_t", FALSE, <<4>>), T("int8_t", FALSE, <<2>>), S(12, <<>>), S(14, <<>>)}
=============================================================================
