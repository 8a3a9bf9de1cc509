------------------------------ MODULE MCParser ------------------------------
(***************************************************************************)
(* Parser over programs of a few nodes, from one part of the grammar each. *)
(***************************************************************************)
EXTENDS Parser

MCMaxNodes == [expressions |-> 5, compounds |-> 12, statements |-> 6, loops |-> 9,
               declarations |-> 8, functions |-> 7]
MCMaxStack == [expressions |-> 4, compounds |-> 3, statements |-> 4, loops |-> 5,
               declarations |-> 4, functions |-> 4]
=============================================================================
