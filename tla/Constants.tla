----------------------------- MODULE Constants -----------------------------
(***************************************************************************)
(* Literal (src/frontend/ast/types.cpp): the constants of the language and *)
(* what the operators make of them.  The code computes in 64-bit words and *)
(* cuts the result to the size of a type; an int64_t is such a word, read  *)
(* in two's complement.  The second half of the module says what the       *)
(* language means: arithmetic on integers, wrapped into a type.            *)
(***************************************************************************)
EXTENDS Integers, FiniteSetsExt

CONSTANT Byte   \* bits in a byte: 8 in the code, fewer to enumerate whole types

ASSUME ConstantsAssumption == Byte \in Nat \ {0}

WordSize == 8
Bits == WordSize * Byte     \* in a word

\* The powers of two that a shift can ask for.
Power[k \in 0..Bits] == IF k = 0 THEN 1 ELSE 2 * Power[k - 1]

Word == Power[Bits]

\* A Literal: the low bits of a word, the size of its type in bytes and its sign.
Literal(value, size, signed) == [value |-> value, size |-> size, signed |-> signed]

\* One more than mask_for_size.
Modulus(size) == IF size >= WordSize THEN Word ELSE Power[size * Byte]

\* An int64_t as a word, and a word as an int64_t.
word(n) == n % Word
int64(w) == IF w >= Word \div 2 THEN w - Word ELSE w

\* sign_extend, as a word.  A size of 0 shifts by -1, which is undefined.
sign_extend(v, size) ==
  LET low == v % Modulus(size)
  IN  IF low >= Modulus(size) \div 2 THEN word(low - Modulus(size)) ELSE low

\* Slip: the value is extended by the sign of the type it goes to.
convert_to_target_sign(v, from_size, from_signed, to_size, to_signed) ==
  LET low == v % Modulus(from_size)
  IN  (IF from_size < to_size /\ to_signed THEN sign_extend(low, from_size) ELSE low)
        % Modulus(to_size)

convert_to(v, from_size, from_signed, to_size, to_signed) ==
  LET low == v % Modulus(from_size)
  IN  (IF from_size < to_size /\ from_signed THEN sign_extend(low, from_size) ELSE low)
        % Modulus(to_size)

converted(lit, size, signed) ==
  Literal(convert_to(lit.value, lit.size, lit.signed, size, signed), size, signed)

-----------------------------------------------------------------------------
(***************************************************************************)
(* Literal::apply.  The outcome is a Literal, "throw", or "undefined".     *)
(***************************************************************************)
Comparisons == {"==", "!=", "<=", ">=", "<", ">"}
Logic == {"||", "&&"}
BitOps == {"|", "^", "&", "<<", ">>"}
Arithmetic == {"+", "-", "*", "/", "%"}

\* Division as in C++: towards zero.
Magnitude(n) == IF n < 0 THEN -n ELSE n
quotient(a, b) ==
  LET q == Magnitude(a) \div Magnitude(b)
  IN  IF (a < 0) = (b < 0) THEN q ELSE -q

\* The places where a word has a one, and the word that has them there.
ones(w) == {k \in 0..(Bits - 1) : (w \div Power[k]) % 2 = 1}
with_ones(S) ==
  LET low[k \in 0..Bits] == IF k = 0 THEN 0 ELSE low[k - 1] + (IF k - 1 \in S THEN Power[k - 1] ELSE 0)
  IN  low[Bits]

holds(op, a, b) ==
  CASE op = "==" -> a = b
    [] op = "!=" -> a # b
    [] op = "<=" -> a <= b
    [] op = ">=" -> a >= b
    [] op = "<"  -> a < b
    [] op = ">"  -> a > b
    [] op = "||" -> a # 0 \/ b # 0
    [] op = "&&" -> a # 0 /\ b # 0

calculated(op, a, b) ==
  CASE op = "+"  -> a + b
    [] op = "-"  -> a - b
    [] op = "*"  -> a * b
    [] op = "/"  -> quotient(a, b)
    [] op = "%"  -> a - b * quotient(a, b)
    [] op = "<<" -> a * Power[b]
    [] op = ">>" -> a \div Power[b]
    [] op = "|"  -> with_ones(ones(word(a)) \cup ones(word(b)))
    [] op = "^"  -> with_ones((ones(word(a)) \cup ones(word(b))) \ (ones(word(a)) \cap ones(word(b))))
    [] op = "&"  -> with_ones(ones(word(a)) \cap ones(word(b)))

make_bool(b) == Literal(IF b THEN 1 ELSE 0, 4, TRUE)

Outcome(lit) == [kind |-> "value", lit |-> lit]
Throw == [kind |-> "throw"]
Undefined == [kind |-> "undefined"]

InInt64(n) == n = int64(word(n))

\* The sign of the common type: that of the wider operand; of two of one size, the
\* type is unsigned if one of them is.
common_signed(l, r) ==
  IF l.size = r.size THEN l.signed /\ r.signed
  ELSE IF l.size > r.size THEN l.signed ELSE r.signed

common_size(l, r) == IF l.size > r.size THEN l.size ELSE r.size

\* Both operands are sign-extended before the divisor is looked at, for which no
\* number of 0 bytes has a sign.
apply_binary(op, l, r) ==
  LET size   == common_size(l, r)
      signed == common_signed(l, r)
      lhs == convert_to(l.value, l.size, l.signed, size, signed)
      rhs == convert_to(r.value, r.size, r.signed, size, signed)
      a == IF signed THEN int64(sign_extend(lhs, size)) ELSE lhs
      b == IF signed THEN int64(sign_extend(rhs, size)) ELSE rhs
      overflows == signed /\ op \in Arithmetic /\ ~InInt64(IF op = "%" THEN quotient(a, b) ELSE calculated(op, a, b))
  IN  IF size = 0 THEN Undefined
      ELSE IF op \in {"/", "%"} /\ rhs = 0 THEN Throw
      ELSE IF (op \in {"<<", ">>"} /\ b \notin 0..(Bits - 1)) \/ overflows THEN Undefined
      ELSE IF op \in Comparisons \cup Logic THEN Outcome(make_bool(holds(op, a, b)))
      ELSE Outcome(Literal(calculated(op, a, b) % Modulus(size), size, signed))

apply_unary(op, lit) ==
  LET a == IF lit.signed THEN int64(sign_extend(lit.value, lit.size)) ELSE lit.value
  IN  IF lit.size = 0 \/ (op = "-" /\ lit.signed /\ ~InInt64(-a)) THEN Undefined
      ELSE CASE op = "!" -> Outcome(make_bool(a = 0))
             [] op = "-" -> Outcome(Literal((-a) % Modulus(lit.size), lit.size, lit.signed))
             [] op = "~" -> Outcome(Literal((-a - 1) % Modulus(lit.size), lit.size, lit.signed))

-----------------------------------------------------------------------------
(***************************************************************************)
(* What the language means.  A number is an integer of a type.             *)
(***************************************************************************)
Number(v, size, signed) == [v |-> v, size |-> size, signed |-> signed]

\* The member of the type that v wraps to.
Wrapped(v, size, signed) ==
  LET m == Power[size * Byte]
  IN  Number(IF signed /\ v % m >= m \div 2 THEN (v % m) - m ELSE v % m, size, signed)

Denotes(lit, num) ==
  lit.size = num.size /\ lit.signed = num.signed /\ lit.value = num.v % Power[num.size * Byte]

\* "The result has the wider operand size and, for equal sizes, it is unsigned
\* if either operand is unsigned."
CommonType(m, n) ==
  LET wide == {k \in {m, n} : k.size = Max({m.size, n.size})}
  IN  [size |-> Max({m.size, n.size}), signed |-> \A k \in wide : k.signed]

BinaryMeaning(op, m, n) ==
  LET t == CommonType(m, n)
      a == Wrapped(m.v, t.size, t.signed).v
      b == Wrapped(n.v, t.size, t.signed).v
  IN  IF op \in Comparisons \cup Logic
        THEN Number(IF holds(op, a, b) THEN 1 ELSE 0, 4, TRUE)
        ELSE Wrapped(calculated(op, a, b), t.size, t.signed)

UnaryMeaning(op, m) ==
  CASE op = "!" -> Number(IF m.v = 0 THEN 1 ELSE 0, 4, TRUE)
    [] op = "-" -> Wrapped(-m.v, m.size, m.signed)
    [] op = "~" -> Wrapped(-m.v - 1, m.size, m.signed)
=============================================================================
