------------------------------ MODULE Arith16 ------------------------------
(***************************************************************************)
(* The words of the Z-machine and the two readings of them (value.go), and *)
(* the signed arithmetic instructions (opcode_2op.go).  A word is a number *)
(* below WordLimit; its upper half reads as negative.  Go divides towards  *)
(* zero, where TLA+ divides towards minus infinity.                        *)
(***************************************************************************)
EXTENDS Integers

CONSTANT
    WordLimit       \* 2^16 in the code

ASSUME WordAssumption ==
    WordLimit \in Nat \ {0} /\ WordLimit % 2 = 0

Words == 0 .. WordLimit - 1

Signed(v) == IF v < WordLimit \div 2 THEN v ELSE v - WordLimit

Unsigned(n) == n % WordLimit

Magnitude(n) == IF n < 0 THEN -n ELSE n

\* A mutant: the value is read as positive whatever its sign bit.
SignExtendForgotten(v, span) == v % span

\* The low bits of v (span is two to their number) as a signed number.
SignExtend(v, span) ==
    IF v % span < span \div 2 THEN v % span ELSE (v % span) - span

-----------------------------------------------------------------------------
\* A zero divisor is refused before either of these is computed.
CanDivide(b) == Signed(b) # 0

\* A mutant: the quotient is rounded down.
QuotientFloored(a, b) ==
    Unsigned(IF Signed(b) < 0 THEN (-Signed(a)) \div (-Signed(b)) ELSE Signed(a) \div Signed(b))

Quotient(a, b) ==
    LET q == Magnitude(Signed(a)) \div Magnitude(Signed(b))
    IN  Unsigned(IF (Signed(a) < 0) = (Signed(b) < 0) THEN q ELSE -q)

Remainder(a, b) ==
    LET r == Magnitude(Signed(a)) % Magnitude(Signed(b))
    IN  Unsigned(IF Signed(a) < 0 THEN -r ELSE r)

-----------------------------------------------------------------------------
\* div and mod belong together for every pair of words, the smallest number
\* divided by -1 included: what the quotient leaves is the remainder, which is
\* smaller than the divisor and has the sign of the dividend.
DivisionLeaves(a, b) ==
    LET r == Signed(Remainder(a, b))
    IN  CanDivide(b) =>
          /\ Unsigned(Signed(Quotient(a, b)) * Signed(b) + r) = a
          /\ Magnitude(r) < Magnitude(Signed(b))
          /\ r # 0 => (r < 0) = (Signed(a) < 0)

=============================================================================
