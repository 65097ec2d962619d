------------------------------ MODULE Divider ------------------------------
(***************************************************************************)
(* The restoring divider of the M extension (restoring_div.bsv): DIV, DIVU, *)
(* REM and REMU and their variants on half words, XLEN / DIVSTAGES bits of *)
(* the quotient in each cycle.  Registers are numbers below 2^XLEN.        *)
(*                                                                         *)
(* The execute stage gives operands when it is not waiting for a result,   *)
(* and takes the result in the one cycle it is shown (stage3.bsv).         *)
(***************************************************************************)
EXTENDS Integers

CONSTANTS
  Xlen,       \* width of a register
  DivStages   \* DIVSTAGES: cycles of a division

\* The static assertions of mkrestoring_div ask for a power of two up to XLEN.
ASSUME DividerAssumption ==
  /\ Xlen \in Nat \ {0, 1}
  /\ DivStages \in 1 .. Xlen
  /\ \E n \in 0 .. Xlen : DivStages = 2 ^ n
  /\ Xlen % DivStages = 0

Modulus == 2 ^ Xlen
HalfRange == 2 ^ (Xlen \div 2)
Register == 0 .. (Modulus - 1)

\* How many values rg_count has: its TLog(DIVSTAGES + 1) bits are one more than
\* the logarithm of DIVSTAGES, a power of two.
CountRange == 2 * DivStages

\* funct3
Div == 4
Divu == 5
Rem == 6
Remu == 7
Operation == {Div, Divu, Rem, Remu}
IsSigned(f) == f \in {Div, Rem}
IsRem(f) == f \in {Rem, Remu}

Negative(x) == x >= Modulus \div 2
Complement(x) == (Modulus - x) % Modulus
SignExtendHalf(x) ==
  LET low == x % HalfRange
  IN IF low >= HalfRange \div 2 THEN low + Modulus - HalfRange ELSE low

VARIABLES
  divCount,    \* rg_count
  upper,       \* partial: the remainder, one bit wider than a register
  lower,       \*          and the quotient
  op2,         \* rg_op2
  in1,         \* rg_in1
  negate,      \* rg_complement
  signOp1,     \* rg_sign_op1
  isRem,       \* quotient_remainder and rg_upperbits
  isHalf,      \* rg_word
  valid,       \* rg_valid
  result,      \* rg_result
  division     \* execute waits for the result of these operands

divVars == <<divCount, upper, lower, op2, in1, negate, signOp1, isRem, isHalf, valid,
             result, division>>

DivIdle ==
  /\ divCount = 0
  /\ upper = 0 /\ lower = 0
  /\ op2 = 0 /\ in1 = 0
  /\ negate = FALSE /\ signOp1 = FALSE
  /\ isRem = FALSE /\ isHalf = FALSE
  /\ valid = FALSE
  /\ result = 0
  /\ division = <<>>

-----------------------------------------------------------------------------
(* fn_fix_inputs                                                              *)

Widened(x, f, half) ==
  IF ~ half THEN x ELSE IF IsSigned(f) THEN SignExtendHalf(x) ELSE x % HalfRange

Magnitude(x, f) == IF IsSigned(f) /\ Negative(x) THEN Complement(x) ELSE x

TakeComplement(x, y, f) ==
  \/ f = Div /\ Negative(x) # Negative(y)
  \/ f = Rem

\* ma_inputs
Start(x, y, f, half) ==
  LET a == Widened(x, f, half)
      b == Widened(y, f, half)
  IN /\ division = <<>>
     /\ division' = <<[x |-> x, y |-> y, f |-> f, half |-> half]>>
     /\ upper' = 0
     /\ lower' = Magnitude(a, f)
     /\ op2' = Magnitude(b, f)
     /\ in1' = x
     /\ divCount' = (divCount + 1) % CountRange
     /\ negate' = TakeComplement(a, b, f)
     /\ signOp1' = Negative(a)
     /\ isRem' = IsRem(f)
     /\ isHalf' = half
     /\ UNCHANGED <<valid, result>>

-----------------------------------------------------------------------------
(* fn_single_div                                                              *)

\* The negated divisor is as wide as a register and then sign extended.
NegatedDivisor ==
  LET n == Complement(op2) IN IF Negative(n) THEN n + Modulus ELSE n

\* One bit: the remainder is compared without its upper bit.
OneBit(p) ==
  LET rem == (2 * p[1] + (IF Negative(p[2]) THEN 1 ELSE 0)) % (2 * Modulus)
      quo == (2 * p[2]) % Modulus
  IN IF rem % Modulus >= op2
     THEN <<(rem + NegatedDivisor) % (2 * Modulus), quo + 1>>
     ELSE <<rem, quo>>

Stage ==
  LET after[n \in 0 .. (Xlen \div DivStages)] ==
        IF n = 0 THEN <<upper, lower>> ELSE OneBit(after[n - 1])
  IN after[Xlen \div DivStages]

-----------------------------------------------------------------------------
(* single_step_div                                                            *)

Finished == divCount = (DivStages + 1) % CountRange

SignedByOperands(r) == IF negate THEN Complement(r) ELSE r \* mutant

\* The sign of a remainder is that of the dividend.
Signed(r) ==
  IF negate /\ (isRem => Negative(r) # signOp1) THEN Complement(r) ELSE r

Shown(r) == IF isHalf THEN SignExtendHalf(r) ELSE r

Step ==
  /\ divCount # 0
  /\ upper' = Stage[1]
  /\ lower' = Stage[2]
  /\ IF op2 = 0
     THEN /\ divCount' = 0
          /\ valid' = TRUE
          /\ result' = Shown(IF isRem THEN in1 ELSE Modulus - 1)
     ELSE IF Finished
     THEN /\ divCount' = 0
          /\ valid' = TRUE
          /\ result' = Shown(Signed(IF isRem THEN upper % Modulus ELSE lower))
     ELSE /\ divCount' = (divCount + 1) % CountRange
          /\ UNCHANGED <<valid, result>>
  /\ UNCHANGED <<op2, in1, negate, signOp1, isRem, isHalf, division>>

\* mutant: execute keeps the instruction and gives its operands again
TakeKeepsInstruction ==
  /\ valid
  /\ valid' = FALSE
  /\ \E d \in {division[1]} : lower' = Magnitude(Widened(d.x, d.f, d.half), d.f)
  /\ upper' = 0
  /\ divCount' = 1
  /\ UNCHANGED <<op2, in1, negate, signOp1, isRem, isHalf, result, division>>

\* delayed_output of stage3; rg_valid holds for one cycle.
Take ==
  /\ valid
  /\ valid' = FALSE
  /\ division' = <<>>
  /\ UNCHANGED <<divCount, upper, lower, op2, in1, negate, signOp1, isRem, isHalf, result>>

DivNext ==
  \/ \E x, y \in Register, f \in Operation, half \in BOOLEAN : Start(x, y, f, half)
  \/ Step
  \/ Take

DivSpec == DivIdle /\ [][DivNext]_divVars

\* The clock: the rule fires when its guard holds, and delayed_output takes what is
\* shown.
DivFairness == WF_divVars(Step) /\ WF_divVars(Take)

-----------------------------------------------------------------------------
(* Properties                                                                 *)

\* The instruction set: integers, division that truncates towards zero, and
\* the values given for a zero divisor.
Value(x, f, half) ==
  LET a == Widened(x, f, half)
  IN IF IsSigned(f) /\ Negative(a) THEN a - Modulus ELSE a

AbsoluteOf(n) == IF n < 0 THEN - n ELSE n

Quotient(a, b) ==
  LET q == AbsoluteOf(a) \div AbsoluteOf(b)
  IN IF (a < 0) # (b < 0) THEN - q ELSE q

Expected(d) ==
  LET a == Value(d.x, d.f, d.half)
      b == Value(d.y, d.f, d.half)
      n == IF IsRem(d.f) THEN IF b = 0 THEN a ELSE a - b * Quotient(a, b)
           ELSE IF b = 0 THEN - 1 ELSE Quotient(a, b)
      r == n % Modulus
  IN IF d.half THEN SignExtendHalf(r) ELSE r

\* The result of every operation on every pair of operands is that of the
\* instruction set: the least number by minus one, a zero divisor, and
\* divisors with the upper bit set, for which the subtraction is a bit short.
DivisionExact == valid => division # <<>> /\ result = Expected(division[1])

\* Execute, which takes no other instruction meanwhile, gets its result, for every
\* number of cycles that div_stages of the configuration may ask for
\* (configure/schema.yaml:156).  rg_count has to count one further than DIVSTAGES,
\* for which its width leaves room unless there is one stage.
DivisionEnds == division # <<>> ~> division = <<>>

=============================================================================
