------------------------------ MODULE Amounts -------------------------------
(***************************************************************************)
(* Amounts of money: an order's is a floating-point number of coins, a     *)
(* balance an unsigned integer of the currency's smallest units            *)
(* (definitions.rs), and a payout compares the two (chain/payout.rs).      *)
(***************************************************************************)
EXTENDS Integers

CONSTANTS
    MantissaBits,        \* of an f64, the hidden bit included: 53
    MaxExponent,         \* bound on the exponents looked at
    BalanceBits,         \* of an u128: 128
    LossTolerance,       \* loss_tolerance: 10000
    ManualIntervention   \* manual_intervention_amount: 10^12

ASSUME BitsArePositive ==
    MantissaBits \in Nat \ {0} /\ BalanceBits \in Nat \ {0}
ASSUME ExponentsAreBounded == MaxExponent \in Nat
ASSUME WindowIsInRange ==
    /\ LossTolerance \in Nat /\ ManualIntervention \in Nat
    /\ LossTolerance <= ManualIntervention
    /\ ManualIntervention < 2^BalanceBits

Balance == 0..(2^BalanceBits - 1)

-----------------------------------------------------------------------------
(* Floating point: [mantissa, exponent] is mantissa * 2^-exponent.  A      *)
(* quotient becomes the nearest such number, an even one when in between.  *)

Shifted(num, den, e) ==
    IF e >= 0 THEN [num |-> num * 2^e, den |-> den]
              ELSE [num |-> num, den |-> den * 2^(-e)]

TiesToEven(q) ==
    LET low == q.num \div q.den
        rest == 2 * (q.num % q.den)
    IN  IF rest > q.den \/ (rest = q.den /\ low % 2 = 1) THEN low + 1 ELSE low

Normal(q) == /\ q.num >= q.den * 2^(MantissaBits - 1)
             /\ q.num < q.den * 2^MantissaBits

Float(num, den) ==
    IF num = 0 THEN [mantissa |-> 0, exponent |-> 0]
    ELSE LET e == CHOOSE e \in -MaxExponent..MaxExponent :
                     Normal(Shifted(num, den, e))
         IN  [mantissa |-> TiesToEven(Shifted(num, den, e)), exponent |-> e]

ValueOf(float) == Shifted(float.mantissa, 1, -float.exponent)

(* f64::round: the nearest integer, away from zero when in between.        *)
Rounded(float) ==
    LET q == ValueOf(float) IN (2 * q.num + q.den) \div (2 * q.den)

decimal_exponent_product(decimals) == 10^decimals

Product(float, decimals) ==
    LET q == ValueOf(float)
    IN  Float(q.num * decimal_exponent_product(decimals), q.den)

Saturated(units) ==
    IF units < 2^BalanceBits THEN units ELSE 2^BalanceBits - 1

(* The product is rounded to a float, then to an integer; the conversion   *)
(* to u128 saturates.                                                      *)
parse(float, decimals) == Saturated(Rounded(Product(float, decimals)))

(* A price is a decimal, digits * 10^-scale; JSON makes it a float.        *)
FloatOf(price) == Float(price.digits, 10^price.scale)

(* order.rs:19; the comparison is the same in every currency.              *)
EXISTENTIAL_DEPOSIT == [digits |-> 7, scale |-> 2]

Less(f, g) ==
    LET p == ValueOf(f)
        q == ValueOf(g)
    IN  p.num * q.den < q.num * p.den

LessThanExistentialDeposit(price) ==
    Less(FloatOf(price), FloatOf(EXISTENTIAL_DEPOSIT))

-----------------------------------------------------------------------------
(* Mutant: the subtraction saturates.                                      *)
Surplus_saturating(balance, amount) ==
    IF balance < amount THEN 0 ELSE balance - amount

(* What a payout finds on the account, less what the order asks for: the   *)
(* subtraction of a release build wraps.                                   *)
Surplus(balance, amount) == (balance - amount) % 2^BalanceBits

(* The first range that contains it decides, and they share their border.  *)
Decision(balance, amount) ==
    LET a == Surplus(balance, amount)
    IN  IF a <= LossTolerance THEN "pay"
        ELSE IF a <= ManualIntervention THEN "overpaid" ELSE "out_of_range"

-----------------------------------------------------------------------------
(* Reference: the units of a price, when it is a whole number of them.     *)
IsWhole(price, decimals) == price.scale <= decimals
ExactUnits(price, decimals) == price.digits * 10^(decimals - price.scale)
=============================================================================
