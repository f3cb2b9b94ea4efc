-------------------------------- MODULE Money --------------------------------
(***************************************************************************)
(* Exact amounts: the money, percentage and exchange-rate values of        *)
(* src/packages/shared-kernel and their wire forms in                      *)
(* src/packages/platform/src/wire.  A pure module: what the operators      *)
(* promise is stated as assumptions over bounded inputs, which TLC         *)
(* evaluates on every run of a module that extends this one.               *)
(*                                                                         *)
(* A decimal text is its sign and its digits before and after the point;   *)
(* a text that is none has the form "other".  What throws is Rejected.     *)
(***************************************************************************)
EXTENDS Integers, Sequences

LOCAL INSTANCE SequencesExt
LOCAL INSTANCE FiniteSets

Rejected == [rejected |-> TRUE]

Modes == {"HALF_UP", "HALF_EVEN", "FLOOR", "CEIL", "TRUNC"}

\* The registry and its ISO 4217 exponents.
Exponent == [QAR |-> 2, SAR |-> 2, AED |-> 2, OMR |-> 3, KWD |-> 3, BHD |-> 3,
             USD |-> 2, EUR |-> 2, GBP |-> 2]

Supported(code) == code \in DOMAIN Exponent

MaxScale == 30

-----------------------------------------------------------------------------
(* Integers and their decimal texts.  bigint division truncates toward     *)
(* zero, \div rounds down.                                                 *)

Magnitude(n) == IF n < 0 THEN -n ELSE n

Truncated(n, d) == IF n < 0 THEN -((-n) \div d) ELSE n \div d

DivideRounded(n, d, mode) ==
  LET quotient == Truncated(n, d)
      remainder == n - quotient * d
      awayFromZero == IF n < 0 THEN quotient - 1 ELSE quotient + 1
      twice == 2 * Magnitude(remainder)
      away == CASE mode = "TRUNC"   -> FALSE
                [] mode = "FLOOR"   -> n < 0
                [] mode = "CEIL"    -> n > 0
                [] mode = "HALF_UP" -> twice >= d
                [] mode = "HALF_EVEN" -> twice > d \/ (twice = d /\ quotient % 2 # 0)
  IN IF remainder # 0 /\ away THEN awayFromZero ELSE quotient

Value(digits) == FoldLeft(LAMBDA n, digit : 10 * n + digit, 0, digits)

Zeros(n) == [i \in 1 .. n |-> 0]

\* The digits of n, at least `least` of them.
Digits(n, least) ==
  LET length == CHOOSE k \in 1 .. 10 : n < 10 ^ k /\ \A j \in 1 .. k - 1 : n >= 10 ^ j
  IN Zeros(least - length) \o [i \in 1 .. length |-> (n \div 10 ^ (length - i)) % 10]

Text(negative, whole, fraction) ==
  [form |-> IF fraction = <<>> THEN "integer" ELSE "decimal",
   negative |-> negative, whole |-> whole, fraction |-> fraction]

Garbage == [Text(FALSE, <<>>, <<>>) EXCEPT !.form = "other"]

Signed(text, n) == IF text.negative THEN -n ELSE n

IntegerText(n) == Text(n < 0, Digits(Magnitude(n), 1), <<>>)

-----------------------------------------------------------------------------
(* Money                                                                   *)

Money(minorUnits, currency) == [minorUnits |-> minorUnits, currency |-> currency]

OfText(text, currency) ==
  IF text.form = "integer" THEN Money(Signed(text, Value(text.whole)), currency) ELSE Rejected

\* Digits beyond the exponent are refused, never rounded.
FromDecimalString(text, currency) ==
  LET missing == Exponent[currency] - Len(text.fraction)
  IN IF text.form = "other" \/ missing < 0 THEN Rejected
     ELSE Money(Signed(text, Value(text.whole \o text.fraction \o Zeros(missing))), currency)

ToDecimalString(money) ==
  LET scale == 10 ^ Exponent[money.currency]
      magnitude == Magnitude(money.minorUnits)
  IN Text(money.minorUnits < 0, Digits(magnitude \div scale, 1),
          Digits(magnitude % scale, Exponent[money.currency]))

SameCurrency(a, b) == a.currency = b.currency

AddMoney(a, b) ==
  IF SameCurrency(a, b) THEN Money(a.minorUnits + b.minorUnits, a.currency) ELSE Rejected

SubtractMoney(a, b) ==
  IF SameCurrency(a, b) THEN Money(a.minorUnits - b.minorUnits, a.currency) ELSE Rejected

CompareMoney(a, b) ==
  IF ~SameCurrency(a, b) THEN Rejected
  ELSE IF a.minorUnits < b.minorUnits THEN -1
  ELSE IF a.minorUnits > b.minorUnits THEN 1 ELSE 0

NegateMoney(money) == Money(-money.minorUnits, money.currency)

AbsMoney(money) == IF money.minorUnits < 0 THEN NegateMoney(money) ELSE money

Total(numbers) == FoldLeft(LAMBDA sum, n : sum + n, 0, numbers)

\* Floors of the exact shares, then one of the left over units to each of
\* the largest remainders, the earlier of equals first.
Allocate(money, weights) ==
  LET total == Total(weights)
      share == [i \in DOMAIN weights |-> money.minorUnits * weights[i]]
      floors == [i \in DOMAIN weights |-> share[i] \div total]
      remainder == [i \in DOMAIN weights |-> share[i] % total]
      leftover == money.minorUnits - Total(floors)
      Before(i) == {j \in DOMAIN weights :
                      remainder[j] > remainder[i] \/ (remainder[j] = remainder[i] /\ j < i)}
  IN IF weights = <<>> \/ (\E i \in DOMAIN weights : weights[i] < 0) \/ total = 0
     THEN Rejected
     ELSE [i \in DOMAIN weights |->
             Money(floors[i] + (IF Cardinality(Before(i)) < leftover THEN 1 ELSE 0),
                   money.currency)]

-----------------------------------------------------------------------------
(* Percentages: value / 10^scale.  Exchange rates: mantissa / 10^scale     *)
(* units of the quote currency for one of the base currency.               *)

Percentage(value, scale) ==
  IF scale \in 0 .. MaxScale THEN [value |-> value, scale |-> scale] ELSE Rejected

FromBasisPoints(points) == Percentage(points, 4)

\* A percent divides by a hundred, hence the two more digits of scale.
FromPercent(text) ==
  IF text.form = "other" \/ Len(text.fraction) + 2 > MaxScale THEN Rejected
  ELSE Percentage(Signed(text, Value(text.whole \o text.fraction)), Len(text.fraction) + 2)

ApplyPercentage(percentage, n, mode) ==
  DivideRounded(n * percentage.value, 10 ^ percentage.scale, mode)

MultiplyByPercentage(money, percentage, mode) ==
  Money(ApplyPercentage(percentage, money.minorUnits, mode), money.currency)

\* What is known of a source is whether it names one.
ExchangeRate(base, quote, mantissa, scale, sourced, dated) ==
  IF base # quote /\ mantissa > 0 /\ scale \in 0 .. MaxScale /\ sourced /\ dated
  THEN [base |-> base, quote |-> quote, mantissa |-> mantissa, scale |-> scale]
  ELSE Rejected

Convert(rate, money, mode) ==
  IF money.currency # rate.base THEN Rejected
  ELSE Money(DivideRounded(money.minorUnits * rate.mantissa * 10 ^ Exponent[rate.quote],
                           10 ^ (rate.scale + Exponent[rate.base]), mode), rate.quote)

InverseRate(rate, scale, mode) ==
  IF scale \notin 0 .. MaxScale THEN Rejected
  ELSE ExchangeRate(rate.quote, rate.base,
                    DivideRounded(10 ^ (scale + rate.scale), rate.mantissa, mode),
                    scale, TRUE, TRUE)

-----------------------------------------------------------------------------
(* On the wire an integer is a string: a JSON value is its type and, where *)
(* it is a string, its text.                                               *)

Json(type, text) == [type |-> type, text |-> text]

IsIntegerString(json) == json.type = "string" /\ json.text.form = "integer"

IntegerOf(json) == Signed(json.text, Value(json.text.whole))

MoneyToWire(money) ==
  [minorUnits |-> Json("string", IntegerText(money.minorUnits)), currency |-> money.currency]

MoneyFromWire(wire) ==
  IF IsIntegerString(wire.minorUnits) /\ Supported(wire.currency)
  THEN OfText(wire.minorUnits.text, wire.currency) ELSE Rejected

PercentageToWire(percentage) ==
  [value |-> Json("string", IntegerText(percentage.value)), scale |-> percentage.scale]

PercentageFromWire(wire) ==
  IF IsIntegerString(wire.value) THEN Percentage(IntegerOf(wire.value), wire.scale) ELSE Rejected

ExchangeRateToWire(rate) ==
  [base |-> rate.base, quote |-> rate.quote, scale |-> rate.scale, sourced |-> TRUE,
   dated |-> TRUE, mantissa |-> Json("string", IntegerText(rate.mantissa))]

ExchangeRateFromWire(wire) ==
  IF Supported(wire.base) /\ Supported(wire.quote) /\ IsIntegerString(wire.mantissa)
  THEN ExchangeRate(wire.base, wire.quote, IntegerOf(wire.mantissa), wire.scale,
                    wire.sourced, wire.dated)
  ELSE Rejected

-----------------------------------------------------------------------------
(* What the values promise, over bounded inputs.                           *)

SmallAmounts == -21 .. 21

\* Each mode is the rounding its name says: the integer below, above or
\* toward zero of the exact quotient, or a nearest one with the tie away
\* from zero or to the even (integer-math.ts, RoundingMode).
ASSUME RoundingIsByMode ==
  \A n \in SmallAmounts, d \in 1 .. 7 :
    LET down == n \div d
        Rounded(mode) == DivideRounded(n, d, mode)
        up == IF n % d = 0 THEN down ELSE down + 1
        Nearest(r) == \A k \in {down, up} : Magnitude(n - r * d) <= Magnitude(n - k * d)
        Tie == up # down /\ Nearest(down) /\ Nearest(up)
    IN /\ Rounded("FLOOR") = down
       /\ Rounded("CEIL") = up
       /\ Rounded("TRUNC") = IF n < 0 THEN up ELSE down
       /\ \A mode \in {"HALF_UP", "HALF_EVEN"} : Rounded(mode) \in {down, up}
                                                 /\ Nearest(Rounded(mode))
       /\ Tie => Rounded("HALF_EVEN") % 2 = 0
       /\ Tie => Magnitude(Rounded("HALF_UP")) >= Magnitude(Rounded("TRUNC")) + 1

\* An allocation conserves the amount to the unit, gives every part one of
\* the two integers about its exact share, nothing to a zero weight, and
\* never less of an amount to the heavier of two weights (money.ts,
\* Money.allocate).
ASSUME AllocationConserves ==
  \A n \in SmallAmounts, weights \in [1 .. 3 -> 0 .. 4] :
    LET parts == Allocate(Money(n, "QAR"), weights)
        total == Total(weights)
        part == [i \in 1 .. 3 |-> parts[i].minorUnits]
    IN IF total = 0 THEN parts = Rejected
       ELSE /\ Total(part) = n
            /\ \A i \in 1 .. 3 : Magnitude(part[i] * total - n * weights[i]) < total
            /\ \A i \in 1 .. 3 : weights[i] = 0 => part[i] = 0
            /\ \A i, j \in 1 .. 3 : n >= 0 /\ weights[i] > weights[j] => part[i] >= part[j]

\* An amount written with its currency's exponent is read back as itself,
\* whatever its sign, and one more digit is refused (money.ts, ADR-0006).
ASSUME DecimalsAreExact ==
  \A n \in -1200 .. 1200, currency \in {"QAR", "KWD"} :
    LET text == ToDecimalString(Money(n, currency))
        longer == Text(text.negative, text.whole, Append(text.fraction, 0))
    IN /\ FromDecimalString(text, currency) = Money(n, currency)
       /\ FromDecimalString(longer, currency) = Rejected

\* What is sent is what is received, and a number in place of a string, a
\* fraction or an unknown currency is refused (wire/*.ts).
ASSUME WireIsExact ==
  /\ \A n \in SmallAmounts, currency \in {"QAR", "KWD"} :
       /\ MoneyFromWire(MoneyToWire(Money(n, currency))) = Money(n, currency)
       /\ \A json \in {Json("number", IntegerText(n)), Json("string", Garbage),
                       Json("string", Text(FALSE, <<1>>, <<5>>))} :
            MoneyFromWire([minorUnits |-> json, currency |-> currency]) = Rejected
       /\ MoneyFromWire([MoneyToWire(Money(n, currency)) EXCEPT !.currency = "XXX"]) = Rejected
  /\ \A n \in SmallAmounts, scale \in 0 .. 4 :
       PercentageFromWire(PercentageToWire(Percentage(n, scale))) = Percentage(n, scale)
  /\ \A n \in 1 .. 21, scale \in 0 .. 4 :
       LET rate == ExchangeRate("QAR", "KWD", n, scale, TRUE, TRUE)
       IN ExchangeRateFromWire(ExchangeRateToWire(rate)) = rate

\* Two and a half percent is two hundred and fifty basis points, however
\* it is written, of any amount and in any mode (percentage.ts).
ASSUME PercentagesAgree ==
  \A n \in SmallAmounts, mode \in Modes :
    LET Of(percentage) == MultiplyByPercentage(Money(100 * n, "QAR"), percentage, mode)
    IN /\ Of(FromPercent(Text(FALSE, <<2>>, <<5>>))) = Of(FromBasisPoints(250))
       /\ NegateMoney(Of(FromBasisPoints(100))) = Of(FromPercent(Text(TRUE, <<1>>, <<>>)))

\* At par an amount keeps its value across exponents: converted into the
\* finer currency and back by the inverse rate it is itself, in every mode
\* (exchange-rate.ts, convert and inverse).
ASSUME ParityKeepsValue ==
  \A n \in SmallAmounts, scale \in 0 .. 2, mode \in Modes :
    LET rate == ExchangeRate("QAR", "KWD", 10 ^ scale, scale, TRUE, TRUE)
        there == Convert(rate, Money(n, "QAR"), mode)
    IN /\ there = Money(10 * n, "KWD")
       /\ Convert(InverseRate(rate, scale, mode), there, mode) = Money(n, "QAR")
       /\ CompareMoney(there, Money(n, "QAR")) = Rejected

\* Sums, differences and the order of amounts of one currency agree, and
\* amounts of two currencies have none (money.ts, assertSameCurrency).
ASSUME ArithmeticAgrees ==
  \A m, n \in -5 .. 5 :
    LET a == Money(m, "QAR")
        b == Money(n, "QAR")
        difference == SubtractMoney(a, b)
    IN /\ AddMoney(difference, b) = a
       /\ AbsMoney(difference) = AbsMoney(SubtractMoney(b, a))
       /\ CompareMoney(a, b) = CompareMoney(difference, Money(0, "QAR"))
       /\ AddMoney(a, Money(n, "KWD")) = Rejected

=============================================================================
