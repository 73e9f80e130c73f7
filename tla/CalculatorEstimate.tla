-------------------------- MODULE CalculatorEstimate --------------------------
(***************************************************************************)
(* The saved estimate (calculateEstimate, calculator.service.ts) as it is  *)
(* computed while the tables of fees hold no row, in whole dollars, with   *)
(* the exchange rate in tenths of a hryvnia.                               *)
(***************************************************************************)
EXTENDS Integers, SequencesExt

CONSTANTS Prices, Ages, VolumesCc, RateTenths

ASSUME EstimateAssumption ==
    /\ Prices \cup VolumesCc \cup {RateTenths} \subseteq Nat
    /\ Ages \subseteq Int

VARIABLE quote   \* what is asked for

EstimateInit ==
    quote \in [price : Prices, age : {-1}, fuel : {"gasoline", "diesel", "electric"}, volume : VolumesCc]

Larger(a, b) == IF a > b THEN a ELSE b
Lesser(a, b) == IF a < b THEN a ELSE b

(* Math.round of a quotient.                                               *)
Rounded(numerator, denominator) == (2 * numerator + denominator) \div (2 * denominator)

FeeSteps == <<<<99, 25>>, <<499, 70>>, <<999, 135>>, <<1499, 200>>, <<1999, 260>>,
              <<3999, 375>>, <<5999, 475>>, <<7999, 600>>>>
Step(price) == CHOOSE n \in DOMAIN FeeSteps :
                   price <= FeeSteps[n][1] /\ \A m \in 1 .. n - 1 : price > FeeSteps[m][1]

(* A slip: the percentage of an earlier schedule.                          *)
SevenPercentAbove(price) ==
    IF price > 7999 THEN Rounded(price * 7, 100) ELSE FeeSteps[Step(price)][2]
CalculateAuctionFee(price) ==
    IF price > 7999 THEN Rounded(price * 8, 100)
    ELSE FeeSteps[Step(price)][2]

Logistics == 1200
ServiceFees == 500
CalculateInsurance(price) == Larger(Rounded(price * 2, 100), 150)

(* The customs value is taken at a rate of its own, 41.5.                  *)
CustomsRateTenths == 415
EurToUah == 45
AgeCoefficient(age) == IF age <= 1 THEN 1 ELSE Lesser(age, 15)
Duty(q) == Rounded(q.price * CustomsRateTenths, 100)
Excise(q) ==
    IF q.fuel = "electric" THEN 100
    ELSE Rounded(q.volume * (IF q.fuel = "diesel" THEN 75 ELSE 50) * AgeCoefficient(q.age) * EurToUah,
                 1000)
Vat(q) == Rounded(q.price * CustomsRateTenths + 10 * (Duty(q) + Excise(q)), 50)

Total(q) ==
    LET usd == q.price + CalculateAuctionFee(q.price) + Logistics
               + CalculateInsurance(q.price) + ServiceFees
    IN  Rounded(usd * RateTenths, 10) + Duty(q) + Excise(q) + Vat(q)

(* A year passes.                                                          *)
GrowsOld ==
    /\ quote.age + 1 \in Ages
    /\ quote' = [quote EXCEPT !.age = @ + 1]

EstimateNext == GrowsOld

EstimateSpec == EstimateInit /\ [][EstimateNext]_quote

-----------------------------------------------------------------------------
(* A car that costs a dollar more, is a year older, or burns diesel costs  *)
(* no less in all, also where the fees change from one step to the next    *)
(* and from steps to a percentage.                                         *)
DearerCostsMore ==
    /\ Total(quote) <= Total([quote EXCEPT !.price = @ + 1])
    /\ Total(quote) <= Total([quote EXCEPT !.age = @ + 1])
    /\ quote.fuel = "gasoline" => Total(quote) <= Total([quote EXCEPT !.fuel = "diesel"])
=============================================================================
