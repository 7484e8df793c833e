------------------------------- MODULE Pricing -------------------------------
(***************************************************************************)
(* calculatePricing: what a job costs, in cents, by the pricing rule of    *)
(* its service type and the rush the customer asked for.                   *)
(***************************************************************************)
EXTENDS Integers

RushTier == {"none", "next_day", "same_day"}

\* A row of pricing_rules; a deposit of 0 stands for NULL too, and the other
\* columns that may be NULL hold what the code takes for NULL.
PricingRule == [base : Nat, rush : Nat, nextDayRush : Nat, deposit : Nat,
                payout : Nat, rushBonus : Nat]

\* Math.round of a non-negative n / d
Rounded(n, d) == (2 * n + d) \div (2 * d)

AtLeastZero(n) == IF n > 0 THEN n ELSE 0

RushAmount(rule, tier) ==
    CASE tier = "same_day" -> rule.rush
      [] tier = "next_day" -> rule.nextDayRush
      [] OTHER -> 0

\* The contractor's part of the rush; next-day is 6 dollars less
RushBonus(rule, tier) ==
    CASE tier = "same_day" -> rule.rushBonus
      [] tier = "next_day" -> AtLeastZero(rule.rushBonus - 600)
      [] OTHER -> 0

Total(rule, tier) == rule.base + RushAmount(rule, tier)

\* The rule's deposit, or half of the total; and all of the rush on top
Deposit(rule, tier) ==
    (IF rule.deposit > 0 THEN rule.deposit ELSE Rounded(Total(rule, tier), 2))
        + RushAmount(rule, tier)

Remainder(rule, tier) == AtLeastZero(Total(rule, tier) - Deposit(rule, tier))

Payout(rule, tier) == rule.payout + RushBonus(rule, tier)

RushPlatformShare(rule, tier) == AtLeastZero(RushAmount(rule, tier) - RushBonus(rule, tier))

\* estimateStripeFee: 2.9% and 30 cents
EstimateStripeFee(amount) == Rounded(29 * amount, 1000) + 30

JobMargin(rule, tier) ==
    AtLeastZero(Total(rule, tier) - EstimateStripeFee(Total(rule, tier)) - Payout(rule, tier))
=============================================================================
