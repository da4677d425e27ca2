-------------------------- MODULE MCSubscriptionCycle --------------------------
EXTENDS SubscriptionCycle, SequencesExt

CONSTANTS w1, w2, r1, r2

\* The first and the third subscription are yearly, the second monthly.
MCYearly == {1, 3}

Bought(s) == <<<<"subscribe", s>>, <<"charge", s>>>>
Months(n) == [i \in 1..n |-> <<"month", None>>]
Steps(s, kinds) == [i \in 1..Len(kinds) |-> <<kinds[i], s>>]

Renewed == Bought(1) \o Months(3) \o Steps(1, <<"charge">>) \o Months(1)
\* Halted at its renewal, and charged in the same month.
LateRenewal == Bought(1) \o Months(3) \o Steps(1, <<"halted", "charge", "cancelled">>) \o Months(1)
\* Charged when the first drip of the new year is due already.
MonthLate == Bought(1) \o Months(3) \o Steps(1, <<"halted">>) \o Months(1)
             \o Steps(1, <<"charge">>)
Paused == Bought(1) \o Steps(1, <<"paused", "resumed">>) \o Months(1)
          \o Steps(1, <<"paused", "cancelled">>)
Completed == Bought(2) \o Months(1) \o Steps(2, <<"charge">>) \o Months(1)
             \o Steps(2, <<"completed">>) \o Months(1) \o Bought(3)
Cancelled == Bought(2) \o Steps(2, <<"cancelled">>) \o Months(2)
             \o Steps(2, <<"expired">>) \o Bought(3) \o Months(1)
\* Out of money and replaced: the old subscription is cancelled and written expired.
Replaced == Bought(2) \o Months(1) \o Steps(2, <<"halted">>) \o Months(1)
            \o Steps(2, <<"cancelled", "lapse">>) \o Bought(3) \o Steps(3, <<"cancelled">>)
\* Written expired with a charge on its way.
LateCharge == Bought(2) \o Months(1) \o Steps(2, <<"halted">>) \o Months(1)
              \o Steps(2, <<"charge", "cancelled", "lapse">>) \o Bought(3)
\* Paid for twice at the same time.
Doubled == Bought(1) \o Months(1) \o Steps(1, <<"cancelled">>) \o Bought(2) \o Months(1)
           \o Steps(2, <<"halted", "charge">>) \o Months(2)

MCResubscribed == {Cancelled}
MCStories == {Renewed, LateRenewal, MonthLate, Paused, Completed, Cancelled, Replaced, LateCharge, Doubled}

=============================================================================
