----------------------------- MODULE MCBilling -----------------------------
\* Small instances of Billing for TLC.
EXTENDS Billing

CONSTANTS u

OneOwner == [o \in Order |-> u]
UsualAmount == [o \in Order |-> "usual"]
OnlyHooshPay == [g \in Gateway |-> IF g = "hooshpay" THEN SettingNames ELSE {}]

\* Bound: two of the checkers, the checkout and the admin are at work at a time, and grants and
\* deaths are two together.
TwoAtATime ==
  /\ Cardinality({c \in Checker : check[c].pc # "idle"})
       + Cardinality({o \in Order : checkout[o].pc # "idle"})
       + (IF admin = IdleAdmin THEN 0 ELSE 1) <= 2
  /\ Cardinality(grants) + deaths <= 2

TwoAtATimeSpec == BillingInit /\ [][BillingNext /\ TwoAtATime']_billingVars
=============================================================================
