---------------------------- MODULE MCClientQuota ----------------------------
EXTENDS ClientQuota

Limit(rpm, day, month) ==
  [rpm |-> rpm, budget |-> [p \in Periods |-> IF p = "day" THEN day ELSE month]]

\* No limit, windows of one and of two hits; daily and monthly budgets.
MCLimits == {Limit(0, 1, 0), Limit(2, 0, 1), Limit(1, 1, 0)}
=============================================================================
