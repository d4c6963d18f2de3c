------------------------------ MODULE MCBilling ------------------------------
EXTENDS Billing

CONSTANTS p1, p2

MCPlans == {p1, p2}

=============================================================================
