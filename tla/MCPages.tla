------------------------------- MODULE MCPages ------------------------------
EXTENDS Pages

CONSTANTS d1, d2, s1, s2

DashboardServer == [d \in Dashboards |-> IF d = d1 THEN s1 ELSE s2]
=============================================================================
