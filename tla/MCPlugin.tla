------------------------------ MODULE MCPlugin ------------------------------
EXTENDS Plugin

CONSTANTS d1, d2, d3, s1

\* A dashboard of the repository and one of another tool, both of one server, and
\* one without a fixed server.
DashboardServer == [d \in Dashboards |-> IF d = d3 THEN None ELSE s1]

\* The home page: a grid with two items, and a section below it.
HomeItems == <<"g1", "g2", "below">>
=============================================================================
