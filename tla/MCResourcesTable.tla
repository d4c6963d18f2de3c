-------------------------- MODULE MCResourcesTable --------------------------
(* One filter that matches a row beyond its first page, and another one.   *)
EXTENDS ResourcesTable

CONSTANTS a, b, c

ThreeRows == {a, b, c}
TwoFilters == {[page |-> {a}, matching |-> {a, b}],
               [page |-> {b}, matching |-> {a, b}],
               [page |-> {c}, matching |-> {c}]}
=============================================================================
