------------------------------ MODULE MCBudget ------------------------------
(* Budget with the values TLC checks it for: the example settings, and      *)
(* headers that name each of its keys, no known key, and no key at all.     *)
EXTENDS Budget, Example

CONSTANTS t1, t2

TwoTasks == {t1, t2}
OneTask == {t1}
Header(scheme, token) == [scheme |-> scheme, token |-> token]
SomeHeaders ==
    {Header("bearer", token) : token \in {"acme-1", "acme-2", "zeta-1", "none"}}
        \cup {Header("basic", "acme-1")}
NoneOrTwo == {0, 1, 2}
=============================================================================
