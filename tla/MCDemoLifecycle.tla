-------------------------- MODULE MCDemoLifecycle --------------------------
(* Model values and bounds of the DemoLifecycle runs.                      *)
EXTENDS DemoLifecycle, TLC

CONSTANTS p1, p2, rg, vm, waf

MCOperator == {p1, p2}
MCAzure    == {rg, vm}
MCXC       == {waf}
MCRequires == (rg :> {}) @@ (vm :> {rg}) @@ (waf :> {})

Controllers == Permutations(MCOperator)
=============================================================================
