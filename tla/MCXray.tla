------------------------------- MODULE MCXray -------------------------------
\* Xray with a direct-beam test, a fluorescence test, a test without x-rays
\* and a test with a target that the client does not have.
EXTENDS Xray

CONSTANTS v1, v2, i1, i2, Ag, Sn, none

XrayTest(v, i, t) == [xray |-> TRUE, voltage |-> v, current |-> i, target |-> t]
DarkTest == [xray |-> FALSE, voltage |-> v1, current |-> i1, target |-> none]

KnownTargets == {Ag}
TestEnvironments ==
  {XrayTest(v1, i1, none), XrayTest(v2, i2, Ag), XrayTest(v2, i2, Sn), DarkTest}
=============================================================================
