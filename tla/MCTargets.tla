----------------------------- MODULE MCTargets -----------------------------
(* Three addresses, and answers that fail, have one family or have both.   *)
EXTENDS Targets

CONSTANTS a4, b4, a6

AllAddresses == {a4, b4, a6}
Families == [e \in AllAddresses |-> IF e = a6 THEN "ipv6" ELSE "ipv4"]
SomeAnswers == {<<>>, <<b4>>, <<a6>>, <<a4, a6>>}
=============================================================================
