------------------------ MODULE MCInstanceLifecycle ------------------------
(***************************************************************************)
(* Values of the constants for checking InstanceLifecycle with TLC.        *)
(***************************************************************************)
EXTENDS ImageKept, TLC

CONSTANTS i1, i2, h1, h2, a1, a2, n1, n2

OneInstance == {i1}
TwoInstances == {i1, i2}
OneHardware == {h1}
TwoHardware == {h1, h2}

NamesApart == [i \in Instances |-> IF i = i1 THEN n1 ELSE n2]

SelectAll == [i \in Instances |-> Hardware]
SelectFirst == [i \in Instances |-> {h1}]

TolerateNothing == [i \in Instances |-> {}]

\* Every machine has one address of its own.
OwnAddress == [h \in Hardware |-> IF h = h1 THEN {a1} ELSE {a2}]

Alike == Permutations(Instances)
=============================================================================
