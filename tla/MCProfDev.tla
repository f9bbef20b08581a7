------------------------------ MODULE MCProfDev ------------------------------
(* ProfDev with the trees of devices that the runs use.                    *)
EXTENDS ProfDev, TLC

CONSTANTS m, s, s2, k, c1, c2, p1, p2, p3

NoKids == [d \in Devs |-> <<>>]
OneSource == [d \in Devs |-> IF d = m THEN <<s>> ELSE <<>>]
TwoSources == [d \in Devs |-> IF d = m THEN <<s, s2>> ELSE <<>>]
KidAndSource == [d \in Devs |-> IF d = m THEN <<k, s>> ELSE <<>>]
NoLimit == [d \in Devs |-> 0]
AllTwo == [d \in Devs |-> 2]
==============================================================================
