------------------------ MODULE MCControllerSession ------------------------
EXTENDS ControllerSession

CONSTANTS d1, d2, s1, s2

MCServerOf == [d \in {d1, d2} |-> IF d = d1 THEN s1 ELSE s2]
=============================================================================
