---------------------------- MODULE MCSharedConfig --------------------------
EXTENDS SharedConfig

CONSTANTS m1, n1, n2, s1, s2

MCContents == {[model |-> m1, name |-> n1, own |-> s1],
               [model |-> NoModel, name |-> n2, own |-> s1]}
=============================================================================
