------------------------------ MODULE MCServices ----------------------------
EXTENDS Services

Definition(restart, check, autoStart) ==
  [restart |-> restart, check |-> check, autoStart |-> autoStart]

MCDefinitions == {Definition("always", TRUE, TRUE), Definition("on-failure", TRUE, FALSE),
                  Definition("never", FALSE, TRUE)}
=============================================================================
