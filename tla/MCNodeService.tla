---------------------------- MODULE MCNodeService ---------------------------
EXTENDS NodeService, TLC

MCPlans == {[kind |-> "one_time", continuous |-> TRUE, interval |-> 1, repeat |-> 2],
            [kind |-> "one_time", continuous |-> FALSE, interval |-> 1, repeat |-> 2],
            [kind |-> "fixed", continuous |-> FALSE, interval |-> 1, repeat |-> 0]}

=============================================================================
