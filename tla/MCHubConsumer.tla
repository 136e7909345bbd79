--------------------------- MODULE MCHubConsumer ---------------------------
EXTENDS HubConsumer

CONSTANTS n1, n2, p1, t1

MCCached == {<<n1, t1>>}

MCRecord == {[form |-> "envelope", hub |-> TRUE, ticket |-> t1],
             [form |-> "direct", hub |-> FALSE, ticket |-> t1]}
=============================================================================
