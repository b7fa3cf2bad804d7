-------------------------- MODULE MCNetworkInterfaces --------------------------
\* NetworkInterfaces for TLC: two interfaces, one of which may have two addresses.
EXTENDS NetworkInterfaces

CONSTANTS n1, n2, u1, u2, bad

MCSystemLists == {<< >>, <<n1>>, <<n1, n2, n1>>}
MCSysConfigs == {AllNetints, NoNetints, Listing(<<n2, n1, n2>>), Listing(<<n1, bad>>)}
MCUserConfigs == {NoNetints, Listing(<<n1, n1>>)}
MCMadeUnicast ==
    {[v4 |-> "made", v6 |-> "made"], [v4 |-> "made", v6 |-> "half"],
     [v4 |-> "half", v6 |-> "made"], [v4 |-> "unasked", v6 |-> "failed"]}
================================================================================
