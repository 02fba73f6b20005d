-------------------------- MODULE MCChannelProvider --------------------------
EXTENDS ChannelProvider

MCGenerations ==
    {[domain |-> 1, claim |-> 1, trust |-> 2],
     [domain |-> 1, claim |-> 2, trust |-> 1]}

\* An absent policy, and one that advances it.
MCPolicies == {[revision |-> 0, content |-> "none"], [revision |-> 1, content |-> "mute"]}
=============================================================================
