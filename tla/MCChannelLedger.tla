--------------------------- MODULE MCChannelLedger ---------------------------
EXTENDS ChannelLedger

\* Two generations of each device that a field-by-field comparison misorders.
MCGenerations ==
    {[domain |-> 1, claim |-> 1, trust |-> 2],
     [domain |-> 1, claim |-> 2, trust |-> 1]}

\* One policy, where the question is about generations.
MCOnePolicy == {[revision |-> 0, content |-> "none"]}

\* One generation, where the question is about policies: none, two contents
\* under one revision, and an advance.
MCOneGeneration == {[domain |-> 1, claim |-> 1, trust |-> 1]}
MCPolicies ==
    {[revision |-> 0, content |-> "none"],
     [revision |-> 1, content |-> "speak"],
     [revision |-> 1, content |-> "mute"],
     [revision |-> 2, content |-> "speak"]}
=============================================================================
