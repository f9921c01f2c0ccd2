-------------------------- MODULE MCSubnetAllocation --------------------------
EXTENDS SubnetAllocation

Net(len) == [len |-> len, skip |-> FALSE]
Gap(len) == [len |-> len, skip |-> TRUE]

\* Addresses 0..7 of sixteen.
LowHalf == [base |-> 0, len |-> 1]

\* As typed: one has host bits set, the last one is larger than the block.
SomeCidrs == {[base |-> 0, len |-> 2], [base |-> 3, len |-> 3], [base |-> 5, len |-> 4],
              [base |-> 0, len |-> 0]}

\* Templates whose footprint fits in the block.
Fitting == {<<Net(4), Net(3)>>, <<Net(3), Gap(4), Net(4)>>, <<Net(2), Net(3), Net(4)>>}

\* Space is handed out and taken back; subnets are claimed, released, deleted.
Loads == {[ops |-> {"create", "next", "bulk", "sync", "deprecate"}, subnets |-> 4],
          [ops |-> {"create", "claim", "host", "release", "expire", "delete", "deleteBlock"},
           subnets |-> 2]}

=============================================================================
