-------------------------- MODULE MCDatastoreWrites --------------------------
EXTENDS DatastoreWrites

CONSTANTS u1, u2, r1, r2

Put(k, v) == [op |-> "put", key |-> k, val |-> v]

\* With a key, without one, and a named document after a drawn one.
Batches == {<<Put(1, "a")>>, <<Put(0, "a")>>, <<Put(0, "b"), Put(2, "a")>>}

Transactions == {<<[op |-> "check", key |-> 1, exists |-> FALSE], Put(1, "b")>>,
                 <<[op |-> "mutate", key |-> 2, val |-> "a", upsert |-> TRUE],
                   [op |-> "delete", key |-> 1]>>}

=============================================================================
