----------------------------- MODULE MCFeegrant -----------------------------
EXTENDS Feegrant

CONSTANTS g, u, v, A, B, C

Message(kind, granter, grantee, limit) ==
    [kind |-> kind, granter |-> granter, grantee |-> grantee, limit |-> limit]

Tx(height, payer, fee, usedUp, messages) ==
    [height |-> height, payer |-> payer, fee |-> fee, ok |-> TRUE, usedUp |-> usedUp,
     msgs |-> messages]

MCHashes == {g, u, v}

\* A grants B, in height 1; B uses the grant, at a height of its own.
GrantAB == Tx(1, NoPayer, 1, FALSE, <<Message("grant", A, B, 5)>>)
Use(height) == Tx(height, A, 1, FALSE, <<Message("other", NoPayer, B, NoLimit)>>)

\* B uses it up: a use and a revoke in one transaction.
MCTwoHashes == {g, u}
MCUsedUp == (g :> GrantAB)
    @@ (u :> Tx(2, A, 1, TRUE, <<Message("other", NoPayer, B, NoLimit)>>))

\* B uses it, and later uses it up.
MCUsedTwiceUp == (g :> GrantAB) @@ (u :> Use(2))
    @@ (v :> Tx(3, A, 1, TRUE, <<Message("other", NoPayer, B, NoLimit)>>))

\* B uses it twice.
MCUsedTwice == (g :> GrantAB) @@ (u :> Use(2)) @@ (v :> Use(3))

\* B uses it in the same block.
MCSameBlock == (g :> GrantAB) @@ (u :> Use(1))
    @@ (v :> Tx(2, A, 2, TRUE, <<Message("grant", B, C, NoLimit)>>))

\* C uses a grant from before the first crawled block, then B uses A's.
MCOlderGrant == (g :> GrantAB) @@ (u :> Use(2))
    @@ (v :> Tx(1, A, 1, FALSE, <<Message("other", NoPayer, C, NoLimit)>>))
=============================================================================
