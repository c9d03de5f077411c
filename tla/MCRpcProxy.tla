------------------------------ MODULE MCRpcProxy ------------------------------
(***************************************************************************)
(* Instances of module RpcProxy for TLC.                                   *)
(***************************************************************************)
EXTENDS RpcProxy, TLC

Handlers == Permutations(Handler)

\* The state of a block and of the latest one, in a database that is opened when it
\* is first used.
StateQueries == { <<"eth_getStorageAt", "a", "s", 1>>, <<"eth_getStorageAt", "a", "s", Latest>> }

\* Files that change with the chain: a block, by number with its transactions
\* and by hash without them; code that is deployed.  A request that is forwarded
\* and one that is refused.
FileQueries ==
  { <<"eth_getBlockByNumber", 1, TRUE, 0>>, <<"eth_getBlockByHash", 1, FALSE, 0>>,
    <<"eth_getCode", "a", "", Latest>>, <<"ready", "", "", 0>>, <<"invalid", "", "", 0>> }

\* Everything that is answered in a different way.
MixedQueries ==
  { <<"eth_getStorageAt", "a", "s", 1>>,
    <<"eth_getTransactionByHash", 1, "", 0>>, <<"eth_blockNumber", "", "", 0>>,
    <<"invalid", "", "", 0>> }

OneSlot == {<<"eth_getStorageAt", "a", "s", 1>>}

OtherMethods == {<<"eth_blockNumber", "", "", 0>>, <<"eth_getBalance", "a", "", 1>>}
=============================================================================
