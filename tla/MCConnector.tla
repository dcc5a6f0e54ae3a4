----------------------------- MODULE MCConnector ------------------------------
(* Instances of ConnectorLifecycle for TLC. *)
EXTENDS ConnectorLifecycle, TLC

CONSTANTS w1, w2, shopify, meta, r1, r2, n1, n2, acct1, acct2

\* Nothing tells requests or workspaces apart; states and accounts neither.
Symmetric == Permutations(Request) \cup Permutations(Workspace)
             \cup Permutations(Nonce) \cup Permutations(Account)
=============================================================================
