SPECIFICATION Spec
SYMMETRY Symmetric
CONSTANTS
    w1 = w1
    w2 = w2
    shopify = shopify
    meta = meta
    r1 = r1
    r2 = r2
    n1 = n1
    n2 = n2
    acct1 = acct1
    acct2 = acct2
    None = None
    Workspace = {w1, w2}
    Vendor = {shopify, meta}
    Account = {acct1, acct2}
    Nonce = {n1, n2}
    Request = {r1, r2}
INVARIANT StateUsedOnce
INVARIANT ConnectedWhereAsked
INVARIANT NoHiddenCredential
INVARIANT SyncedMeansPulled
PROPERTY OwnRowsOnly
