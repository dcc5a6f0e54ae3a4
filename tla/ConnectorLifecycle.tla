-------------------------- MODULE ConnectorLifecycle --------------------------
(***************************************************************************)
(* Connecting, syncing and disconnecting a workspace's account at a vendor *)
(* (core-service, contexts/connectors: connector-use-cases.ts,             *)
(* oauth-state.ts, sync/sync-use-cases.ts).                                *)
(*                                                                         *)
(* Each use case is a request that makes several separate writes: the      *)
(* credential in custody and the row of connector_connections are never in *)
(* one transaction.  Requests interleave, and one can die between any two  *)
(* of its steps.  A credential is known by the provider account it belongs *)
(* to.                                                                     *)
(***************************************************************************)
EXTENDS Naturals, FiniteSets

CONSTANTS
    Workspace, Vendor,
    Account,   \* provider accounts
    Nonce,     \* OAuth states
    Request,   \* requests in flight
    None

ASSUME NoneAssumption == None \notin Account \cup Nonce \cup (Workspace \X Vendor)

Connection == Workspace \X Vendor

VARIABLES
    asked,     \* connection each OAuth state was created for
    pending,   \* connector_oauth_states: states neither used nor pruned
    expired,   \* states whose ten minutes ended while they were pending
    row,       \* connector_connections
    credential,\* custody: the account whose token is kept, per connection
    pulled,    \* connections whose facts a sync has stored (it may find none)
    request,   \* what each request is doing
    uses,      \* history: how often a state has led to a stored credential
    torn       \* history: connections left with an interleaved or dead update

oauth   == <<asked, pending, expired>>
history == <<uses, torn>>
vars    == <<asked, pending, expired, row, credential, pulled, request, uses, torn>>

NoRow == [status |-> "absent", account |-> None, synced |-> FALSE]

\* A request at rest, and one at a step of its use case.
At(step, c, n, a) == [at |-> step, conn |-> c, nonce |-> n, account |-> a]
Idle == At("idle", None, None, None)

ConnectSteps == {"exchange", "put", "connect_row"}
SyncSteps    == {"sync_token", "sync_write", "sync_restore"}
Steps        == ConnectSteps \cup SyncSteps \cup {"disconnect_row", "idle"}

TypeOK ==
    /\ asked \in [Nonce -> Connection \cup {None}]
    /\ pending \subseteq Nonce /\ expired \subseteq Nonce
    /\ \A n \in pending \cup expired : asked[n] # None
    /\ row \in [Connection -> [status  : {"absent", "CONNECTED", "DISCONNECTED"},
                               account : Account \cup {None},
                               synced  : BOOLEAN]]
    /\ \A c \in Connection : row[c].status = "absent" <=> row[c].account = None
    /\ credential \in [Connection -> Account \cup {None}]
    /\ pulled \subseteq Connection
    /\ request \in [Request -> [at : Steps, conn : Connection \cup {None},
                               nonce : Nonce \cup {None}, account : Account \cup {None}]]
    /\ uses \in [Nonce -> Nat]
    /\ torn \subseteq Connection

Init ==
    /\ asked = [n \in Nonce |-> None] /\ pending = {} /\ expired = {}
    /\ row = [c \in Connection |-> NoRow]
    /\ credential = [c \in Connection |-> None]
    /\ pulled = {}
    /\ request = [r \in Request |-> Idle]
    /\ uses = [n \in Nonce |-> 0]
    /\ torn = {}

-----------------------------------------------------------------------------
Goto(r, new) == request' = [request EXCEPT ![r] = new]
Finish(r)    == Goto(r, Idle)
IsAt(r, step) == request[r].at = step

\* Requests that have changed the credential of c and not yet its row.
Updating(c) == {r \in Request : request[r].at \in {"connect_row", "disconnect_row"}
                                /\ request[r].conn = c}

\* A credential write starts an update; one that begins alone repairs what an
\* earlier one left behind.
BeginUpdate(c) == torn' = IF Updating(c) = {} THEN torn \ {c} ELSE torn \cup {c}

-----------------------------------------------------------------------------
(* Connecting: initiateConnect and completeCallback. *)

\* initiateConnect: a fresh state; expired ones of the connection are pruned.
InitiateConnect(n, c) ==
    /\ asked[n] = None
    /\ asked' = [asked EXCEPT ![n] = c]
    /\ pending' = (pending \ {x \in expired : asked[x] = c}) \cup {n}
    /\ UNCHANGED <<expired, row, credential, pulled, request, history>>

Expire(n) ==
    /\ n \in pending \ expired
    /\ expired' = expired \cup {n}
    /\ UNCHANGED <<asked, pending, row, credential, pulled, request, history>>

\* Bugs: the vendor is not compared, or the row outlives the call.
AcceptedAnyVendor(n, v) == n \in pending \ expired
Kept(n) == pending

\* validateAndConsumeOAuthState: is the record returned to a callback of vendor v,
\* and what does it leave in the table?
Accepted(n, v) == n \in pending \ expired /\ asked[n][2] = v
Consumed(n) == pending \ {n}

\* A callback for the path of vendor v with a state the server has issued: used,
\* replayed or mixed up.  The row is deleted before anything is compared.
BeginCallback(r, n, v) ==
    /\ IsAt(r, "idle") /\ asked[n] # None
    /\ pending' = Consumed(n)
    /\ IF Accepted(n, v)
         THEN Goto(r, At("exchange", <<asked[n][1], v>>, n, None))
         ELSE Finish(r)
    /\ UNCHANGED <<asked, expired, row, credential, pulled, history>>

\* Shopify's HMAC is wrong or the code exchange fails; the state is spent.
CallbackFails(r) ==
    /\ IsAt(r, "exchange")
    /\ Finish(r)
    /\ UNCHANGED <<oauth, row, credential, pulled, history>>

\* exchangeCode: the provider answers for the account the user chose there.
Exchange(r, a) ==
    /\ IsAt(r, "exchange")
    /\ Goto(r, [request[r] EXCEPT !.at = "put", !.account = a])
    /\ UNCHANGED <<oauth, row, credential, pulled, history>>

\* custody.put: an UPSERT of the workspace's credential at the vendor.
PutCredential(r) ==
    LET c == request[r].conn IN
    /\ IsAt(r, "put")
    /\ credential' = [credential EXCEPT ![c] = request[r].account]
    /\ uses' = [uses EXCEPT ![request[r].nonce] = @ + 1]
    /\ BeginUpdate(c)
    /\ Goto(r, [request[r] EXCEPT !.at = "connect_row"])
    /\ UNCHANGED <<oauth, row, pulled>>

\* The UPSERT of the connection's row, which keeps last_sync_at.
ConnectRow(r) ==
    LET c == request[r].conn IN
    /\ IsAt(r, "connect_row")
    /\ row' = [row EXCEPT ![c].status = "CONNECTED", ![c].account = request[r].account]
    /\ Finish(r)
    /\ UNCHANGED <<oauth, credential, pulled, history>>

-----------------------------------------------------------------------------
(* disconnect: custody.seal, then the row. *)

\* A bug: only the row is changed.
SealNothing(c) == credential

Sealed(c) == [credential EXCEPT ![c] = None]

Seal(r, c) ==
    /\ IsAt(r, "idle")
    /\ credential' = Sealed(c)
    /\ BeginUpdate(c)
    /\ Goto(r, At("disconnect_row", c, None, None))
    /\ UNCHANGED <<oauth, row, pulled, uses>>

\* An UPDATE changes what rows it finds.
Update(found, status) ==
    [c \in Connection |-> IF c \in found /\ row[c].status # "absent"
                             THEN [row[c] EXCEPT !.status = status] ELSE row[c]]

Disconnected(c) == Update({c}, "DISCONNECTED")

DisconnectRow(r) ==
    /\ IsAt(r, "disconnect_row")
    /\ row' = Disconnected(request[r].conn)
    /\ Finish(r)
    /\ UNCHANGED <<oauth, credential, pulled, history>>

-----------------------------------------------------------------------------
(* syncConnector: called by a user or by the scheduler's tick. *)

\* Bug: the transaction of a sync runs outside its workspace.
EveryWorkspace(c) == {d \in Connection : d[2] = c[2]}

\* The statements of a sync on connector_connections say WHERE vendor = $1, and
\* row-level security leaves one row of those.  (A disconnect names its workspace,
\* and so does every fact a sync stores.)
Visible(c) == {c}

\* Transaction 1: a connection that is not CONNECTED ends the sync at once.
BeginSync(r, c) ==
    /\ IsAt(r, "idle") /\ \E d \in Visible(c) : row[d].status = "CONNECTED"
    /\ Goto(r, At("sync_token", c, None, None))
    /\ UNCHANGED <<oauth, row, credential, pulled, history>>

\* custody.get: a missing credential is reported on the row.
ReadToken(r) ==
    LET token == credential[request[r].conn] IN
    /\ IsAt(r, "sync_token")
    /\ Goto(r, [request[r] EXCEPT !.at = IF token = None THEN "sync_restore" ELSE "sync_write",
                                  !.account = token])
    /\ UNCHANGED <<oauth, row, credential, pulled, history>>

\* The fetch, the normalizer or the transaction throws; nothing has been written.
SyncThrows(r) ==
    /\ request[r].at \in {"sync_token", "sync_write"}
    /\ Goto(r, [request[r] EXCEPT !.at = "sync_restore"])
    /\ UNCHANGED <<oauth, row, credential, pulled, history>>

\* Transaction 2: the facts there are, and status and last_sync_at of the row,
\* without looking at the status again.
WriteFacts(r) ==
    LET seen == Visible(request[r].conn) IN
    /\ IsAt(r, "sync_write")
    /\ pulled' = pulled \cup {request[r].conn}
    /\ row' = [c \in Connection |->
                  IF c \in seen /\ row[c].status # "absent"
                    THEN [row[c] EXCEPT !.status = "CONNECTED", !.synced = TRUE] ELSE row[c]]
    /\ Finish(r)
    /\ UNCHANGED <<oauth, credential, history>>

\* A bug: the error path stamps last_sync_at too.
RestoredAndStamped(c) == [Update(Visible(c), "CONNECTED") EXCEPT ![c].synced = TRUE]

\* restoreConnected: CONNECTED and last_sync_error, whatever happened meanwhile.
Restored(c) == Update(Visible(c), "CONNECTED")

RestoreConnected(r) ==
    /\ IsAt(r, "sync_restore")
    /\ row' = Restored(request[r].conn)
    /\ Finish(r)
    /\ UNCHANGED <<oauth, credential, pulled, history>>

-----------------------------------------------------------------------------
\* The process dies, or the database or custody refuses the next step.
Die(r) ==
    /\ ~ IsAt(r, "idle")
    /\ torn' = torn \cup {c \in Connection : r \in Updating(c)}
    /\ Finish(r)
    /\ UNCHANGED <<oauth, row, credential, pulled, uses>>

Connect(r) ==
    \/ \E n \in Nonce, v \in Vendor : BeginCallback(r, n, v)
    \/ CallbackFails(r) \/ (\E a \in Account : Exchange(r, a))
    \/ PutCredential(r) \/ ConnectRow(r)

Disconnect(r) == (\E c \in Connection : Seal(r, c)) \/ DisconnectRow(r)

Sync(r) ==
    \/ \E c \in Connection : BeginSync(r, c)
    \/ ReadToken(r) \/ SyncThrows(r) \/ WriteFacts(r) \/ RestoreConnected(r)

Next ==
    \/ \E n \in Nonce : Expire(n) \/ \E c \in Connection : InitiateConnect(n, c)
    \/ \E r \in Request : Connect(r) \/ Disconnect(r) \/ Sync(r) \/ Die(r)

Spec == Init /\ [][Next]_vars

-----------------------------------------------------------------------------
\* Safety: an OAuth state connects at most one account, and none once it has
\* expired, however callbacks are replayed, raced or delayed.
StateUsedOnce == \A n \in Nonce : uses[n] <= 1 /\ (uses[n] = 1 => n \notin expired)

\* Safety: a credential is kept only for a connection somebody asked to connect,
\* the same workspace and the same vendor, and whose request got this far.
ConnectedWhereAsked ==
    \A c \in Connection : credential[c] # None => \E n \in Nonce : asked[n] = c /\ uses[n] > 0

\* Safety: what the settings page shows as disconnected or not connected has no
\* credential in custody, and a kept credential belongs to the account on
\* display, unless an update was interleaved with another or died halfway; the
\* next update that runs alone puts that right.
NoHiddenCredential ==
    \A c \in Connection :
        Updating(c) = {} /\ c \notin torn /\ credential[c] # None
            => row[c].status = "CONNECTED" /\ row[c].account = credential[c]

\* Action property: a step changes the row of a connection only if it is a step of
\* a request about that connection; the statements of a sync, which name a vendor
\* and no workspace, touch no other workspace's row.
OwnRowsOnly ==
    [][\A c \in Connection : row'[c] # row[c]
          => \E r \in Request : request[r].conn = c /\ request'[r] # request[r]]_vars

\* Safety: a connection reads "synced" only if a sync of it has stored what it
\* pulled, be it nothing; a sync that failed does not make it so.
SyncedMeansPulled == \A c \in Connection : row[c].synced => c \in pulled

\* Action property, the comment in syncConnector: "The connection stays CONNECTED
\* throughout; only last_sync_at / last_sync_error move": a disconnected row is
\* connected again by a callback only.
SyncKeepsStatus ==
    [][\A c \in Connection :
          row[c].status = "DISCONNECTED" /\ row'[c].status = "CONNECTED"
            => \E r \in Request : request[r].at = "connect_row" /\ request[r].conn = c]_vars
=============================================================================
