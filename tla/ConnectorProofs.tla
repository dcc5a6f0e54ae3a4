--------------------------- MODULE ConnectorProofs ----------------------------
(***************************************************************************)
(* What ConnectorLifecycle guarantees for any number of workspaces,        *)
(* vendors, accounts, OAuth states and requests.                           *)
(***************************************************************************)
EXTENDS ConnectorLifecycle, TLAPS

\* What a request holds at a step: a connection while it is not idle, the state
\* it consumed while it connects, and an account once it has one.
Held ==
    \A r \in Request :
        /\ request[r].at # "idle" => request[r].conn \in Connection
        /\ request[r].at \in ConnectSteps => request[r].nonce \in Nonce
        /\ request[r].at \in {"put", "connect_row", "sync_write"} => request[r].account \in Account

TypeInv == TypeOK /\ Held

RequestType == [at : Steps, conn : Connection \cup {None},
                nonce : Nonce \cup {None}, account : Account \cup {None}]

LEMMA TypesInPlace ==
    ASSUME TypeOK
    PROVE  /\ asked \in [Nonce -> Connection \cup {None}]
           /\ pending \subseteq Nonce /\ expired \subseteq Nonce
           /\ \A n \in pending \cup expired : asked[n] # None
           /\ \A c \in Connection : /\ row[c].status = "absent" <=> row[c].account = None
                                    /\ credential[c] \in Account \cup {None}
           /\ credential \in [Connection -> Account \cup {None}]
           /\ pulled \subseteq Connection
           /\ request \in [Request -> RequestType]
           /\ uses \in [Nonce -> Nat]
           /\ torn \subseteq Connection
BY DEF TypeOK, RequestType

\* A step of one request leaves what the others hold.
LEMMA OneRequestMoves ==
    ASSUME TypeInv, NEW r \in Request, NEW new \in RequestType, Goto(r, new),
           new.at # "idle" => new.conn \in Connection,
           new.at \in ConnectSteps => new.nonce \in Nonce,
           new.at \in {"put", "connect_row", "sync_write"} => new.account \in Account
    PROVE  /\ request' \in [Request -> RequestType]
           /\ Held'
           /\ \A s \in Request : request'[s] = IF s = r THEN new ELSE request[s]
BY TypesInPlace DEF TypeInv, Held, Goto

LEMMA IdleIsRequest == Idle \in RequestType /\ Idle.at = "idle"
BY DEF Idle, At, RequestType, Steps

LEMMA Finishing ==
    ASSUME TypeInv, NEW r \in Request, Finish(r)
    PROVE  /\ request' \in [Request -> RequestType]
           /\ Held'
           /\ \A s \in Request : request'[s] = IF s = r THEN Idle ELSE request[s]
BY IdleIsRequest, OneRequestMoves DEF Finish, ConnectSteps

\* The request after a step inside a use case keeps its connection and state.
Moved(r, step, a) == [request[r] EXCEPT !.at = step, !.account = a]

LEMMA MovedTo ==
    ASSUME TypeInv, NEW r \in Request, request[r].at # "idle",
           NEW step \in Steps, NEW a \in Account \cup {None},
           Goto(r, Moved(r, step, a)),
           step \in ConnectSteps => request[r].at \in ConnectSteps,
           step \in {"put", "connect_row", "sync_write"} => a \in Account
    PROVE  /\ request' \in [Request -> RequestType]
           /\ Held'
           /\ \A s \in Request : s # r => request'[s] = request[s]
           /\ request'[r].at = step /\ request'[r].account = a
           /\ request'[r].conn = request[r].conn /\ request'[r].nonce = request[r].nonce
<1> DEFINE new == Moved(r, step, a)
<1>1. request[r] \in RequestType
    BY TypesInPlace DEF TypeInv
<1>2. /\ new \in RequestType /\ new.at = step /\ new.account = a
      /\ new.conn = request[r].conn /\ new.nonce = request[r].nonce
    BY <1>1 DEF RequestType, Moved
<1>3. /\ new.at # "idle" => new.conn \in Connection
      /\ new.at \in ConnectSteps => new.nonce \in Nonce
    BY <1>2 DEF TypeInv, Held
<1>4. Goto(r, new)
    OBVIOUS
<1> HIDE DEF new
<1>5. QED
    BY <1>2, <1>3, <1>4, OneRequestMoves

LEMMA Moving ==
    ASSUME TypeInv, NEW r \in Request, request[r].at # "idle",
           NEW step \in Steps, NEW a \in Account \cup {None},
           Goto(r, [request[r] EXCEPT !.at = step, !.account = a]),
           step \in ConnectSteps => request[r].at \in ConnectSteps,
           step \in {"put", "connect_row", "sync_write"} => a \in Account
    PROVE  /\ request' \in [Request -> RequestType]
           /\ Held'
           /\ \A s \in Request : s # r => request'[s] = request[s]
           /\ request'[r].at = step /\ request'[r].account = a
           /\ request'[r].conn = request[r].conn /\ request'[r].nonce = request[r].nonce
<1>1. Goto(r, Moved(r, step, a))
    BY DEF Moved
<1>2. QED
    BY <1>1, MovedTo

LEMMA Starting ==
    ASSUME TypeInv, NEW r \in Request, NEW step \in Steps, NEW c \in Connection,
           NEW n \in Nonce \cup {None}, step \in ConnectSteps => n \in Nonce,
           step \notin {"put", "connect_row", "sync_write"},
           Goto(r, At(step, c, n, None))
    PROVE  /\ request' \in [Request -> RequestType]
           /\ Held'
           /\ \A s \in Request : s # r => request'[s] = request[s]
           /\ request'[r] = At(step, c, n, None)
           /\ request'[r].at = step /\ request'[r].conn = c /\ request'[r].nonce = n
<1> DEFINE new == At(step, c, n, None)
<1>1. /\ new \in RequestType /\ new.at = step
      /\ new.conn = c /\ new.nonce = n
    BY DEF RequestType, At
<1>2. Goto(r, new)
    OBVIOUS
<1> HIDE DEF new
<1>3. /\ request' \in [Request -> RequestType] /\ Held'
      /\ \A s \in Request : request'[s] = IF s = r THEN new ELSE request[s]
    BY <1>1, <1>2, OneRequestMoves
<1>4. QED
    BY <1>1, <1>3 DEF new

LEMMA MovingOn ==
    ASSUME TypeInv, NEW r \in Request, request[r].at # "idle",
           NEW step \in Steps,
           Goto(r, [request[r] EXCEPT !.at = step]),
           step \in ConnectSteps => request[r].at \in ConnectSteps,
           step \in {"put", "connect_row", "sync_write"} => request[r].account \in Account
    PROVE  /\ request' \in [Request -> RequestType]
           /\ Held'
           /\ \A s \in Request : s # r => request'[s] = request[s]
           /\ request'[r].at = step /\ request'[r].account = request[r].account
           /\ request'[r].conn = request[r].conn /\ request'[r].nonce = request[r].nonce
<1>1. request[r] \in RequestType
    BY TypesInPlace DEF TypeInv
<1>2. request[r].account \in Account \cup {None}
    BY <1>1 DEF RequestType
<1>3. [request[r] EXCEPT !.at = step] = [request[r] EXCEPT !.at = step, !.account = request[r].account]
    BY <1>1 DEF RequestType
<1>4. Goto(r, [request[r] EXCEPT !.at = step, !.account = request[r].account])
    BY <1>3 DEF Goto
<1>5. QED
    BY <1>2, <1>4, Moving

-----------------------------------------------------------------------------
(* Types. *)

LEMMA InitTypes == Init => TypeInv
<1> SUFFICES ASSUME Init PROVE TypeInv
    OBVIOUS
<1>1. Idle \in RequestType /\ Idle.at = "idle"
    BY IdleIsRequest
<1>2. request \in [Request -> RequestType] /\ Held
    BY <1>1 DEF Init, Held, ConnectSteps
<1>3. TypeOK
    BY <1>2 DEF Init, TypeOK, NoRow, RequestType
<1>4. QED
    BY <1>2, <1>3 DEF TypeInv

LEMMA StatesTypes ==
    ASSUME TypeInv, NEW n \in Nonce,
           Expire(n) \/ \E c \in Connection : InitiateConnect(n, c)
    PROVE  TypeInv'
<1>1. CASE Expire(n)
    BY <1>1 DEF Expire, TypeInv, TypeOK, Held, history
<1>2. ASSUME NEW c \in Connection, InitiateConnect(n, c)
      PROVE  TypeInv'
    <2>1. c # None
        BY NoneAssumption DEF Connection
    <2>2. QED
        BY <1>2, <2>1 DEF InitiateConnect, TypeInv, TypeOK, Held, history
<1>3. QED
    BY <1>1, <1>2

\* Steps that change a request, and take states from the table, and no more.
LEMMA RequestTypes ==
    ASSUME TypeInv, request' \in [Request -> RequestType], Held',
           UNCHANGED <<row, credential, pulled, history>>,
           asked' = asked, expired' = expired, pending' \subseteq pending
    PROVE  TypeInv'
BY DEF TypeInv, TypeOK, RequestType, history

LEMMA BeginCallbackTypes ==
    ASSUME TypeInv, NEW r \in Request, NEW n \in Nonce, NEW v \in Vendor, BeginCallback(r, n, v)
    PROVE  TypeInv'
<1>1. <<asked[n][1], v>> \in Connection
    BY TypesInPlace DEF BeginCallback, TypeInv, Connection
<1>2. request' \in [Request -> RequestType] /\ Held'
    <2>1. CASE Accepted(n, v)
        BY <2>1, <1>1, Starting DEF BeginCallback, Steps, ConnectSteps
    <2>2. CASE ~ Accepted(n, v)
        BY <2>2, Finishing DEF BeginCallback
    <2>3. QED
        BY <2>1, <2>2
<1>3. QED
    BY <1>2, RequestTypes DEF BeginCallback, Consumed

LEMMA RequestOnlyTypes ==
    ASSUME TypeInv, NEW r \in Request,
           \/ CallbackFails(r) \/ (\E a \in Account : Exchange(r, a))
           \/ (\E c \in Connection : BeginSync(r, c)) \/ ReadToken(r) \/ SyncThrows(r)
    PROVE  TypeInv'
<1>1. CASE CallbackFails(r)
    BY <1>1, Finishing, RequestTypes DEF CallbackFails, oauth
<1>2. ASSUME NEW a \in Account, Exchange(r, a)
      PROVE  TypeInv'
    <2>1. request' \in [Request -> RequestType] /\ Held'
        BY <1>2, Moving DEF Exchange, IsAt, Steps, ConnectSteps
    <2>2. QED
        BY <1>2, <2>1, RequestTypes DEF Exchange, oauth
<1>3. ASSUME NEW c \in Connection, BeginSync(r, c)
      PROVE  TypeInv'
    <2>1. request' \in [Request -> RequestType] /\ Held'
        BY <1>3, Starting DEF BeginSync, Steps, SyncSteps, ConnectSteps
    <2>2. QED
        BY <1>3, <2>1, RequestTypes DEF BeginSync, oauth
<1>4. CASE ReadToken(r)
    <2>1. request[r].conn \in Connection
        BY <1>4 DEF TypeInv, Held, ReadToken, IsAt
    <2>2. credential[request[r].conn] \in Account \cup {None}
        BY <2>1, TypesInPlace DEF TypeInv
    <2> DEFINE token == credential[request[r].conn]
               step == IF token = None THEN "sync_restore" ELSE "sync_write"
    <2>3. /\ request[r].at # "idle" /\ step \in Steps /\ step \notin ConnectSteps
          /\ step \in {"put", "connect_row", "sync_write"} => token \in Account
          /\ Goto(r, [request[r] EXCEPT !.at = step, !.account = token])
        BY <1>4, <2>2 DEF ReadToken, IsAt, Steps, SyncSteps, ConnectSteps
    <2> HIDE DEF token, step
    <2>4. token \in Account \cup {None}
        BY <2>2 DEF token
    <2>5. request' \in [Request -> RequestType] /\ Held'
        BY <2>3, <2>4, Moving
    <2>6. QED
        BY <1>4, <2>5, RequestTypes DEF ReadToken, oauth
<1>5. CASE SyncThrows(r)
    <2>1. request' \in [Request -> RequestType] /\ Held'
        BY <1>5, MovingOn DEF SyncThrows, Steps, SyncSteps, ConnectSteps
    <2>2. QED
        BY <1>5, <2>1, RequestTypes DEF SyncThrows, oauth
<1>6. QED
    BY <1>1, <1>2, <1>3, <1>4, <1>5

\* The actions that write the row or the credential.
LEMMA PutCredentialTypes ==
    ASSUME TypeInv, NEW r \in Request, PutCredential(r)
    PROVE  TypeInv'
<1> DEFINE c == request[r].conn
<1>1. c \in Connection /\ request[r].account \in Account /\ request[r].nonce \in Nonce
    BY DEF PutCredential, IsAt, TypeInv, Held, ConnectSteps
<1>2. request' \in [Request -> RequestType] /\ Held'
    BY MovingOn DEF PutCredential, IsAt, Steps, ConnectSteps, TypeInv, Held
<1>3. /\ credential' \in [Connection -> Account \cup {None}]
      /\ uses' \in [Nonce -> Nat]
    BY <1>1, TypesInPlace DEF PutCredential, TypeInv
<1>4. torn' \subseteq Connection
    BY <1>1, TypesInPlace DEF PutCredential, BeginUpdate, TypeInv
<1>5. UNCHANGED <<asked, pending, expired, row, pulled>>
    BY DEF PutCredential, oauth
<1>6. QED
    BY <1>2, <1>3, <1>4, <1>5 DEF TypeInv, TypeOK, RequestType

LEMMA SealTypes ==
    ASSUME TypeInv, NEW r \in Request, NEW c \in Connection, Seal(r, c)
    PROVE  TypeInv'
<1>1. request' \in [Request -> RequestType] /\ Held'
    BY Starting DEF Seal, Steps, ConnectSteps
<1>2. credential' \in [Connection -> Account \cup {None}] /\ torn' \subseteq Connection
    BY TypesInPlace DEF Seal, Sealed, BeginUpdate, TypeInv
<1>3. UNCHANGED <<asked, pending, expired, row, pulled, uses>>
    BY DEF Seal, oauth
<1>4. QED
    BY <1>1, <1>2, <1>3 DEF TypeInv, TypeOK, RequestType

RowType == [status : {"absent", "CONNECTED", "DISCONNECTED"}, account : Account \cup {None},
            synced : BOOLEAN]

\* Every write of the row.
LEMMA RowTypes ==
    ASSUME TypeInv, NEW r \in Request, Finish(r), UNCHANGED <<oauth, credential, history>>,
           pulled' \subseteq Connection,
           row' \in [Connection -> RowType],
           \A c \in Connection : row'[c].status = "absent" <=> row'[c].account = None
    PROVE  TypeInv'
<1>1. request' \in [Request -> RequestType] /\ Held'
    BY Finishing
<1>2. QED
    BY <1>1 DEF TypeInv, TypeOK, RequestType, RowType, oauth, history

LEMMA RowActionTypes ==
    ASSUME TypeInv, NEW r \in Request,
           ConnectRow(r) \/ DisconnectRow(r) \/ RestoreConnected(r)
    PROVE  TypeInv'
<1> DEFINE c == request[r].conn
<1>1. row \in [Connection -> RowType] /\ pulled \subseteq Connection
    BY DEF TypeInv, TypeOK, RowType
<1>2. CASE ConnectRow(r)
    <2>1. c \in Connection /\ request[r].account \in Account /\ request[r].account # None
        BY <1>2, NoneAssumption DEF ConnectRow, IsAt, TypeInv, Held
    <2>2. row' \in [Connection -> RowType]
        BY <1>1, <1>2, <2>1 DEF ConnectRow, RowType
    <2>3. \A d \in Connection : row'[d].status = "absent" <=> row'[d].account = None
        BY <1>1, <1>2, <2>1, TypesInPlace DEF ConnectRow, RowType, TypeInv
    <2>4. QED
        BY <1>1, <1>2, <2>2, <2>3, RowTypes DEF ConnectRow
<1>3. CASE DisconnectRow(r)
    <2>1. c \in Connection
        BY <1>3 DEF DisconnectRow, IsAt, TypeInv, Held
    <2>2. row' \in [Connection -> RowType]
        BY <1>1, <1>3, <2>1 DEF DisconnectRow, Disconnected, Update, RowType
    <2>3. \A d \in Connection : row'[d].status = "absent" <=> row'[d].account = None
        BY <1>1, <1>3, <2>1, TypesInPlace DEF DisconnectRow, Disconnected, Update, RowType, TypeInv
    <2>4. QED
        BY <1>1, <1>3, <2>2, <2>3, RowTypes DEF DisconnectRow
<1>4. CASE RestoreConnected(r)
    <2>1. c \in Connection
        BY <1>4 DEF RestoreConnected, IsAt, TypeInv, Held
    <2>2. row' \in [Connection -> RowType]
        BY <1>1, <1>4, <2>1 DEF RestoreConnected, Restored, Update, RowType
    <2>3. \A d \in Connection : row'[d].status = "absent" <=> row'[d].account = None
        BY <1>1, <1>4, <2>1, TypesInPlace DEF RestoreConnected, Restored, Update, RowType, TypeInv
    <2>4. QED
        BY <1>1, <1>4, <2>2, <2>3, RowTypes DEF RestoreConnected
<1>5. QED
    BY <1>2, <1>3, <1>4

LEMMA WriteFactsTypes ==
    ASSUME TypeInv, NEW r \in Request, WriteFacts(r)
    PROVE  TypeInv'
<1>1. row \in [Connection -> RowType] /\ pulled \subseteq Connection
    BY DEF TypeInv, TypeOK, RowType
<1>2. request[r].conn \in Connection
    BY DEF WriteFacts, IsAt, TypeInv, Held
<1>3. pulled' \subseteq Connection
    BY <1>1, <1>2 DEF WriteFacts
<1>4. row' \in [Connection -> RowType]
    BY <1>1 DEF WriteFacts, RowType
<1>5. \A d \in Connection : row'[d].status = "absent" <=> row'[d].account = None
    <2>1. \A d \in Connection : row'[d].account = row[d].account
                               /\ (row'[d].status = "absent" <=> row[d].status = "absent")
        BY <1>1 DEF WriteFacts, RowType
    <2>2. QED
        BY <2>1, TypesInPlace DEF TypeInv
<1>6. QED
    BY <1>3, <1>4, <1>5, RowTypes DEF WriteFacts

LEMMA DieTypes ==
    ASSUME TypeInv, NEW r \in Request, Die(r)
    PROVE  TypeInv'
<1>1. request' \in [Request -> RequestType] /\ Held'
    BY Finishing DEF Die
<1>2. torn' \subseteq Connection
    BY TypesInPlace DEF Die, TypeInv
<1>3. UNCHANGED <<asked, pending, expired, row, credential, pulled, uses>>
    BY DEF Die, oauth
<1>4. QED
    BY <1>1, <1>2, <1>3 DEF TypeInv, TypeOK, RequestType

LEMMA NextTypes ==
    ASSUME TypeInv, [Next]_vars
    PROVE  TypeInv'
<1>1. CASE UNCHANGED vars
    BY <1>1 DEF vars, TypeInv, TypeOK, Held
<1>2. CASE \E n \in Nonce : Expire(n) \/ \E c \in Connection : InitiateConnect(n, c)
    BY <1>2, StatesTypes
<1>3. ASSUME NEW r \in Request, Connect(r) \/ Disconnect(r) \/ Sync(r) \/ Die(r)
      PROVE  TypeInv'
    BY <1>3, BeginCallbackTypes, RequestOnlyTypes, PutCredentialTypes, SealTypes,
       RowActionTypes, WriteFactsTypes, DieTypes DEF Connect, Disconnect, Sync
<1>4. QED
    BY <1>1, <1>2, <1>3 DEF Next

\* Every reachable state is well typed, and a request holds what its step needs.
THEOREM TypeCorrect == Spec => []TypeOK
<1>1. Init => TypeInv
    BY InitTypes
<1>2. TypeInv /\ [Next]_vars => TypeInv'
    BY NextTypes
<1>3. TypeInv => TypeOK
    BY DEF TypeInv
<1>4. QED
    BY <1>1, <1>2, <1>3, PTL DEF Spec

-----------------------------------------------------------------------------
(* OAuth states. *)

\* The requests that hold an accepted state and have not stored a credential.
Connecting(r) == request[r].at \in {"exchange", "put"}

\* A state is in the table, in the hand of one request, or spent.
StateInv ==
    /\ \A n \in Nonce :
         /\ uses[n] <= 1
         /\ uses[n] = 1 => n \notin expired /\ n \notin pending /\ asked[n] # None
    /\ \A r \in Request : Connecting(r) =>
         LET n == request[r].nonce IN
         /\ n \notin pending /\ n \notin expired
         /\ uses[n] = 0 /\ asked[n] = request[r].conn
    /\ \A r, s \in Request : Connecting(r) /\ Connecting(s) /\ request[r].nonce = request[s].nonce
         => r = s

\* Credentials come from states of their connection.
OriginInv ==
    \A c \in Connection : credential[c] # None => \E n \in Nonce : asked[n] = c /\ uses[n] > 0

LEMMA InitStates == Init => StateInv /\ OriginInv
BY DEF Init, StateInv, OriginInv, Connecting, Idle, At

\* A step that leaves the state tables alone, and of whose request the others
\* know nothing, keeps StateInv if the request connects no more than before.
LEMMA StatesKept ==
    ASSUME TypeInv, StateInv, NEW r \in Request, UNCHANGED <<oauth, uses>>,
           \A s \in Request : s # r => request'[s] = request[s],
           Connecting(r)' => /\ Connecting(r)
                             /\ request'[r].nonce = request[r].nonce
                             /\ request'[r].conn = request[r].conn
    PROVE  StateInv'
BY DEF StateInv, Connecting, oauth

LEMMA StatesStates ==
    ASSUME TypeInv, StateInv, OriginInv, NEW n \in Nonce,
           Expire(n) \/ \E c \in Connection : InitiateConnect(n, c)
    PROVE  StateInv' /\ OriginInv'
<1>1. CASE Expire(n)
    <2>1. n \in pending /\ uses[n] \in Nat
        BY <1>1, TypesInPlace DEF Expire, TypeInv
    <2>2. StateInv'
        BY <1>1, <2>1 DEF Expire, StateInv, Connecting, history
    <2>3. OriginInv'
        BY <1>1 DEF Expire, OriginInv, history
    <2>4. QED
        BY <2>2, <2>3
<1>2. ASSUME NEW c \in Connection, InitiateConnect(n, c)
      PROVE  StateInv' /\ OriginInv'
    <2>1. c # None /\ asked[n] = None
        BY <1>2, NoneAssumption DEF Connection, InitiateConnect
    <2>2. /\ asked' = [asked EXCEPT ![n] = c] /\ asked \in [Nonce -> Connection \cup {None}]
          /\ \A x \in Nonce : x # n => asked'[x] = asked[x]
          /\ pending' \subseteq pending \cup {n}
          /\ UNCHANGED <<expired, credential, pulled, request, uses>>
        BY <1>2, TypesInPlace DEF InitiateConnect, TypeInv, history
    <2>3. uses[n] # 1
        BY <2>1 DEF StateInv
    <2>4. \A r \in Request : Connecting(r) => request[r].nonce # n /\ request[r].nonce \in Nonce
        BY <2>1, NoneAssumption DEF StateInv, Connecting, TypeInv, Held, Connection, ConnectSteps
    <2>5. StateInv'
        BY <2>2, <2>3, <2>4 DEF StateInv, Connecting
    <2>6. uses[n] = 0
        <3>1. uses[n] \in Nat
            BY TypesInPlace DEF TypeInv
        <3>2. uses[n] <= 1
            BY DEF StateInv
        <3>3. QED
            BY <2>3, <3>1, <3>2
    <2>7. \A d \in Connection : (\E x \in Nonce : asked[x] = d /\ uses[x] > 0)
              => (\E x \in Nonce : asked'[x] = d /\ uses'[x] > 0)
        BY <2>2, <2>6
    <2>8. OriginInv'
        BY <2>2, <2>7 DEF OriginInv
    <2>9. QED
        BY <2>5, <2>8
<1>3. QED
    BY <1>1, <1>2

LEMMA BeginCallbackStates ==
    ASSUME TypeInv, StateInv, OriginInv, NEW r \in Request, NEW n \in Nonce, NEW v \in Vendor,
           BeginCallback(r, n, v)
    PROVE  StateInv' /\ OriginInv'
<1>1. UNCHANGED <<asked, expired, credential, pulled, uses>> /\ pending' = pending \ {n}
    BY DEF BeginCallback, Consumed, history
<1>2. asked[n] \in Connection
    BY TypesInPlace DEF BeginCallback, TypeInv
<1>3. CASE Accepted(n, v)
    <2>1. <<asked[n][1], v>> = asked[n]
        BY <1>2, <1>3 DEF Accepted, Connection
    <2>2. Goto(r, At("exchange", asked[n], n, None))
        BY <1>3, <2>1 DEF BeginCallback
    <2>3. /\ \A s \in Request : s # r => request'[s] = request[s]
          /\ request'[r].at = "exchange" /\ request'[r].conn = asked[n] /\ request'[r].nonce = n
        <3>1. /\ "exchange" \in Steps /\ "exchange" \notin {"put", "connect_row", "sync_write"}
              /\ n \in Nonce \cup {None}
            BY DEF Steps, ConnectSteps
        <3>2. QED
            BY <1>2, <2>2, <3>1, Starting
    <2>4. n \in pending /\ n \notin expired
        BY <1>3 DEF Accepted
    <2>5. uses[n] = 0
        <3>1. uses[n] \in Nat /\ uses[n] <= 1 /\ uses[n] # 1
            BY <2>4, TypesInPlace DEF TypeInv, StateInv
        <3>2. QED
            BY <3>1
    <2>6. \A s \in Request : Connecting(s) => request[s].nonce # n
        BY <2>4 DEF StateInv
    <2>7. StateInv'
        BY <1>1, <2>3, <2>4, <2>5, <2>6 DEF StateInv, Connecting
    <2>8. OriginInv'
        BY <1>1, <2>3 DEF OriginInv
    <2>9. QED
        BY <2>7, <2>8
<1>4. CASE ~ Accepted(n, v)
    <2>1. /\ \A s \in Request : request'[s] = IF s = r THEN Idle ELSE request[s]
          /\ Idle.at = "idle"
        BY <1>4, Finishing, IdleIsRequest DEF BeginCallback
    <2>2. StateInv'
        BY <1>1, <2>1 DEF StateInv, Connecting
    <2>3. OriginInv'
        BY <1>1, <2>1 DEF OriginInv
    <2>4. QED
        BY <2>2, <2>3
<1>5. QED
    BY <1>3, <1>4

\* Steps that change no credential and no state's owner or uses.
LEMMA OriginsKept ==
    ASSUME OriginInv, UNCHANGED <<asked, uses, credential>>
    PROVE  OriginInv'
BY DEF OriginInv

LEMMA RequestOnlyStates ==
    ASSUME TypeInv, StateInv, OriginInv, NEW r \in Request,
           \/ CallbackFails(r) \/ (\E a \in Account : Exchange(r, a))
           \/ (\E c \in Connection : BeginSync(r, c)) \/ ReadToken(r) \/ SyncThrows(r)
    PROVE  StateInv' /\ OriginInv'
<1>0. UNCHANGED <<oauth, credential, pulled, uses, asked>>
    BY DEF CallbackFails, Exchange, BeginSync, ReadToken, SyncThrows, history, oauth
<1>1. CASE CallbackFails(r)
    <2>1. /\ \A s \in Request : request'[s] = IF s = r THEN Idle ELSE request[s]
          /\ Idle.at = "idle"
        BY <1>1, Finishing, IdleIsRequest DEF CallbackFails
    <2>2. QED
        BY <1>0, <2>1, StatesKept, OriginsKept DEF Connecting
<1>2. ASSUME NEW a \in Account, Exchange(r, a)
      PROVE  StateInv' /\ OriginInv'
    <2>1. /\ \A s \in Request : s # r => request'[s] = request[s]
          /\ request'[r].at = "put" /\ request[r].at = "exchange"
          /\ request'[r].conn = request[r].conn /\ request'[r].nonce = request[r].nonce
        BY <1>2, Moving DEF Exchange, IsAt, Steps, ConnectSteps
    <2>2. QED
        BY <1>0, <2>1, StatesKept, OriginsKept DEF Connecting
<1>3. ASSUME NEW c \in Connection, BeginSync(r, c)
      PROVE  StateInv' /\ OriginInv'
    <2>1. /\ \A s \in Request : s # r => request'[s] = request[s]
          /\ request'[r].at = "sync_token"
        BY <1>3, Starting DEF BeginSync, Steps, SyncSteps, ConnectSteps
    <2>2. QED
        BY <1>0, <2>1, StatesKept, OriginsKept DEF Connecting
<1>4. CASE ReadToken(r)
    <2> DEFINE token == credential[request[r].conn]
               step == IF token = None THEN "sync_restore" ELSE "sync_write"
    <2>1. request[r].conn \in Connection /\ request[r].at = "sync_token"
        BY <1>4 DEF TypeInv, Held, ReadToken, IsAt
    <2>2. token \in Account \cup {None}
        BY <2>1, TypesInPlace DEF TypeInv
    <2>3. /\ step \in Steps /\ step \notin ConnectSteps
          /\ step \in {"put", "connect_row", "sync_write"} => token \in Account
          /\ Goto(r, [request[r] EXCEPT !.at = step, !.account = token])
        BY <1>4, <2>2 DEF ReadToken, Steps, SyncSteps, ConnectSteps
    <2> HIDE DEF token, step
    <2>5. /\ \A s \in Request : s # r => request'[s] = request[s]
          /\ request'[r].at = step /\ request'[r].account = token
          /\ request'[r].conn = request[r].conn
        <3>1. step \in ConnectSteps => request[r].at \in ConnectSteps
            BY <2>3
        <3>2. Goto(r, Moved(r, step, token))
            BY <2>3 DEF Moved
        <3>3. QED
            BY <2>1, <2>2, <2>3, <3>1, <3>2, MovedTo
    <2>6. ~ Connecting(r)'
        BY <2>3, <2>5 DEF Connecting, ConnectSteps
    <2>7. StateInv'
        BY <1>0, <2>5, <2>6, StatesKept
    <2>8. OriginInv'
        BY <1>0, OriginsKept
    <2>9. QED
        BY <2>7, <2>8
<1>5. CASE SyncThrows(r)
    <2>1. /\ \A s \in Request : s # r => request'[s] = request[s]
          /\ request'[r].at = "sync_restore"
        BY <1>5, MovingOn DEF SyncThrows, Steps, SyncSteps, ConnectSteps
    <2>2. QED
        BY <1>0, <2>1, StatesKept, OriginsKept DEF Connecting
<1>6. QED
    BY <1>1, <1>2, <1>3, <1>4, <1>5

LEMMA PutCredentialStates ==
    ASSUME TypeInv, StateInv, OriginInv, NEW r \in Request, PutCredential(r)
    PROVE  StateInv' /\ OriginInv'
<1> DEFINE c == request[r].conn
           n == request[r].nonce
<1>1. c \in Connection /\ request[r].account \in Account /\ n \in Nonce /\ Connecting(r)
    BY DEF PutCredential, IsAt, TypeInv, Held, ConnectSteps, Connecting
<1>2. /\ \A s \in Request : s # r => request'[s] = request[s]
      /\ request'[r].at = "connect_row"
    BY MovingOn DEF PutCredential, IsAt, Steps, ConnectSteps, TypeInv, Held
<1>3. /\ n \notin pending /\ n \notin expired /\ uses[n] = 0 /\ asked[n] = c
      /\ \A s \in Request : s # r /\ Connecting(s) => request[s].nonce # n
    BY <1>1 DEF StateInv
<1>4. /\ uses'[n] = 1 /\ \A x \in Nonce : x # n => uses'[x] = uses[x]
      /\ credential'[c] = request[r].account
      /\ \A d \in Connection : d # c => credential'[d] = credential[d]
    BY <1>1, <1>3, TypesInPlace DEF PutCredential, TypeInv
<1>5. UNCHANGED <<asked, pending, expired, pulled>>
    BY DEF PutCredential, oauth
<1>6. asked[n] # None
    BY <1>1, <1>3, NoneAssumption DEF Connection
<1> HIDE DEF c, n
<1>7. StateInv'
    <2>1. ~ Connecting(r)'
        BY <1>2 DEF Connecting
    <2>2. \A x \in Nonce :
             /\ uses'[x] <= 1
             /\ uses'[x] = 1 => x \notin expired' /\ x \notin pending' /\ asked'[x] # None
        BY <1>3, <1>4, <1>5, <1>6 DEF StateInv
    <2>3. \A s \in Request : request'[s].at \in {"exchange", "put"} =>
             /\ s # r /\ Connecting(s) /\ request'[s] = request[s]
             /\ request[s].nonce \in Nonce /\ request[s].nonce # n
        BY <1>2, <1>3, <2>1 DEF Connecting, TypeInv, Held, ConnectSteps
    <2>4. \A s \in Request : request'[s].at \in {"exchange", "put"} =>
             /\ request'[s].nonce \notin pending' /\ request'[s].nonce \notin expired'
             /\ uses'[request'[s].nonce] = 0 /\ asked'[request'[s].nonce] = request'[s].conn
        BY <1>4, <1>5, <2>3 DEF StateInv
    <2>5. \A s, t \in Request :
             /\ request'[s].at \in {"exchange", "put"} /\ request'[t].at \in {"exchange", "put"}
             /\ request'[s].nonce = request'[t].nonce
             => s = t
        BY <2>3 DEF StateInv
    <2>6. QED
        BY <2>2, <2>4, <2>5 DEF StateInv, Connecting
<1>8. OriginInv'
    <2>1. \A d \in Connection : d # c /\ (\E x \in Nonce : asked[x] = d /\ uses[x] > 0)
             => \E x \in Nonce : asked[x] = d /\ uses'[x] > 0
        BY <1>3, <1>4
    <2>2. \E x \in Nonce : asked[x] = c /\ uses'[x] > 0
        BY <1>1, <1>3, <1>4 DEF n
    <2>3. QED
        BY <1>4, <1>5, <2>1, <2>2 DEF OriginInv
<1>9. QED
    BY <1>7, <1>8

LEMMA SealStates ==
    ASSUME TypeInv, StateInv, OriginInv, NEW r \in Request, NEW c \in Connection, Seal(r, c)
    PROVE  StateInv' /\ OriginInv'
<1>1. /\ \A s \in Request : s # r => request'[s] = request[s]
      /\ request'[r].at = "disconnect_row"
    BY Starting DEF Seal, Steps, ConnectSteps
<1>2. UNCHANGED <<oauth, pulled, uses, asked>>
    BY DEF Seal, oauth
<1>3. \A d \in Connection : credential'[d] = None \/ credential'[d] = credential[d]
    BY TypesInPlace DEF Seal, Sealed, TypeInv
<1>4. StateInv'
    BY <1>1, <1>2, StatesKept DEF Connecting
<1>5. OriginInv'
    BY <1>1, <1>2, <1>3 DEF OriginInv
<1>6. QED
    BY <1>4, <1>5

\* The last step of a request.
LEMMA FinishStates ==
    ASSUME TypeInv, StateInv, OriginInv, NEW r \in Request,
           ConnectRow(r) \/ DisconnectRow(r) \/ WriteFacts(r) \/ RestoreConnected(r) \/ Die(r)
    PROVE  StateInv' /\ OriginInv'
<1>1. /\ \A s \in Request : request'[s] = IF s = r THEN Idle ELSE request[s]
      /\ Idle.at = "idle"
    BY Finishing, IdleIsRequest DEF ConnectRow, DisconnectRow, WriteFacts, RestoreConnected, Die
<1>2. UNCHANGED <<oauth, asked, credential, uses>>
    BY DEF ConnectRow, DisconnectRow, WriteFacts, RestoreConnected, Die, history, oauth
<1>3. StateInv'
    BY <1>1, <1>2, StatesKept DEF Connecting
<1>4. QED
    BY <1>2, <1>3, OriginsKept

LEMMA NextStates ==
    ASSUME TypeInv, StateInv, OriginInv, [Next]_vars
    PROVE  StateInv' /\ OriginInv'
<1>1. CASE UNCHANGED vars
    BY <1>1 DEF vars, StateInv, OriginInv, Connecting
<1>2. CASE \E n \in Nonce : Expire(n) \/ \E c \in Connection : InitiateConnect(n, c)
    BY <1>2, StatesStates
<1>3. ASSUME NEW r \in Request, Connect(r) \/ Disconnect(r) \/ Sync(r) \/ Die(r)
      PROVE  StateInv' /\ OriginInv'
    BY <1>3, BeginCallbackStates, RequestOnlyStates, PutCredentialStates, SealStates,
       FinishStates DEF Connect, Disconnect, Sync
<1>4. QED
    BY <1>1, <1>2, <1>3 DEF Next

\* An OAuth state connects at most once, and never after its expiry, for any
\* number of racing, replayed or delayed callbacks.
THEOREM OneUse == Spec => []StateUsedOnce
<1>1. Init => TypeInv /\ StateInv /\ OriginInv
    BY InitTypes, InitStates
<1>2. TypeInv /\ StateInv /\ OriginInv /\ [Next]_vars => (TypeInv /\ StateInv /\ OriginInv)'
    BY NextTypes, NextStates
<1>3. StateInv => StateUsedOnce
    BY DEF StateInv, StateUsedOnce
<1>4. QED
    BY <1>1, <1>2, <1>3, PTL DEF Spec

LEMMA Origins == Spec => []OriginInv
<1>1. Init => TypeInv /\ StateInv /\ OriginInv
    BY InitTypes, InitStates
<1>2. TypeInv /\ StateInv /\ OriginInv /\ [Next]_vars => (TypeInv /\ StateInv /\ OriginInv)'
    BY NextTypes, NextStates
<1>3. QED
    BY <1>1, <1>2, PTL DEF Spec

\* A credential is kept only where its workspace asked for it, at that vendor
\* (ConnectedWhereAsked), however callbacks are replayed, raced or delayed.
THEOREM OwnCredential == Spec => []ConnectedWhereAsked
<1>1. OriginInv => ConnectedWhereAsked
    BY DEF OriginInv, ConnectedWhereAsked
<1>2. QED
    BY Origins, <1>1, PTL

\* A step changes a connection's row only if it is a step of a request about that
\* connection (OwnRowsOnly), for any number of workspaces whose syncs overlap.
THEOREM OwnRows == Spec => OwnRowsOnly
<1>1. ASSUME TypeInv, [Next]_vars, NEW c \in Connection, row'[c] # row[c]
      PROVE  \E r \in Request : request[r].conn = c /\ request'[r] # request[r]
    <2>1. PICK r \in Request : ConnectRow(r) \/ DisconnectRow(r) \/ WriteFacts(r) \/ RestoreConnected(r)
        BY <1>1 DEF Next, Connect, Disconnect, Sync, Expire, InitiateConnect, BeginCallback, CallbackFails,
               Exchange, PutCredential, Seal, BeginSync, ReadToken, SyncThrows, Die, vars
    <2>2. request'[r] = Idle /\ Idle.at = "idle" /\ request[r].at # "idle"
        BY <1>1, <2>1, Finishing, IdleIsRequest DEF ConnectRow, DisconnectRow, WriteFacts, RestoreConnected, IsAt
    <2>3. DOMAIN row = Connection
        BY <1>1 DEF TypeInv, TypeOK
    <2>4. CASE ConnectRow(r)
        BY <1>1, <2>2, <2>3, <2>4 DEF ConnectRow
    <2>5. CASE DisconnectRow(r)
        BY <1>1, <2>2, <2>5 DEF DisconnectRow, Disconnected, Update
    <2>6. CASE WriteFacts(r)
        BY <1>1, <2>2, <2>6 DEF WriteFacts, Visible
    <2>7. CASE RestoreConnected(r)
        BY <1>1, <2>2, <2>7 DEF RestoreConnected, Restored, Update, Visible
    <2>8. QED
        BY <2>1, <2>4, <2>5, <2>6, <2>7
<1>2. TypeInv /\ [Next]_vars =>
        [\A c \in Connection : row'[c] # row[c]
            => \E r \in Request : request[r].conn = c /\ request'[r] # request[r]]_vars
    BY <1>1
<1>3. QED
    BY <1>2, InitTypes, NextTypes, PTL DEF Spec, OwnRowsOnly

-----------------------------------------------------------------------------
(* Credential and row. *)

UpdateSteps == {"connect_row", "disconnect_row"}

\* While a connection is not torn at most one update of it is under way, the
\* credential is what that update made it, and with no update the row agrees.
AgreeInv ==
    \A c \in Connection : c \notin torn =>
        /\ \A r, s \in Updating(c) : r = s
        /\ \A r \in Updating(c) :
             credential[c] = IF request[r].at = "connect_row" THEN request[r].account ELSE None
        /\ Updating(c) = {} /\ credential[c] # None
             => row[c].status = "CONNECTED" /\ row[c].account = credential[c]

LEMMA InitAgrees == Init => AgreeInv
BY DEF Init, AgreeInv, Updating, Idle, At

\* A request outside the update steps changes of the row only what a sync does.
LEMMA Bystander ==
    ASSUME TypeInv, AgreeInv, NEW r \in Request, UNCHANGED <<credential, torn>>,
           \A s \in Request : s # r => request'[s] = request[s],
           request[r].at \notin UpdateSteps, request'[r].at \notin UpdateSteps,
           \A c \in Connection :
             /\ row'[c].account = row[c].account
             /\ row[c].status = "CONNECTED" => row'[c].status = "CONNECTED"
    PROVE  AgreeInv'
<1>1. \A c \in Connection : Updating(c)' = Updating(c)
    BY DEF Updating, UpdateSteps
<1>2. \A c \in Connection : \A s \in Updating(c) : request'[s] = request[s]
    BY DEF Updating, UpdateSteps
<1>3. ASSUME NEW c \in Connection, c \notin torn
      PROVE  /\ \A s, t \in Updating(c) : s = t
             /\ \A s \in Updating(c) :
                  credential'[c] = IF request'[s].at = "connect_row" THEN request'[s].account ELSE None
             /\ Updating(c) = {} /\ credential'[c] # None
                  => row'[c].status = "CONNECTED" /\ row'[c].account = credential'[c]
    <2>1. credential'[c] = credential[c]
        OBVIOUS
    <2>2. \A s, t \in Updating(c) : s = t
        BY <1>3 DEF AgreeInv
    <2>3. \A s \in Updating(c) :
             credential'[c] = IF request'[s].at = "connect_row" THEN request'[s].account ELSE None
        <3>1. \A s \in Updating(c) :
                 credential[c] = IF request[s].at = "connect_row" THEN request[s].account ELSE None
            BY <1>3 DEF AgreeInv
        <3>2. QED
            BY <1>2, <2>1, <3>1
    <2>4. Updating(c) = {} /\ credential[c] # None
             => row[c].status = "CONNECTED" /\ row[c].account = credential[c]
        BY <1>3 DEF AgreeInv
    <2>5. row'[c].account = row[c].account /\ (row[c].status = "CONNECTED" => row'[c].status = "CONNECTED")
        OBVIOUS
    <2>6. Updating(c) = {} /\ credential'[c] # None
             => row'[c].status = "CONNECTED" /\ row'[c].account = credential'[c]
        BY <2>1, <2>4, <2>5
    <2> HIDE DEF Updating
    <2>7. QED
        BY <2>2, <2>3, <2>6, Zenon
<1>4. torn' = torn
    OBVIOUS
<1> HIDE DEF Updating
<1>5. QED
    BY <1>1, <1>3, <1>4 DEF AgreeInv

LEMMA StatesAgree ==
    ASSUME TypeInv, AgreeInv, NEW n \in Nonce,
           Expire(n) \/ \E c \in Connection : InitiateConnect(n, c)
    PROVE  AgreeInv'
BY DEF Expire, InitiateConnect, history, AgreeInv, Updating

LEMMA BystandersAgree ==
    ASSUME TypeInv, AgreeInv, NEW r \in Request,
           \/ (\E n \in Nonce, v \in Vendor : BeginCallback(r, n, v))
           \/ CallbackFails(r) \/ (\E a \in Account : Exchange(r, a))
           \/ (\E c \in Connection : BeginSync(r, c)) \/ ReadToken(r) \/ SyncThrows(r)
           \/ WriteFacts(r) \/ RestoreConnected(r)
    PROVE  AgreeInv'
<1>1. UNCHANGED <<credential, torn>>
    BY DEF BeginCallback, CallbackFails, Exchange, BeginSync, ReadToken, SyncThrows, WriteFacts,
           RestoreConnected, history
<1>2. request \in [Request -> RequestType] /\ row \in [Connection -> RowType]
    BY DEF TypeInv, TypeOK, RequestType, RowType
<1>3. request[r].at \notin UpdateSteps
    BY DEF BeginCallback, CallbackFails, Exchange, BeginSync, ReadToken, SyncThrows, WriteFacts,
           RestoreConnected, IsAt, UpdateSteps
<1>4. \E new : Goto(r, new) /\ new.at \notin UpdateSteps
    <2>1. ASSUME NEW n \in Nonce, NEW v \in Vendor, BeginCallback(r, n, v)
          PROVE  \E new : Goto(r, new) /\ new.at \notin UpdateSteps
        <3>1. \A step, c, x, a : At(step, c, x, a).at = step
            BY DEF At
        <3>2. Idle.at = "idle"
            BY <3>1 DEF Idle
        <3>3. Goto(r, At("exchange", <<asked[n][1], v>>, n, None)) \/ Goto(r, Idle)
            BY <2>1 DEF BeginCallback, Finish
        <3> HIDE DEF Goto
        <3>4. QED
            BY <3>1, <3>2, <3>3 DEF UpdateSteps
    <2>2. CASE CallbackFails(r) \/ WriteFacts(r) \/ RestoreConnected(r)
        <3>1. Goto(r, Idle)
            BY <2>2 DEF CallbackFails, WriteFacts, RestoreConnected, Finish
        <3>2. Idle.at = "idle"
            BY DEF Idle, At
        <3> HIDE DEF Goto
        <3>3. QED
            BY <3>1, <3>2 DEF UpdateSteps
    <2>3. ASSUME NEW a \in Account, Exchange(r, a)
          PROVE  \E new : Goto(r, new) /\ new.at \notin UpdateSteps
        <3>1. [request[r] EXCEPT !.at = "put", !.account = a].at = "put"
            BY <1>2 DEF RequestType
        <3>2. QED
            BY <2>3, <3>1 DEF Exchange, UpdateSteps
    <2>4. ASSUME NEW c \in Connection, BeginSync(r, c)
          PROVE  \E new : Goto(r, new) /\ new.at \notin UpdateSteps
        BY <2>4 DEF BeginSync, At, UpdateSteps
    <2>5. CASE ReadToken(r)
        <3> DEFINE token == credential[request[r].conn]
                   step == IF token = None THEN "sync_restore" ELSE "sync_write"
        <3>1. step \notin UpdateSteps /\ Goto(r, [request[r] EXCEPT !.at = step, !.account = token])
            BY <2>5 DEF ReadToken, UpdateSteps
        <3> HIDE DEF step, token
        <3>2. [request[r] EXCEPT !.at = step, !.account = token].at = step
            BY <1>2 DEF RequestType
        <3>3. QED
            BY <3>1, <3>2
    <2>6. CASE SyncThrows(r)
        <3>1. [request[r] EXCEPT !.at = "sync_restore"].at = "sync_restore"
            BY <1>2 DEF RequestType
        <3>2. QED
            BY <2>6, <3>1 DEF SyncThrows, UpdateSteps
    <2>7. QED
        BY <2>1, <2>2, <2>3, <2>4, <2>5, <2>6
<1>5. /\ \A s \in Request : s # r => request'[s] = request[s]
      /\ request'[r].at \notin UpdateSteps
    BY <1>2, <1>4 DEF Goto
<1>6. \A c \in Connection :
             /\ row'[c].account = row[c].account
             /\ row[c].status = "CONNECTED" => row'[c].status = "CONNECTED"
    <2>1. CASE WriteFacts(r)
        BY <1>2, <2>1 DEF WriteFacts, RowType
    <2>2. CASE RestoreConnected(r)
        BY <1>2, <2>2 DEF RestoreConnected, Restored, Update, RowType
    <2>3. CASE UNCHANGED row
        BY <2>3
    <2>4. QED
        BY <2>1, <2>2, <2>3 DEF BeginCallback, CallbackFails, Exchange, BeginSync, ReadToken, SyncThrows
<1>7. QED
    BY <1>1, <1>3, <1>5, <1>6, Bystander

\* What the four update steps have in common: the update sets of all connections.
LEMMA UpdateBegins ==
    ASSUME TypeInv, NEW r \in Request, NEW c \in Connection,
           request[r].at \notin UpdateSteps,
           \A s \in Request : s # r => request'[s] = request[s],
           request'[r].at \in UpdateSteps, request'[r].conn = c
    PROVE  /\ Updating(c)' = Updating(c) \cup {r}
           /\ \A d \in Connection : d # c => Updating(d)' = Updating(d)
           /\ \A d \in Connection : \A s \in Updating(d) : request'[s] = request[s]
BY DEF Updating, UpdateSteps

LEMMA UpdateEnds ==
    ASSUME TypeInv, NEW r \in Request, Finish(r)
    PROVE  /\ \A d \in Connection : Updating(d)' = Updating(d) \ {r}
           /\ \A d \in Connection : \A s \in Updating(d) : s # r => request'[s] = request[s]
<1>1. /\ \A s \in Request : request'[s] = IF s = r THEN Idle ELSE request[s]
      /\ Idle.at = "idle"
    BY Finishing, IdleIsRequest
<1>2. QED
    BY <1>1 DEF Updating

\* The credential is written: the connection is no longer torn only if this update
\* is alone, and the credential is what it says.
LEMMA CredentialWritten ==
    ASSUME TypeInv, AgreeInv, NEW r \in Request, NEW c \in Connection,
           request[r].at \notin UpdateSteps,
           \A s \in Request : s # r => request'[s] = request[s],
           request'[r].at \in UpdateSteps, request'[r].conn = c,
           credential'[c] = IF request'[r].at = "connect_row" THEN request'[r].account ELSE None,
           \A d \in Connection : d # c => credential'[d] = credential[d],
           BeginUpdate(c), UNCHANGED row
    PROVE  AgreeInv'
<1>1. /\ Updating(c)' = Updating(c) \cup {r}
      /\ \A d \in Connection : d # c => Updating(d)' = Updating(d)
      /\ \A d \in Connection : \A s \in Updating(d) : request'[s] = request[s]
    BY UpdateBegins
<1>2. SUFFICES ASSUME NEW d \in Connection, d \notin torn'
               PROVE  /\ \A s, t \in Updating(d)' : s = t
                      /\ \A s \in Updating(d)' :
                           credential'[d] = IF request'[s].at = "connect_row" THEN request'[s].account ELSE None
                      /\ Updating(d)' = {} /\ credential'[d] # None
                           => row'[d].status = "CONNECTED" /\ row'[d].account = credential'[d]
    BY DEF AgreeInv
<1> HIDE DEF Updating
<1>3. CASE d = c
    <2>1. Updating(c) = {}
        BY <1>2, <1>3 DEF BeginUpdate
    <2>2. Updating(c)' = {r}
        BY <1>1, <2>1
    <2>3. QED
        BY <1>3, <2>2
<1>4. CASE d # c
    <2>1. d \notin torn /\ Updating(d)' = Updating(d) /\ credential'[d] = credential[d]
        BY <1>1, <1>2, <1>4 DEF BeginUpdate
    <2>2. /\ \A s, t \in Updating(d) : s = t
          /\ \A s \in Updating(d) :
               credential[d] = IF request[s].at = "connect_row" THEN request[s].account ELSE None
          /\ Updating(d) = {} /\ credential[d] # None
               => row[d].status = "CONNECTED" /\ row[d].account = credential[d]
        BY <2>1 DEF AgreeInv
    <2>3. \A s \in Updating(d) :
             credential'[d] = IF request'[s].at = "connect_row" THEN request'[s].account ELSE None
        BY <1>1, <2>1, <2>2
    <2>4. QED
        BY <2>1, <2>2, <2>3
<1>5. QED
    BY <1>3, <1>4

\* The row is written: the update that ends was the only one, or the connection is torn.
LEMMA RowWritten ==
    ASSUME TypeInv, AgreeInv, NEW r \in Request, NEW c \in Connection, r \in Updating(c),
           Finish(r), UNCHANGED <<credential, torn>>,
           \A d \in Connection : d # c => row'[d] = row[d],
           request[r].at = "connect_row" =>
               row'[c].status = "CONNECTED" /\ row'[c].account = request[r].account
    PROVE  AgreeInv'
<1>1. /\ \A d \in Connection : Updating(d)' = Updating(d) \ {r}
      /\ \A d \in Connection : \A s \in Updating(d) : s # r => request'[s] = request[s]
    BY UpdateEnds
<1>2. \A d \in Connection : d # c => r \notin Updating(d)
    BY DEF Updating
<1>3. SUFFICES ASSUME NEW d \in Connection, d \notin torn
               PROVE  /\ \A s, t \in Updating(d)' : s = t
                      /\ \A s \in Updating(d)' :
                           credential'[d] = IF request'[s].at = "connect_row" THEN request'[s].account ELSE None
                      /\ Updating(d)' = {} /\ credential'[d] # None
                           => row'[d].status = "CONNECTED" /\ row'[d].account = credential'[d]
    BY DEF AgreeInv
<1>4. /\ \A s, t \in Updating(d) : s = t
      /\ \A s \in Updating(d) :
           credential[d] = IF request[s].at = "connect_row" THEN request[s].account ELSE None
      /\ Updating(d) = {} /\ credential[d] # None
           => row[d].status = "CONNECTED" /\ row[d].account = credential[d]
    BY <1>3 DEF AgreeInv
<1>5. credential'[d] = credential[d]
    OBVIOUS
<1> HIDE DEF Updating
<1>6. CASE d = c
    <2>1. Updating(d)' = {}
        BY <1>1, <1>4, <1>6
    <2>2. credential[d] = IF request[r].at = "connect_row" THEN request[r].account ELSE None
        BY <1>4, <1>6
    <2>3. QED
        BY <1>5, <1>6, <2>1, <2>2
<1>7. CASE d # c
    <2>1. Updating(d)' = Updating(d) /\ row'[d] = row[d]
        BY <1>1, <1>2, <1>7
    <2>2. \A s \in Updating(d) : request'[s] = request[s]
        BY <1>1, <1>2, <1>7
    <2>3. \A s \in Updating(d) :
             credential'[d] = IF request'[s].at = "connect_row" THEN request'[s].account ELSE None
        BY <1>4, <1>5, <2>2
    <2>4. QED
        BY <1>4, <1>5, <2>1, <2>3
<1>8. QED
    BY <1>6, <1>7

LEMMA UpdatersAgree ==
    ASSUME TypeInv, AgreeInv, NEW r \in Request,
           PutCredential(r) \/ ConnectRow(r) \/ DisconnectRow(r)
           \/ \E c \in Connection : Seal(r, c)
    PROVE  AgreeInv'
<1>1. CASE PutCredential(r)
    <2> DEFINE c == request[r].conn
    <2>1. c \in Connection /\ request[r].at \notin UpdateSteps
        BY <1>1 DEF PutCredential, IsAt, TypeInv, Held, UpdateSteps
    <2>2. /\ \A s \in Request : s # r => request'[s] = request[s]
          /\ request'[r].at = "connect_row" /\ request'[r].account = request[r].account
          /\ request'[r].conn = c
        BY <1>1, MovingOn DEF PutCredential, IsAt, Steps, ConnectSteps, TypeInv, Held
    <2>3. credential' = [credential EXCEPT ![c] = request[r].account] /\ BeginUpdate(c) /\ UNCHANGED row
        BY <1>1 DEF PutCredential
    <2> HIDE DEF c
    <2>4. /\ credential'[c] = request'[r].account
          /\ \A d \in Connection : d # c => credential'[d] = credential[d]
        BY <2>1, <2>2, <2>3, TypesInPlace DEF TypeInv
    <2>5. QED
        BY <2>1, <2>2, <2>3, <2>4, CredentialWritten DEF UpdateSteps
<1>2. ASSUME NEW c \in Connection, Seal(r, c)
      PROVE  AgreeInv'
    <2>1. request[r].at \notin UpdateSteps
        BY <1>2 DEF Seal, IsAt, UpdateSteps
    <2>2. /\ \A s \in Request : s # r => request'[s] = request[s]
          /\ request'[r].at = "disconnect_row" /\ request'[r].conn = c
        BY <1>2, Starting DEF Seal, Steps, ConnectSteps
    <2>3. /\ credential'[c] = None /\ BeginUpdate(c) /\ UNCHANGED row
          /\ \A d \in Connection : d # c => credential'[d] = credential[d]
        BY <1>2, TypesInPlace DEF Seal, Sealed, TypeInv
    <2>4. QED
        BY <2>1, <2>2, <2>3, CredentialWritten DEF UpdateSteps
<1>3. CASE ConnectRow(r) \/ DisconnectRow(r)
    <2> DEFINE c == request[r].conn
    <2>1. c \in Connection /\ r \in Updating(c)
        BY <1>3 DEF ConnectRow, DisconnectRow, IsAt, TypeInv, Held, Updating
    <2>2. row \in [Connection -> RowType]
        BY DEF TypeInv, TypeOK, RowType
    <2>3. Finish(r) /\ UNCHANGED <<credential, torn>>
        BY <1>3 DEF ConnectRow, DisconnectRow, history
    <2>4. \A d \in Connection : d # c => row'[d] = row[d]
        BY <1>3, <2>1, <2>2 DEF ConnectRow, DisconnectRow, Disconnected, Update
    <2>5. request[r].at = "connect_row" =>
             row'[c].status = "CONNECTED" /\ row'[c].account = request[r].account
        BY <1>3, <2>1, <2>2 DEF ConnectRow, DisconnectRow, IsAt, RowType
    <2> HIDE DEF c
    <2>6. QED
        BY <2>1, <2>3, <2>4, <2>5, RowWritten
<1>4. QED
    BY <1>1, <1>2, <1>3

LEMMA DieAgrees ==
    ASSUME TypeInv, AgreeInv, NEW r \in Request, Die(r)
    PROVE  AgreeInv'
<1>1. /\ \A d \in Connection : Updating(d)' = Updating(d) \ {r}
      /\ \A d \in Connection : \A s \in Updating(d) : s # r => request'[s] = request[s]
    BY UpdateEnds DEF Die
<1>2. torn' = torn \cup {d \in Connection : r \in Updating(d)} /\ UNCHANGED <<row, credential>>
    BY DEF Die
<1>3. \A d \in Connection : d \notin torn' => d \notin torn /\ Updating(d)' = Updating(d)
                              /\ \A s \in Updating(d) : request'[s] = request[s]
    BY <1>1, <1>2
<1> HIDE DEF Updating
<1>4. QED
    BY <1>2, <1>3 DEF AgreeInv

\* Whatever requests interleave, a credential in custody belongs to a connection
\* shown as connected to that account, except where an update was torn.
THEOREM Agreement == Spec => []NoHiddenCredential
<1>1. Init => TypeInv /\ AgreeInv
    BY InitTypes, InitAgrees
<1>2. ASSUME TypeInv, AgreeInv, [Next]_vars
      PROVE  TypeInv' /\ AgreeInv'
    <2>1. CASE UNCHANGED vars
        BY <1>2, <2>1, NextTypes DEF vars, AgreeInv, Updating
    <2>2. CASE \E n \in Nonce : Expire(n) \/ \E c \in Connection : InitiateConnect(n, c)
        BY <1>2, <2>2, NextTypes, StatesAgree
    <2>3. ASSUME NEW r \in Request, Connect(r) \/ Disconnect(r) \/ Sync(r) \/ Die(r)
          PROVE  AgreeInv'
        BY <1>2, <2>3, BystandersAgree, UpdatersAgree, DieAgrees DEF Connect, Disconnect, Sync
    <2>4. QED
        BY <1>2, <2>1, <2>2, <2>3, NextTypes DEF Next
<1>3. AgreeInv => NoHiddenCredential
    BY DEF AgreeInv, NoHiddenCredential
<1>4. QED
    BY <1>1, <1>2, <1>3, PTL DEF Spec
-----------------------------------------------------------------------------
(* What "synced" says: last_sync_at is stamped in the transaction that stores *)
(* what was pulled, and nothing takes that back.                              *)

LEMMA RowKeepsSynced ==
    ASSUME TypeInv, NEW r \in Request, ConnectRow(r) \/ DisconnectRow(r) \/ RestoreConnected(r)
    PROVE  UNCHANGED pulled /\ \A c \in Connection : row'[c].synced = row[c].synced
<1>1. DOMAIN row = Connection /\ \A c \in Connection : row[c] \in
                        [status : {"absent", "CONNECTED", "DISCONNECTED"},
                         account : Account \cup {None}, synced : BOOLEAN]
    BY DEF TypeInv, TypeOK
<1>2. CASE ConnectRow(r)
    BY <1>1, <1>2 DEF ConnectRow
<1>3. CASE DisconnectRow(r)
    BY <1>1, <1>3 DEF DisconnectRow, Disconnected, Update
<1>4. CASE RestoreConnected(r)
    BY <1>1, <1>4 DEF RestoreConnected, Restored, Update
<1>5. QED
    BY <1>2, <1>3, <1>4

LEMMA FactsStampSynced ==
    ASSUME TypeInv, SyncedMeansPulled, NEW r \in Request, WriteFacts(r)
    PROVE  SyncedMeansPulled'
BY DEF WriteFacts, Visible, SyncedMeansPulled

\* A connection reads "synced" only if a sync has stored what it pulled, however syncs,
\* callbacks and disconnects overlap, fail and die.
THEOREM Synced == Spec => []SyncedMeansPulled
<1>1. Init => SyncedMeansPulled
    BY DEF Init, SyncedMeansPulled, NoRow
<1>2. TypeInv /\ SyncedMeansPulled /\ [Next]_vars => SyncedMeansPulled'
    <2>1. SUFFICES ASSUME TypeInv, SyncedMeansPulled, [Next]_vars PROVE SyncedMeansPulled'
        OBVIOUS
    <2>2. CASE UNCHANGED <<row, pulled>>
        BY <2>1, <2>2 DEF SyncedMeansPulled
    <2>3. CASE \E r \in Request : ConnectRow(r) \/ DisconnectRow(r) \/ RestoreConnected(r)
        BY <2>1, <2>3, RowKeepsSynced DEF SyncedMeansPulled
    <2>4. CASE \E r \in Request : WriteFacts(r)
        BY <2>1, <2>4, FactsStampSynced
    <2>5. QED
        BY <2>1, <2>2, <2>3, <2>4
           DEF Next, Connect, Disconnect, Sync, Expire, InitiateConnect, BeginCallback, CallbackFails,
               Exchange, PutCredential, Seal, BeginSync, ReadToken, SyncThrows, Die, vars
<1>3. Init => TypeInv
    BY InitTypes
<1>4. TypeInv /\ [Next]_vars => TypeInv'
    BY NextTypes
<1>5. QED
    BY <1>1, <1>2, <1>3, <1>4, PTL DEF Spec
=============================================================================
