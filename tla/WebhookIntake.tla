----------------------------- MODULE WebhookIntake ----------------------------
(***************************************************************************)
(* Webhooks of one shop: the gateway's route (route.webhook.ts) forwards a *)
(* delivery to the servicer of the ingestion-service (webhook_servicer.py),*)
(* whose intake (webhook_intake.py) upserts a row keyed by the vendor's    *)
(* event id and produces it to Kafka in one database transaction.  Calls   *)
(* run concurrently; the row lock of the upsert is held until the commit.  *)
(*                                                                         *)
(* The vendor sends a delivery again until it is answered with a 2xx, may  *)
(* repeat an answered one, and may send a new body under an old event id.  *)
(* Deliveries are genuine: the signature check lets them through.          *)
(***************************************************************************)
EXTENDS Naturals, FiniteSets

CONSTANTS
    Call,       \* calls in flight at most
    Event,      \* vendor event ids
    Listed,     \* those whose topic is on the allowlist
    Bodies,     \* how many bodies an event gets
    Capacity,   \* of the token bucket
    None,
    MaxFaults,  \* bound: failures of any kind
    MaxRepeats  \* bound: deliveries nobody asked for

ASSUME WebhookAssumption ==
    /\ Listed \subseteq Event /\ None \notin Call
    /\ Bodies \in Nat /\ Capacity \in Nat \ {0} /\ MaxFaults \in Nat /\ MaxRepeats \in Nat

Body == 1 .. Bodies
Delivery == Event \X Body

VARIABLES
    emitted,    \* bodies the vendor has for each event, so far
    answered,   \* deliveries answered with a 2xx
    tokens,     \* in the vendor's bucket
    mapped,     \* is the shop in connector_identity_map?
    call,       \* what each call is doing
    lock,       \* the call whose open transaction holds the row of the event
    row,        \* the body in the committed row; 0: no row
    topic,      \* the body in the last message of the event; 0: no message
    stored,     \* history: deliveries a transaction has committed
    parked,     \* history: deliveries answered PARKED
    torn,       \* history: events whose produce or commit went wrong
    faults, repeats

vendor == <<emitted, answered, repeats>>
data   == <<lock, row, topic, stored, torn>>
vars == <<emitted, answered, tokens, mapped, call, lock, row, topic, stored, parked, torn, faults,
          repeats>>

Idle == [at |-> "idle", event |-> None, body |-> 0, waited |-> FALSE]
InFlight == [at : {"verify", "upsert", "produce", "commit"}, event : Event, body : Body,
             waited : BOOLEAN]

TypeOK ==
    /\ emitted \in [Event -> 0 .. Bodies]
    /\ answered \subseteq Delivery /\ stored \subseteq Delivery /\ parked \subseteq Delivery
    /\ tokens \in 0 .. Capacity /\ mapped \in BOOLEAN
    /\ call \in [Call -> InFlight \cup {Idle}]
    /\ lock \in [Event -> Call \cup {None}]
    /\ row \in [Event -> 0 .. Bodies] /\ topic \in [Event -> 0 .. Bodies]
    /\ torn \subseteq Event
    /\ faults \in 0 .. MaxFaults /\ repeats \in 0 .. MaxRepeats

Init ==
    /\ emitted = [e \in Event |-> 0]
    /\ answered = {} /\ stored = {} /\ parked = {} /\ torn = {}
    /\ tokens = Capacity /\ mapped \in BOOLEAN
    /\ call = [c \in Call |-> Idle]
    /\ lock = [e \in Event |-> None]
    /\ row = [e \in Event |-> 0] /\ topic = [e \in Event |-> 0]
    /\ faults = 0 /\ repeats = 0

-----------------------------------------------------------------------------
(* The vendor, the clock and onboarding. *)

\* Something happens in the shop, or happens again to the same event.
Emit(e) ==
    /\ emitted[e] < Bodies
    /\ emitted' = [emitted EXCEPT ![e] = @ + 1]
    /\ UNCHANGED <<answered, repeats, tokens, mapped, call, data, parked, faults>>

\* A bug: the bucket is refilled without a look at its capacity.
Overfilled == tokens + 1

\* A bug: the time of the last check moves without a refill.
NeverRefilled == tokens

Refilled == IF tokens < Capacity THEN tokens + 1 ELSE tokens

\* Enough time passes for a token (the bucket catches up at its next check).
Refill ==
    /\ tokens' = Refilled
    /\ UNCHANGED <<vendor, mapped, call, data, parked, faults>>

\* The shop is onboarded.
MapShop ==
    /\ ~ mapped /\ mapped' = TRUE
    /\ UNCHANGED <<vendor, tokens, call, data, parked, faults>>

\* Is the vendor waiting for an answer to the delivery?
Waited(e, b) ==
    \E c \in Call : call[c].at # "idle" /\ call[c].event = e /\ call[c].body = b /\ call[c].waited

Owed(e, b) == <<e, b>> \notin answered /\ ~ Waited(e, b)

\* POST /webhooks/:vendor with a token left (without one it is a 429, and the
\* vendor comes back).
Post(c, e, b) ==
    /\ b <= emitted[e] /\ tokens > 0 /\ call[c].at = "idle"
    /\ IF Owed(e, b) THEN repeats' = repeats ELSE repeats < MaxRepeats /\ repeats' = repeats + 1
    /\ tokens' = tokens - 1
    /\ call' = [call EXCEPT ![c] = [at |-> "verify", event |-> e, body |-> b, waited |-> TRUE]]
    /\ UNCHANGED <<emitted, answered, mapped, data, parked, faults>>

-----------------------------------------------------------------------------
(* A call. *)

Goto(c, step) == call' = [call EXCEPT ![c].at = step]
This(c) == <<call[c].event, call[c].body>>

\* The call ends with a 2xx, which reaches a vendor that still waits, or without.
Answer(c) ==
    /\ call' = [call EXCEPT ![c] = Idle]
    /\ answered' = IF call[c].waited THEN answered \cup {This(c)} ELSE answered
Refuse(c) ==
    /\ call' = [call EXCEPT ![c] = Idle]
    /\ answered' = answered

\* A bug: the gateway answers a failed call like any other.
RefuseWithOK(c) == Answer(c)

\* Neither REJECTED (401) nor a failed call (503) is a 2xx.
NotOK(c) == Refuse(c)

Fault == faults < MaxFaults /\ faults' = faults + 1

\* REJECTED: the application secret is not available.
Reject(c) ==
    /\ call[c].at = "verify" /\ Fault
    /\ NotOK(c)
    /\ UNCHANGED <<emitted, repeats, tokens, mapped, data, parked>>

\* The signature is good: PARKED, IGNORED, or on to the intake.
Verify(c) ==
    /\ call[c].at = "verify"
    /\ IF mapped /\ call[c].event \in Listed
         THEN Goto(c, "upsert") /\ UNCHANGED <<answered, parked>>
         ELSE Answer(c) /\ parked' = IF mapped THEN parked ELSE parked \cup {This(c)}
    /\ UNCHANGED <<emitted, repeats, tokens, mapped, data, faults>>

\* A lookup that fails reads as an unmapped shop.
MapFails(c) ==
    /\ call[c].at = "verify" /\ Fault
    /\ Answer(c) /\ parked' = parked \cup {This(c)}
    /\ UNCHANGED <<emitted, repeats, tokens, mapped, data>>

\* A bug: the upsert does not wait for an open transaction on the row.
NoLock(e) == TRUE

\* INSERT .. ON CONFLICT waits for the transaction that holds the row.
Unlocked(e) == lock[e] = None

Upsert(c) ==
    /\ call[c].at = "upsert" /\ Unlocked(call[c].event)
    /\ lock' = [lock EXCEPT ![call[c].event] = c]
    /\ Goto(c, "produce")
    /\ UNCHANGED <<vendor, tokens, mapped, row, topic, stored, parked, torn, faults>>

Produce(c) ==
    /\ call[c].at = "produce"
    /\ topic' = [topic EXCEPT ![call[c].event] = call[c].body]
    /\ Goto(c, "commit")
    /\ UNCHANGED <<vendor, tokens, mapped, lock, row, stored, parked, torn, faults>>

\* A failed produce, whose message may have arrived after all, is only logged.
ProduceFails(c) ==
    /\ call[c].at = "produce" /\ Fault
    /\ topic' \in {topic, [topic EXCEPT ![call[c].event] = call[c].body]}
    /\ torn' = torn \cup {call[c].event}
    /\ Goto(c, "commit")
    /\ UNCHANGED <<vendor, tokens, mapped, lock, row, stored, parked>>

Released(c) == [e \in Event |-> IF lock[e] = c THEN None ELSE lock[e]]

Write(c) ==
    /\ row' = [row EXCEPT ![call[c].event] = call[c].body]
    /\ stored' = stored \cup {This(c)}

\* ACCEPTED.
Commit(c) ==
    /\ call[c].at = "commit"
    /\ Write(c) /\ lock' = Released(c)
    /\ Answer(c)
    /\ UNCHANGED <<emitted, repeats, tokens, mapped, topic, parked, torn, faults>>

\* The call fails or its process dies, and with it the transaction, which may have
\* been committed just before; the gateway answers with a 503.
Abort(c) ==
    /\ call[c].at # "idle" /\ Fault
    /\ \/ UNCHANGED <<row, stored>>
       \/ call[c].at = "commit" /\ Write(c)
    /\ torn' = IF call[c].at = "commit" THEN torn \cup {call[c].event} ELSE torn
    /\ lock' = Released(c)
    /\ NotOK(c)
    /\ UNCHANGED <<emitted, repeats, tokens, mapped, topic, parked>>

\* The vendor hangs up; the call goes on.
HangUp(c) ==
    /\ call[c].at # "idle" /\ call[c].waited /\ Fault
    /\ call' = [call EXCEPT ![c].waited = FALSE]
    /\ UNCHANGED <<vendor, tokens, mapped, data, parked>>

Progress(c) == Verify(c) \/ Upsert(c) \/ Produce(c) \/ Commit(c)
Failure(c) == Reject(c) \/ MapFails(c) \/ ProduceFails(c) \/ Abort(c) \/ HangUp(c)

Next ==
    \/ \E e \in Event : Emit(e)
    \/ Refill \/ MapShop
    \/ \E c \in Call : Progress(c) \/ Failure(c) \/ \E e \in Event, b \in Body : Post(c, e, b)

Spec == Init /\ [][Next]_vars

\* Time passes, a call that can go on does, and the vendor sends an unanswered
\* delivery again as long as some slot is free now and then.
Retry(e, b) == Owed(e, b) /\ \E c \in Call : Post(c, e, b)

Fairness ==
    /\ WF_vars(Refill)
    /\ \A c \in Call : WF_vars(Progress(c))
    /\ \A e \in Event, b \in Body : SF_vars(Retry(e, b))

FairSpec == Spec /\ Fairness

-----------------------------------------------------------------------------
\* Safety: unless a produce or a commit of the event went wrong, Kafka's last word
\* on it is the committed row, in whatever order concurrent calls ran: the row lock
\* spans the produce.
LogFollowsRow ==
    \A e \in Event \ torn : lock[e] = None => topic[e] = row[e]

\* Safety: a delivery of interest that the vendor will not repeat is committed, or
\* was parked: no failed or overtaken call is answered with a 2xx.
NothingDropped ==
    \A d \in answered : d[1] \in Listed => d \in stored \cup parked

\* Liveness: every delivery of interest is stored or parked, through rate limiting,
\* hang-ups and failures, if the vendor keeps sending it.
Delivered ==
    \A e \in Listed, b \in Body : b <= emitted[e] ~> <<e, b>> \in stored \cup parked

\* Action property, webhook_intake.py: "A duplicate vendor delivery (same
\* vendor_event_id) -> ON CONFLICT no-op."  It fails: an old body repeated late
\* overwrites a newer one.
DuplicateIsNoOp ==
    [][\A e \in Event : row'[e] # row[e] => <<e, row'[e]>> \notin stored]_vars
=============================================================================
