---------------------------- MODULE SubjectErasure ----------------------------
(***************************************************************************)
(* The erasure orchestrator for one data subject of a workspace            *)
(* (core-service, consent/commands/erase-subject.ts and                    *)
(* infrastructure/erasure): runs of eraseSubject, which may overlap, take  *)
(* the tiers one by one, each in a transaction or a call of its own, while *)
(* the pipeline still delivers rows and the identity stitcher              *)
(* (identity/stitch-clusters.ts) works on the same PostgreSQL row.         *)
(*                                                                         *)
(* A ClickHouse DELETE is a mutation: it dooms the rows present when it is *)
(* issued and removes them some time later.  The key vault is the local    *)
(* backing (the kms one refuses every call until it is deployed).          *)
(*                                                                         *)
(* All of it runs in withSuperadmin, which clears app.workspace_id.  The   *)
(* policies of customer_pii, identity_cluster_edges and audit_log          *)
(* (infra/bootstrap/bootstrap-pg.sql) compare with it and have no          *)
(* exception for superadmins: a role that does not bypass row-level        *)
(* security sees no row of them there and may insert none.                 *)
(***************************************************************************)
EXTENDS Naturals, FiniteSets

CONSTANTS
    Run,        \* invocations of eraseSubject for the subject
    Tables,     \* how many ClickHouse tables hold its rows, in manifest order
    Row,        \* rows of the subject in a table
    KnownUser,  \* the runs that name a user there is; a call without one names a sentinel
    BypassRLS,  \* does the database role of the service bypass row-level security?
    MaxFaults,  \* bound: steps that throw and processes that die
    MaxArrivals \* bound: rows the pipeline delivers late

ASSUME ErasureAssumption ==
    /\ Tables \in Nat /\ MaxFaults \in Nat /\ MaxArrivals \in Nat
    /\ BypassRLS \in BOOLEAN /\ KnownUser \subseteq Run
    /\ "completed" \notin Run

Table == 1 .. Tables

VARIABLES
    status,     \* subject_erasure_request.status
    windowOver, \* now() has reached notice_window_ends_at
    pg,         \* customer_pii: contact columns, cluster pointer, tombstone
    subjectEdges, \* has the subject edges in identity_cluster_edges?
    rows,       \* its rows in each ClickHouse table
    doomed,     \* those an unfinished mutation will remove
    key,        \* its key: held under the id calls ask for, kept elsewhere, or gone
    audited,    \* is there an audit_log entry of its erasure?
    run,        \* what each run is doing
    stitching,  \* has the stitcher read the subject's edges, its transaction open?
    faults,
    arrivals,   \* rows delivered since the request
    unseen      \* history: rows that arrived too late for a run's counts

requestVars == <<status, windowOver>>
postgres    == <<pg, subjectEdges, audited>>
clickhouse  == <<rows, doomed, arrivals>>
vars == <<status, windowOver, pg, subjectEdges, rows, doomed, arrivals, key, audited, run,
          stitching, faults, unseen>>

Idle == [at |-> "idle", table |-> 1, allZero |-> TRUE]
Steps == {"idle", "claim", "wipe", "delete", "count", "shred", "audit", "stamp", "fail"}

TypeOK ==
    /\ status \in {"pending", "notice_window_ended", "executing", "completed", "failed"}
    /\ windowOver \in BOOLEAN
    /\ pg \in [contact : BOOLEAN, cluster : BOOLEAN, tombstoned : BOOLEAN]
    /\ subjectEdges \in BOOLEAN /\ audited \in BOOLEAN /\ stitching \in BOOLEAN
    /\ key \in {"held", "elsewhere", "gone"}
    /\ rows \in [Table -> SUBSET Row]
    /\ doomed \in [Table -> SUBSET Row]
    /\ \A t \in Table : doomed[t] \subseteq rows[t]
    /\ run \in [Run -> [at : Steps, table : 1 .. Tables + 1, allZero : BOOLEAN]]
    /\ faults \in 0 .. MaxFaults /\ arrivals \in 0 .. MaxArrivals
    /\ unseen \in [Run \cup {"completed"} -> SUBSET (Table \X Row)]

\* A subject with a row in PostgreSQL, linked to another and known everywhere, and
\* a request on record.  (eraseSubject leaves none: a first call inserts it and, in
\* the same transaction, finds its window open and throws.)
Init ==
    /\ status = "pending" /\ windowOver = FALSE
    /\ pg = [contact |-> TRUE, cluster |-> FALSE, tombstoned |-> FALSE]
    /\ subjectEdges = TRUE /\ key \in {"held", "elsewhere"} /\ audited = FALSE
    /\ \E first \in SUBSET Row : rows = [t \in Table |-> first]
    /\ doomed = [t \in Table |-> {}]
    /\ run = [r \in Run |-> Idle]
    /\ stitching = FALSE /\ faults = 0 /\ arrivals = 0
    /\ unseen = [r \in Run \cup {"completed"} |-> {}]

-----------------------------------------------------------------------------
(* Around the orchestrator. *)

\* 48 hours have passed.
WindowEnds ==
    /\ ~ windowOver /\ windowOver' = TRUE
    /\ UNCHANGED <<status, postgres, clickhouse, key, run, stitching, faults, unseen>>

\* transitionNoticeWindowEndedRequests, of the daily tick.
NoticeWindowEnded ==
    /\ status = "pending" /\ windowOver
    /\ status' = "notice_window_ended"
    /\ UNCHANGED <<windowOver, postgres, clickhouse, key, run, stitching, faults, unseen>>

Counted(r, t) == \/ run[r].at \in {"delete", "count"} /\ run[r].table > t
                 \/ run[r].at \in {"shred", "audit", "stamp"}

\* The pipeline delivers another row; a count taken before cannot have seen it.
Deliver(t, x) ==
    /\ x \notin rows[t]
    /\ arrivals < MaxArrivals /\ arrivals' = arrivals + 1
    /\ rows' = [rows EXCEPT ![t] = @ \cup {x}]
    /\ unseen' = [r \in DOMAIN unseen |->
                    IF (IF r = "completed" THEN status = "completed" ELSE Counted(r, t))
                      THEN unseen[r] \cup {<<t, x>>} ELSE unseen[r]]
    /\ UNCHANGED <<requestVars, postgres, doomed, key, run, stitching, faults>>

\* ClickHouse gets round to a mutation.
Mutate(t) ==
    /\ doomed[t] # {}
    /\ rows' = [rows EXCEPT ![t] = @ \ doomed[t]]
    /\ doomed' = [doomed EXCEPT ![t] = {}]
    /\ UNCHANGED <<requestVars, postgres, arrivals, key, run, stitching, faults, unseen>>

\* stitchClusters, one READ COMMITTED transaction: it reads the edges ...
StitchRead ==
    /\ BypassRLS /\ subjectEdges /\ ~ stitching /\ stitching' = TRUE
    /\ UNCHANGED <<requestVars, postgres, clickhouse, key, run, faults, unseen>>

\* ... and stamps the members of the component, whatever became of them.
StitchStamp ==
    /\ stitching /\ stitching' = FALSE
    /\ pg' = [pg EXCEPT !.cluster = TRUE]
    /\ UNCHANGED <<requestVars, subjectEdges, audited, clickhouse, key, run, faults, unseen>>

-----------------------------------------------------------------------------
(* eraseSubject. *)

Goto(r, step) == run' = [run EXCEPT ![r].at = step]

\* Bugs: a request that is executing is left to the run that has it; the window
\* is not looked at.
OpenUnlessExecuting == status \notin {"completed", "executing"}
AnyTime == TRUE

\* Which requests a call goes on with, and when it may.
Open == status # "completed"
NoticeWindowExpired == windowOver

\* Phase 1 reads the request without locking it ...
Begin(r) ==
    /\ run[r].at = "idle" /\ Open
    /\ run' = [run EXCEPT ![r] = [Idle EXCEPT !.at = "claim"]]
    /\ unseen' = [unseen EXCEPT ![r] = {}]
    /\ UNCHANGED <<requestVars, postgres, clickhouse, key, stitching, faults>>

\* ... and claims it, or throws and is rolled back.
Claim(r) ==
    /\ run[r].at = "claim"
    /\ IF NoticeWindowExpired
         THEN status' = "executing" /\ Goto(r, "wipe")
         ELSE status' = status /\ Goto(r, "idle")
    /\ UNCHANGED <<windowOver, postgres, clickhouse, key, stitching, faults, unseen>>

\* Tier 1: one transaction; verified, with nothing to do, if it sees no row or the
\* row has its tombstone.
Wipe(r) ==
    /\ run[r].at = "wipe"
    /\ IF pg.tombstoned \/ ~ BypassRLS
         THEN UNCHANGED <<pg, subjectEdges>>
         ELSE /\ pg' = [contact |-> FALSE, cluster |-> FALSE, tombstoned |-> TRUE]
              /\ subjectEdges' = FALSE
    /\ Goto(r, IF Tables = 0 THEN "shred" ELSE "delete")
    /\ UNCHANGED <<requestVars, audited, clickhouse, key, stitching, faults, unseen>>

\* Tiers 2 and 3, table by table: issue the DELETE, wait, count.
Delete(r) ==
    LET t == run[r].table IN
    /\ run[r].at = "delete"
    /\ doomed' = [doomed EXCEPT ![t] = rows[t]]
    /\ Goto(r, "count")
    /\ UNCHANGED <<requestVars, postgres, rows, arrivals, key, stitching, faults, unseen>>

NextTable(r, zero) ==
    run' = [run EXCEPT ![r] = [at      |-> IF run[r].table < Tables THEN "delete" ELSE "shred",
                               table   |-> run[r].table + 1,
                               allZero |-> run[r].allZero /\ zero]]

\* A bug: a table counts as erased once its DELETE has been issued.
VerifiedOnIssue(t) == TRUE

\* The count after the mutation, or after waiting 30 seconds for it in vain.
Verified(t) == rows[t] = {}

Count(r) ==
    /\ run[r].at = "count"
    /\ NextTable(r, Verified(run[r].table))
    /\ UNCHANGED <<requestVars, postgres, clickhouse, key, stitching, faults, unseen>>

\* The DELETE, the wait or the count throws: not verified, and on to the next table.
TableFails(r) ==
    /\ faults < MaxFaults /\ faults' = faults + 1
    /\ run[r].at \in {"delete", "count"}
    /\ NextTable(r, FALSE)
    /\ UNCHANGED <<requestVars, postgres, clickhouse, key, stitching, unseen>>

Shredded(k) == IF k = "held" THEN "gone" ELSE k

\* Tier 4: the key goes if it is there under the id asked for.  One kept under another
\* salt version or by another process is not_found, and the tier verified all the same.
Shred(r) ==
    /\ run[r].at = "shred"
    /\ key' = Shredded(key)
    /\ Goto(r, "audit")
    /\ UNCHANGED <<requestVars, postgres, clickhouse, stitching, faults, unseen>>

\* Tier 5: the policy of audit_log and its foreign key to users may refuse the entry.
Audit(r) ==
    /\ run[r].at = "audit"
    /\ IF BypassRLS /\ r \in KnownUser
         THEN audited' = TRUE /\ Goto(r, "stamp")
         ELSE audited' = audited /\ Goto(r, "fail")
    /\ UNCHANGED <<requestVars, pg, subjectEdges, clickhouse, key, stitching, faults, unseen>>

Outcome(r) == IF run[r].allZero THEN "completed" ELSE "failed"

Stamp(r) ==
    /\ run[r].at = "stamp"
    /\ status' = Outcome(r)
    /\ unseen' = IF run[r].allZero THEN [unseen EXCEPT !["completed"] = unseen[r]] ELSE unseen
    /\ Goto(r, "idle")
    /\ UNCHANGED <<windowOver, postgres, clickhouse, key, stitching, faults>>

\* A transaction of a tier throws: it is rolled back, but a destroyed key is gone.
Throw(r) ==
    /\ faults < MaxFaults /\ faults' = faults + 1
    /\ run[r].at \in {"wipe", "shred", "audit", "stamp"}
    /\ key' \in IF run[r].at = "shred" THEN {key, Shredded(key)} ELSE {key}
    /\ Goto(r, "fail")
    /\ UNCHANGED <<requestVars, postgres, clickhouse, stitching, unseen>>

\* The catch block.
MarkFailed(r) ==
    /\ run[r].at = "fail"
    /\ status' = "failed"
    /\ Goto(r, "idle")
    /\ UNCHANGED <<windowOver, postgres, clickhouse, key, stitching, faults, unseen>>

\* The process dies (or the catch block fails too, which is ignored).
Die(r) ==
    /\ faults < MaxFaults /\ faults' = faults + 1
    /\ run[r].at # "idle"
    /\ Goto(r, "idle")
    /\ UNCHANGED <<requestVars, postgres, clickhouse, key, stitching, unseen>>

Progress(r) ==
    \/ Claim(r) \/ Wipe(r) \/ Delete(r) \/ Count(r) \/ Shred(r) \/ Audit(r) \/ Stamp(r)
    \/ MarkFailed(r)

Next ==
    \/ WindowEnds \/ NoticeWindowEnded
    \/ \E t \in Table : Mutate(t) \/ \E x \in Row : Deliver(t, x)
    \/ StitchRead \/ StitchStamp
    \/ \E r \in Run : Begin(r) \/ Progress(r) \/ TableFails(r) \/ Throw(r) \/ Die(r)

Spec == Init /\ [][Next]_vars

\* Time passes, ClickHouse works off its mutations, a run in progress goes on, and
\* the subject's erasure is called for until it is done.
Fairness ==
    /\ WF_vars(WindowEnds)
    /\ \A t \in Table : WF_vars(Mutate(t))
    /\ \A r \in Run : WF_vars(Begin(r)) /\ WF_vars(Progress(r))

FairSpec == Spec /\ Fairness

-----------------------------------------------------------------------------
\* Safety: a completed request is evidence.  Whatever runs overlapped, died or
\* waited in vain for a mutation, the contact data, the key under the id asked for and
\* every row a count could have seen are gone, and the audit entry is there.
CompletedMeansErased ==
    status = "completed" =>
        /\ pg.tombstoned /\ ~ pg.contact /\ key # "held" /\ audited
        /\ \A t \in Table : \A x \in rows[t] : <<t, x>> \in unseen["completed"]

\* Safety: nothing of the subject is destroyed before its notice window is over.
NothingBeforeWindow ==
    ~ windowOver => pg.contact /\ subjectEdges /\ key # "gone" /\ \A t \in Table : doomed[t] = {}

\* Liveness: a request on record is completed, through dead runs, failed tiers and
\* slow mutations.
EventuallyErased == <>(status = "completed")

\* Safety, the order of the ladder in the comment of the command: the contact columns
\* go in tier 1, before the rows of tiers 2 and 3 and the key of tier 4.  It fails
\* under a role that row-level security binds, which NeverWhenRefused is about.
WipedFirst == (key = "gone" \/ \E t \in Table : doomed[t] # {}) => pg.tombstoned

\* Safety, the comment of dek-vault.ts: destroying the key "renders ciphertext permanently
\* unreadable".  Refuted by a key that is not where the call looks for it.
KeyGone == status = "completed" => key = "gone"

\* Safety, the comment in wipePgPii: the identity columns are nulled in the UPDATE
\* that tombstones the row, "so the ladder is atomic and verified".  It fails with
\* a stitcher that read its edges before.
TombstoneUnlinked == pg.tombstoned => ~ pg.cluster
=============================================================================
