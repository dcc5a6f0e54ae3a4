---------------------------- MODULE SubjectProofs ----------------------------
(***************************************************************************)
(* Proofs about what core-service does with the subjects of a workspace.   *)
(*                                                                         *)
(* SubjectErasure, for any runs, tables and rows, and for either kind of   *)
(* database role: its types, that nothing is destroyed early, and that a   *)
(* completed request is evidence of the erasure.                           *)
(*                                                                         *)
(* UnionFind, for any list of edges: what it builds are the connected      *)
(* components.                                                             *)
(*                                                                         *)
(* IdentityStitch, for any runs, ids and edges: its types, that no two     *)
(* customers share an id whom nothing ever linked, and that the oldest     *)
(* cluster survives while the job is left alone.                           *)
(***************************************************************************)
EXTENDS SubjectErasure, IdentityStitch, FiniteSetTheorems, WellFoundedInduction,
        SequenceTheorems, TLAPS

USE ErasureAssumption DEF Table

RunType == [at : Steps, table : 1 .. Tables + 1, allZero : BOOLEAN]

\* A run has a table whenever it is about to touch one.
InPlace ==
    \A r \in Run :
        /\ run[r].at \in {"claim", "wipe"} => run[r].table = 1
        /\ run[r].at \in {"delete", "count"} => run[r].table \in Table

TypeInv == TypeOK /\ InPlace

-----------------------------------------------------------------------------
(* What a step does to the runs. *)

LEMMA RunTypes ==
    ASSUME TypeOK
    PROVE  run \in [Run -> RunType]
BY DEF TypeOK, RunType

LEMMA OneRunMoves ==
    ASSUME TypeInv, NEW r \in Run, NEW new \in RunType,
           run' = [run EXCEPT ![r] = new],
           new.at \in {"claim", "wipe"} => new.table = 1,
           new.at \in {"delete", "count"} => new.table \in Table
    PROVE  /\ run' \in [Run -> RunType] /\ InPlace'
           /\ \A s \in Run : run'[s] = IF s = r THEN new ELSE run[s]
BY RunTypes DEF TypeInv, InPlace

\* Another step of the run, at the same table.
LEMMA Moving ==
    ASSUME TypeInv, NEW r \in Run, NEW step \in Steps, Goto(r, step),
           step \in {"claim", "wipe"} => run[r].table = 1,
           step \in {"delete", "count"} => run[r].table \in Table
    PROVE  /\ run' \in [Run -> RunType] /\ InPlace'
           /\ \A s \in Run : s # r => run'[s] = run[s]
           /\ run'[r].at = step /\ run'[r].table = run[r].table
           /\ run'[r].allZero = run[r].allZero
<1> DEFINE new == [run[r] EXCEPT !.at = step]
<1>1. run[r] \in RunType
    BY RunTypes DEF TypeInv
<1>2. /\ new \in RunType /\ new.at = step
      /\ new.table = run[r].table /\ new.allZero = run[r].allZero
    BY <1>1 DEF RunType
<1>3. run' = [run EXCEPT ![r] = new]
    BY DEF Goto
<1>4. /\ run' \in [Run -> RunType] /\ InPlace'
      /\ \A s \in Run : run'[s] = IF s = r THEN new ELSE run[s]
  <2> HIDE DEF new
  <2> QED
    BY <1>2, <1>3, OneRunMoves
<1> HIDE DEF new
<1>5. QED
    BY <1>2, <1>4

\* On to the next table, or to the key.
LEMMA NextTableMoves ==
    ASSUME TypeInv, NEW r \in Run, NEW zero \in BOOLEAN, NextTable(r, zero),
           run[r].at \in {"delete", "count"}
    PROVE  /\ run' \in [Run -> RunType] /\ InPlace'
           /\ \A s \in Run : s # r => run'[s] = run[s]
           /\ run'[r].at = IF run[r].table < Tables THEN "delete" ELSE "shred"
           /\ run'[r].table = run[r].table + 1
           /\ run'[r].allZero = (run[r].allZero /\ zero)
<1> DEFINE new == [at      |-> IF run[r].table < Tables THEN "delete" ELSE "shred",
                   table   |-> run[r].table + 1,
                   allZero |-> run[r].allZero /\ zero]
<1>1. run[r].table \in 1 .. Tables
    BY DEF TypeInv, InPlace
<1>2. run[r].allZero \in BOOLEAN
    BY RunTypes DEF TypeInv, RunType
<1>3. /\ new.at = IF run[r].table < Tables THEN "delete" ELSE "shred"
      /\ new.table = run[r].table + 1
      /\ new.allZero = (run[r].allZero /\ zero)
    OBVIOUS
<1>4. /\ (IF run[r].table < Tables THEN "delete" ELSE "shred") \in Steps
      /\ run[r].table + 1 \in 1 .. Tables + 1
      /\ (run[r].allZero /\ zero) \in BOOLEAN
    BY <1>1, <1>2 DEF Steps
<1>5. new \in RunType
    BY <1>4 DEF RunType
<1>6. /\ new.at \in {"claim", "wipe"} => new.table = 1
      /\ new.at \in {"delete", "count"} => new.table \in Table
    BY <1>1, <1>3
<1>7. run' = [run EXCEPT ![r] = new]
    BY DEF NextTable
<1> HIDE DEF new
<1>8. /\ run' \in [Run -> RunType] /\ InPlace'
      /\ \A s \in Run : run'[s] = IF s = r THEN new ELSE run[s]
    BY <1>5, <1>6, <1>7, OneRunMoves
<1>9. QED
    BY <1>3, <1>8

LEMMA IdleIsRun == Idle \in RunType /\ Idle.table = 1 /\ Idle.at = "idle"
<1>1. 1 \in 1 .. Tables + 1
    OBVIOUS
<1>2. QED
    BY <1>1 DEF Idle, RunType, Steps

LEMMA BeginMoves ==
    ASSUME TypeInv, NEW r \in Run, Begin(r)
    PROVE  /\ run' \in [Run -> RunType] /\ InPlace'
           /\ \A s \in Run : s # r => run'[s] = run[s]
           /\ run'[r].at = "claim"
<1> DEFINE new == [Idle EXCEPT !.at = "claim"]
<1>1. Idle \in RunType /\ Idle.table = 1
    BY IdleIsRun
<1>2. /\ new \in RunType /\ new.at = "claim" /\ new.table = 1
    BY <1>1 DEF RunType, Steps
<1>3. run' = [run EXCEPT ![r] = new]
    BY DEF Begin
<1> HIDE DEF new
<1>4. /\ run' \in [Run -> RunType] /\ InPlace'
      /\ \A s \in Run : run'[s] = IF s = r THEN new ELSE run[s]
    BY <1>2, <1>3, OneRunMoves
<1>5. QED
    BY <1>2, <1>4

-----------------------------------------------------------------------------
(* Types. *)

RunsTyped == run \in [Run -> RunType] /\ InPlace

RestTyped ==
    /\ status \in {"pending", "notice_window_ended", "executing", "completed", "failed"}
    /\ windowOver \in BOOLEAN
    /\ pg \in [contact : BOOLEAN, cluster : BOOLEAN, tombstoned : BOOLEAN]
    /\ subjectEdges \in BOOLEAN /\ key \in {"held", "elsewhere", "gone"} /\ audited \in BOOLEAN /\ stitching \in BOOLEAN
    /\ rows \in [Table -> SUBSET Row]
    /\ doomed \in [Table -> SUBSET Row]
    /\ \A t \in Table : doomed[t] \subseteq rows[t]
    /\ faults \in 0 .. MaxFaults /\ arrivals \in 0 .. MaxArrivals
    /\ unseen \in [Run \cup {"completed"} -> SUBSET (Table \X Row)]

LEMMA InTwo == /\ TypeInv <=> RunsTyped /\ RestTyped
               /\ TypeInv' <=> RunsTyped' /\ RestTyped'
BY DEF TypeInv, RunsTyped, RestTyped, TypeOK, RunType

LEMMA InitTypes == Init => TypeInv
<1> SUFFICES ASSUME Init PROVE RunsTyped /\ RestTyped
    BY InTwo
<1>1. RunsTyped
    BY IdleIsRun DEF Init, RunsTyped, InPlace
<1>2. status \in {"pending", "notice_window_ended", "executing", "completed", "failed"}
    BY DEF Init
<1>3. /\ rows \in [Table -> SUBSET Row]
      /\ doomed \in [Table -> SUBSET Row]
      /\ \A t \in Table : doomed[t] \subseteq rows[t]
  <2>1. PICK first \in SUBSET Row : rows = [t \in Table |-> first]
      BY DEF Init
  <2>2. QED
      BY <2>1 DEF Init
<1>4. faults \in 0 .. MaxFaults /\ arrivals \in 0 .. MaxArrivals
    BY DEF Init
<1>5. unseen \in [Run \cup {"completed"} -> SUBSET (Table \X Row)]
    BY DEF Init
<1>6. pg \in [contact : BOOLEAN, cluster : BOOLEAN, tombstoned : BOOLEAN]
    BY DEF Init
<1>7. QED
    BY <1>1, <1>2, <1>3, <1>4, <1>5, <1>6 DEF Init, RestTyped

\* Steps around the orchestrator.
LEMMA AroundTypes ==
    ASSUME TypeInv,
           \/ WindowEnds \/ NoticeWindowEnded \/ StitchRead \/ StitchStamp
           \/ \E t \in Table : Mutate(t) \/ \E x \in Row : Deliver(t, x)
    PROVE  TypeInv'
<1> SUFFICES RunsTyped' /\ RestTyped'
    BY InTwo
<1> USE InTwo
<1>1. RunsTyped'
    BY DEF RunsTyped, InPlace, WindowEnds, NoticeWindowEnded, StitchRead, StitchStamp,
           Mutate, Deliver
<1>2. CASE \/ WindowEnds \/ NoticeWindowEnded \/ StitchRead \/ StitchStamp
    BY <1>1, <1>2 DEF RestTyped, WindowEnds, NoticeWindowEnded, StitchRead,
       StitchStamp, requestVars, postgres, clickhouse
<1>3. ASSUME NEW t \in Table, Mutate(t) PROVE RestTyped'
    BY <1>3 DEF RestTyped, Mutate, requestVars, postgres
<1>4. ASSUME NEW t \in Table, NEW x \in Row, Deliver(t, x) PROVE RestTyped'
  <2>1. arrivals' \in 0 .. MaxArrivals
      BY <1>4 DEF RestTyped, Deliver
  <2>2. /\ rows' \in [Table -> SUBSET Row]
        /\ \A u \in Table : doomed'[u] \subseteq rows'[u]
      BY <1>4 DEF RestTyped, Deliver
  <2>3. unseen' \in [Run \cup {"completed"} -> SUBSET (Table \X Row)]
    <3>1. <<t, x>> \in Table \X Row
        OBVIOUS
    <3>2. DOMAIN unseen = Run \cup {"completed"}
        BY DEF RestTyped
    <3>3. \A r \in Run \cup {"completed"} :
             unseen[r] \in SUBSET (Table \X Row)
             /\ unseen[r] \cup {<<t, x>>} \in SUBSET (Table \X Row)
        BY <3>1 DEF RestTyped
    <3>4. QED
        BY <1>4, <3>2, <3>3 DEF Deliver
  <2>4. QED
      BY <1>4, <2>1, <2>2, <2>3 DEF RestTyped, Deliver, requestVars, postgres
<1>5. QED
    BY <1>1, <1>2, <1>3, <1>4

\* Steps of a run.
LEMMA RunStepTypes ==
    ASSUME TypeInv, NEW r \in Run,
           Begin(r) \/ Progress(r) \/ TableFails(r) \/ Throw(r) \/ Die(r)
    PROVE  TypeInv'
<1> SUFFICES RunsTyped' /\ RestTyped'
    BY InTwo
<1>0. /\ RunsTyped /\ RestTyped
      /\ run[r] \in RunType
      /\ run[r].at \in {"claim", "wipe"} => run[r].table = 1
      /\ run[r].at \in {"delete", "count"} => run[r].table \in Table
    BY InTwo, RunTypes DEF TypeInv, InPlace
<1>1. CASE Begin(r)
  <2>1. RunsTyped'
      BY <1>1, BeginMoves DEF RunsTyped
  <2>2. unseen' \in [Run \cup {"completed"} -> SUBSET (Table \X Row)]
      BY <1>0, <1>1 DEF RestTyped, Begin
  <2>3. QED
      BY <1>0, <1>1, <2>1, <2>2 DEF RestTyped, Begin, requestVars, postgres, clickhouse
<1>2. CASE Claim(r)
  <2>1. Goto(r, "wipe") \/ Goto(r, "idle")
      BY <1>2 DEF Claim
  <2>2. RunsTyped'
      BY <1>0, <1>2, <2>1, Moving DEF RunsTyped, Claim, Steps
  <2>3. QED
      BY <1>0, <1>2, <2>2 DEF RestTyped, Claim, postgres, clickhouse
<1>3. CASE Wipe(r)
  <2>1. Goto(r, "shred") \/ (Tables # 0 /\ Goto(r, "delete"))
      BY <1>3 DEF Wipe
  <2>2. RunsTyped'
      BY <1>0, <1>3, <2>1, Moving DEF RunsTyped, Wipe, Steps
  <2>3. /\ pg' \in [contact : BOOLEAN, cluster : BOOLEAN, tombstoned : BOOLEAN]
        /\ subjectEdges' \in BOOLEAN
    <3>1. \/ pg' = pg /\ subjectEdges' = subjectEdges
          \/ /\ pg' = [contact |-> FALSE, cluster |-> FALSE, tombstoned |-> TRUE]
             /\ subjectEdges' = FALSE
        BY <1>3, Zenon DEF Wipe
    <3>2. [contact |-> FALSE, cluster |-> FALSE, tombstoned |-> TRUE]
             \in [contact : BOOLEAN, cluster : BOOLEAN, tombstoned : BOOLEAN]
        OBVIOUS
    <3>3. subjectEdges \in BOOLEAN /\ FALSE \in BOOLEAN
          /\ pg \in [contact : BOOLEAN, cluster : BOOLEAN, tombstoned : BOOLEAN]
        BY <1>0 DEF RestTyped
    <3>4. QED
        BY <3>1, <3>2, <3>3, Zenon
  <2>4. QED
      BY <1>0, <1>3, <2>2, <2>3 DEF RestTyped, Wipe, requestVars, clickhouse
<1>4. CASE Delete(r)
  <2>1. RunsTyped'
      BY <1>0, <1>4, Moving DEF RunsTyped, Delete, Steps
  <2>2. QED
      BY <1>0, <1>4, <2>1 DEF RestTyped, Delete, requestVars, postgres
<1>5. CASE Count(r)
  <2> DEFINE zero == Verified(run[r].table)
  <2>1. run[r].at \in {"delete", "count"} /\ NextTable(r, zero)
      BY <1>5 DEF Count
  <2>2. zero \in BOOLEAN
      BY DEF Verified
  <2> HIDE DEF zero
  <2>3. RunsTyped'
      BY <2>1, <2>2, NextTableMoves DEF RunsTyped
  <2>4. QED
      BY <1>0, <1>5, <2>3 DEF RestTyped, Count, requestVars, postgres, clickhouse
<1>6. CASE Shred(r)
  <2>1. RunsTyped'
      BY <1>6, Moving DEF RunsTyped, Shred, Steps
  <2>2. QED
      BY <1>0, <1>6, <2>1 DEF RestTyped, Shred, Shredded, requestVars, postgres, clickhouse
<1>7. CASE Audit(r)
  <2>1. Goto(r, "stamp") \/ Goto(r, "fail")
      BY <1>7 DEF Audit
  <2>2. RunsTyped'
      BY <2>1, Moving DEF RunsTyped, Steps
  <2>3. audited' \in BOOLEAN
    <3>1. audited' = TRUE \/ audited' = audited
        BY <1>7, Zenon DEF Audit
    <3>2. TRUE \in BOOLEAN /\ audited \in BOOLEAN
        BY <1>0 DEF RestTyped
    <3>3. QED
        BY <3>1, <3>2, Zenon
  <2>4. QED
      BY <1>0, <1>7, <2>2, <2>3 DEF RestTyped, Audit, requestVars, clickhouse
<1>8. CASE Stamp(r)
  <2>1. RunsTyped'
      BY <1>8, Moving DEF RunsTyped, Stamp, Steps
  <2>2. QED
      BY <1>0, <1>8, <2>1 DEF RestTyped, Stamp, Outcome, postgres, clickhouse
<1>9. CASE MarkFailed(r)
  <2>1. RunsTyped'
      BY <1>9, Moving DEF RunsTyped, MarkFailed, Steps
  <2>2. QED
      BY <1>0, <1>9, <2>1 DEF RestTyped, MarkFailed, postgres, clickhouse
<1>10. CASE TableFails(r)
  <2>1. RunsTyped'
      BY <1>10, NextTableMoves DEF RunsTyped, TableFails
  <2>2. QED
      BY <1>0, <1>10, <2>1 DEF RestTyped, TableFails, requestVars, postgres, clickhouse
<1>11. CASE Throw(r)
  <2>1. RunsTyped'
      BY <1>11, Moving DEF RunsTyped, Throw, Steps
  <2>2. key' \in {"held", "elsewhere", "gone"} /\ faults' \in 0 .. MaxFaults
    <3>1. key' = key \/ key' = Shredded(key)
        BY <1>11, Zenon DEF Throw
    <3>2. faults' \in 0 .. MaxFaults
        BY <1>0, <1>11 DEF RestTyped, Throw
    <3>3. QED
        BY <1>0, <3>1, <3>2 DEF RestTyped, Shredded
  <2>3. QED
      BY <1>0, <1>11, <2>1, <2>2 DEF RestTyped, Throw, requestVars, postgres, clickhouse
<1>12. CASE Die(r)
  <2>1. RunsTyped'
      BY <1>12, Moving DEF RunsTyped, Die, Steps
  <2>2. QED
      BY <1>0, <1>12, <2>1 DEF RestTyped, Die, requestVars, postgres, clickhouse
<1>13. QED
    BY <1>1, <1>2, <1>3, <1>4, <1>5, <1>6, <1>7, <1>8, <1>9, <1>10, <1>11, <1>12 DEF Progress

LEMMA NextTypes == TypeInv /\ [Next]_vars => TypeInv'
<1> SUFFICES ASSUME TypeInv, [Next]_vars PROVE TypeInv'
    OBVIOUS
<1>1. CASE UNCHANGED vars
    BY <1>1 DEF vars, TypeInv, TypeOK, InPlace
<1>2. CASE Next
    BY <1>2, AroundTypes, RunStepTypes DEF Next
<1>3. QED
    BY <1>1, <1>2

\* Types, the model's statement of what each column and collection may hold.
THEOREM TypeCorrect == Spec => []TypeOK
<1>1. TypeInv => TypeOK
    BY DEF TypeInv
<1>2. QED
    BY InitTypes, NextTypes, <1>1, PTL DEF Spec

-----------------------------------------------------------------------------
(* Nothing is destroyed before the notice window is over: until then no run    *)
(* gets further than its claim, and no status says one did.                    *)

WaitInv ==
    ~ windowOver =>
        /\ status = "pending"
        /\ \A r \in Run : run[r].at \in {"idle", "claim"}
        /\ pg.contact /\ subjectEdges /\ key # "gone"
        /\ \A t \in Table : doomed[t] = {}

LEMMA InitWaits == Init => WaitInv
BY IdleIsRun DEF Init, WaitInv

LEMMA NextWaits == TypeInv /\ WaitInv /\ [Next]_vars => WaitInv'
<1> SUFFICES ASSUME TypeInv, WaitInv, [Next]_vars, ~ windowOver'
             PROVE  WaitInv'
    BY DEF WaitInv
<1>1. CASE UNCHANGED vars
    BY <1>1 DEF vars, WaitInv
<1>2. CASE WindowEnds
    BY <1>2 DEF WindowEnds
<1>3. CASE NoticeWindowEnded \/ StitchRead
  <2>1. CASE NoticeWindowEnded
      BY <2>1 DEF NoticeWindowEnded
  <2>2. CASE StitchRead
      BY <2>2, Zenon DEF WaitInv, StitchRead, requestVars, postgres, clickhouse
  <2>3. QED
      BY <1>3, <2>1, <2>2
<1>4. CASE StitchStamp
  <2>1. pg'.contact = pg.contact
      BY <1>4 DEF StitchStamp, TypeInv, TypeOK
  <2>2. QED
      BY <1>4, <2>1 DEF WaitInv, StitchStamp, requestVars, clickhouse
<1>5. ASSUME NEW t \in Table, Mutate(t) PROVE WaitInv'
    BY <1>5 DEF WaitInv, Mutate, requestVars
<1>6. ASSUME NEW t \in Table, NEW x \in Row, Deliver(t, x) PROVE WaitInv'
    BY <1>6 DEF WaitInv, Deliver, requestVars, postgres
<1>7. ASSUME NEW r \in Run, Begin(r) \/ Progress(r) \/ TableFails(r) \/ Throw(r) \/ Die(r)
      PROVE  WaitInv'
  <2>1. ~ windowOver
      BY <1>7 DEF Begin, Progress, Claim, Wipe, Delete, Count, Shred, Audit, Stamp, MarkFailed,
         TableFails, Throw, Die, requestVars
  <2>2. run[r].at \in {"idle", "claim"}
      BY <2>1 DEF WaitInv
  <2>3. Begin(r) \/ Claim(r) \/ Die(r)
      BY <1>7, <2>2 DEF Progress, Wipe, Delete, Count, Shred, Audit, Stamp, MarkFailed,
         TableFails, Throw
  <2>4. UNCHANGED <<status, postgres, clickhouse, key>>
      BY <2>1, <2>3 DEF Begin, Claim, NoticeWindowExpired, Die, requestVars
  <2>5. \A s \in Run : run'[s].at \in {"idle", "claim"}
    <3>1. CASE Begin(r)
        BY <2>1, <3>1, BeginMoves DEF WaitInv
    <3>2. CASE Claim(r) \/ Die(r)
      <4>1. Goto(r, "idle")
          BY <2>1, <3>2 DEF Claim, NoticeWindowExpired, Die
      <4>2. QED
          BY <2>1, <4>1, Moving DEF WaitInv, Steps
    <3>3. QED
        BY <2>3, <3>1, <3>2
  <2>6. QED
      BY <2>1, <2>4, <2>5 DEF WaitInv, postgres, clickhouse
<1>8. QED
    BY <1>1, <1>2, <1>3, <1>4, <1>5, <1>6, <1>7 DEF Next

\* No contact column, edge, key or row of the subject is touched before the 48
\* hours of notice are over (the isNoticeWindowExpired check of eraseSubject).
THEOREM Patience == Spec => []NothingBeforeWindow
<1>1. WaitInv => NothingBeforeWindow
    BY DEF WaitInv, NothingBeforeWindow
<1>2. QED
    BY InitTypes, NextTypes, InitWaits, NextWaits, <1>1, PTL DEF Spec

-----------------------------------------------------------------------------
(* A completed request is evidence.  What a run has been through it has done,  *)
(* or somebody has before it; what its counts did not see arrived after them.  *)

Done(r) ==
    /\ run[r].at \in {"delete", "count", "shred", "audit", "stamp"} /\ BypassRLS => pg.tombstoned
    /\ run[r].at \in {"audit", "stamp"} => key # "held"
    /\ run[r].at = "stamp" => BypassRLS /\ r \in KnownUser /\ audited

Seen(r) ==
    run[r].allZero =>
        \A t \in Table : Counted(r, t) => \A x \in rows[t] : <<t, x>> \in unseen[r]

EvidenceInv ==
    /\ pg.tombstoned => ~ pg.contact
    /\ \A r \in Run : Done(r) /\ Seen(r)
    /\ CompletedMeansErased

LEMMA InitEvidence == Init => EvidenceInv
BY IdleIsRun DEF Init, EvidenceInv, Done, Seen, Counted, CompletedMeansErased

\* What has been done is never undone, and no status changes but by a run.
LEMMA Lasting ==
    ASSUME TypeInv, [Next]_vars
    PROVE  /\ pg.tombstoned => pg'.tombstoned
           /\ key # "held" => key' # "held"
           /\ audited => audited'
           /\ (pg.tombstoned => ~ pg.contact) => (pg'.tombstoned => ~ pg'.contact)
<1>1. CASE UNCHANGED vars
    BY <1>1 DEF vars
<1>2. CASE StitchStamp
    BY <1>2 DEF StitchStamp, TypeInv, TypeOK
<1>3. ASSUME NEW r \in Run, Wipe(r) \/ Shred(r) \/ Audit(r) \/ Throw(r)
      PROVE  /\ pg.tombstoned => pg'.tombstoned
             /\ key # "held" => key' # "held"
             /\ audited => audited'
             /\ (pg.tombstoned => ~ pg.contact) => (pg'.tombstoned => ~ pg'.contact)
  <2>1. CASE Wipe(r)
      BY <2>1 DEF Wipe, requestVars, clickhouse, TypeInv, TypeOK
  <2>2. CASE Shred(r)
      BY <2>2 DEF Shred, Shredded, postgres
  <2>3. CASE Audit(r)
      BY <2>3, Zenon DEF Audit, clickhouse
  <2>4. CASE Throw(r)
    <3>1. UNCHANGED <<pg, audited>> /\ (key' = key \/ key' = Shredded(key))
        BY <2>4, Zenon DEF Throw, postgres
    <3>2. QED
        BY <3>1 DEF Shredded
  <2>5. QED
      BY <1>3, <2>1, <2>2, <2>3, <2>4
<1>4. CASE UNCHANGED <<pg, key, audited>>
    BY <1>4
<1>5. QED
    BY <1>1, <1>2, <1>3, <1>4 DEF Next, Progress, WindowEnds, NoticeWindowEnded, Mutate,
       Deliver, StitchRead, Begin, Claim, Delete, Count, Stamp, MarkFailed, TableFails, Die,
       requestVars, postgres, clickhouse

\* The rows of the tables and the record of the late ones agree after a step.
RowsAgree(r) ==
    /\ unseen[r] \subseteq unseen'[r]
    /\ \A t \in Table : \A x \in rows'[t] :
          x \in rows[t] \/ (Counted(r, t) => <<t, x>> \in unseen'[r])

LEMMA NoDelivery ==
    ASSUME TypeInv, [Next]_vars, ~ \E t \in Table : \E x \in Row : Deliver(t, x)
    PROVE  \A t \in Table : rows'[t] \subseteq rows[t]
<1>1. ASSUME NEW t \in Table, Mutate(t) PROVE \A u \in Table : rows'[u] \subseteq rows[u]
    BY <1>1 DEF Mutate, TypeInv, TypeOK
<1>2. CASE rows' = rows
    BY <1>2
<1>3. QED
    BY <1>1, <1>2 DEF Next, vars, Progress, WindowEnds, NoticeWindowEnded, StitchRead,
       StitchStamp, Begin, Claim, Wipe, Delete, Count, Shred, Audit, Stamp, MarkFailed, TableFails,
       Throw, Die, clickhouse

LEMMA StillSeen ==
    ASSUME NEW r \in Run, Seen(r), run'[r] = run[r], RowsAgree(r)
    PROVE  Seen(r)'
BY DEF Seen, Counted, RowsAgree

LEMMA StillDone ==
    ASSUME TypeInv, [Next]_vars, NEW r \in Run, Done(r), run'[r] = run[r]
    PROVE  Done(r)'
BY Lasting DEF Done

LEMMA StillComplete ==
    ASSUME TypeInv, [Next]_vars, CompletedMeansErased, pg.tombstoned => ~ pg.contact,
           status' # "completed" \/ status' = status,
           status = "completed" =>
              /\ unseen["completed"] \subseteq unseen'["completed"]
              /\ \A t \in Table : \A x \in rows'[t] :
                    x \in rows[t] \/ <<t, x>> \in unseen'["completed"]
    PROVE  CompletedMeansErased'
BY Lasting DEF CompletedMeansErased

LEMMA AroundEvidence ==
    ASSUME TypeInv, EvidenceInv,
           \/ WindowEnds \/ NoticeWindowEnded \/ StitchRead \/ StitchStamp
           \/ \E t \in Table : Mutate(t) \/ \E x \in Row : Deliver(t, x)
    PROVE  EvidenceInv'
<1>1. [Next]_vars
    BY DEF Next
<1>2. run' = run
    BY DEF WindowEnds, NoticeWindowEnded, StitchRead, StitchStamp, Mutate, Deliver
<1>3. status' # "completed" \/ status' = status
    BY DEF WindowEnds, NoticeWindowEnded, StitchRead, StitchStamp, Mutate, Deliver,
       requestVars
<1>4. /\ \A r \in Run : RowsAgree(r)
      /\ status = "completed" =>
              /\ unseen["completed"] \subseteq unseen'["completed"]
              /\ \A t \in Table : \A x \in rows'[t] :
                    x \in rows[t] \/ <<t, x>> \in unseen'["completed"]
  <2>1. ASSUME NEW t \in Table, NEW x \in Row, Deliver(t, x) PROVE <1>4!:
    <3>1. /\ \A u \in Table : \A y \in rows'[u] : y \in rows[u] \/ (u = t /\ y = x)
          /\ DOMAIN unseen = Run \cup {"completed"}
        BY <2>1 DEF Deliver, TypeInv, TypeOK
    <3>2. \A r \in Run \cup {"completed"} :
              unseen'[r] = IF (IF r = "completed" THEN status = "completed" ELSE Counted(r, t))
                             THEN unseen[r] \cup {<<t, x>>} ELSE unseen[r]
        BY <2>1, <3>1 DEF Deliver
    <3>3. \A r \in Run : RowsAgree(r)
        BY <3>1, <3>2 DEF RowsAgree
    <3>4. QED
        BY <3>1, <3>2, <3>3
  <2>2. CASE ~ \E t \in Table : \E x \in Row : Deliver(t, x)
    <3>1. unseen' = unseen
        BY <2>2 DEF WindowEnds, NoticeWindowEnded, StitchRead, StitchStamp, Mutate
    <3>2. \A t \in Table : rows'[t] \subseteq rows[t]
        BY <1>1, <2>2, NoDelivery
    <3>3. QED
        BY <3>1, <3>2 DEF RowsAgree
  <2>3. QED
      BY <2>1, <2>2
<1>5. \A r \in Run : Done(r)' /\ Seen(r)'
    BY <1>1, <1>2, <1>4, StillSeen, StillDone DEF EvidenceInv
<1>6. CompletedMeansErased'
    BY <1>1, <1>3, <1>4, StillComplete DEF EvidenceInv
<1>7. QED
    BY <1>1, <1>5, <1>6, Lasting DEF EvidenceInv

\* The step of a run leaves the other runs as they are.
LEMMA OthersKept ==
    ASSUME TypeInv, NEW r \in Run,
           Begin(r) \/ Progress(r) \/ TableFails(r) \/ Throw(r) \/ Die(r)
    PROVE  \A s \in Run : s # r => run'[s] = run[s] /\ unseen'[s] = unseen[s]
<1>1. \A s \in Run : s # r => run'[s] = run[s]
    BY DEF TypeInv, TypeOK, Goto, NextTable, Begin, Progress, Claim, Wipe, Delete, Count, Shred,
       Audit, Stamp, MarkFailed, TableFails, Throw, Die
<1>2. \A s \in Run : s # r => unseen'[s] = unseen[s]
    BY DEF TypeInv, TypeOK, Begin, Progress, Claim, Wipe, Delete, Count, Shred,
       Audit, Stamp, MarkFailed, TableFails, Throw, Die
<1>3. QED
    BY <1>1, <1>2

\* A run that is not at work has nothing to answer for.
LEMMA RestfulNow ==
    ASSUME NEW r \in Run, run'[r].at \in {"idle", "claim", "wipe", "fail"}
    PROVE  Done(r)' /\ Seen(r)'
BY DEF Done, Seen, Counted

\* The run itself, step by step.
LEMMA CountEvidence ==
    ASSUME TypeInv, NEW r \in Run, Done(r), Seen(r), NEW zero \in BOOLEAN,
           NextTable(r, zero), run[r].at \in {"delete", "count"},
           zero => rows[run[r].table] = {},
           UNCHANGED <<pg, rows, unseen>>
    PROVE  Done(r)' /\ Seen(r)'
<1>1. /\ run'[r].at = IF run[r].table < Tables THEN "delete" ELSE "shred"
      /\ run'[r].table = run[r].table + 1
      /\ run'[r].allZero = (run[r].allZero /\ zero)
      /\ run[r].table \in 1 .. Tables
    BY NextTableMoves DEF TypeInv, InPlace
<1>2. Done(r)'
    BY <1>1 DEF Done
<1>3. ASSUME run'[r].allZero, NEW t \in Table, Counted(r, t)'
      PROVE  \A x \in rows'[t] : <<t, x>> \in unseen'[r]
  <2>1. run[r].table > t \/ run[r].table = t
      BY <1>1, <1>3 DEF Counted
  <2>2. run[r].allZero /\ zero
      BY <1>1, <1>3
  <2>3. CASE run[r].table = t
      BY <2>2, <2>3
  <2>4. CASE run[r].table > t
      BY <2>2, <2>4 DEF Seen, Counted
  <2>5. QED
      BY <2>1, <2>3, <2>4
<1>4. QED
    BY <1>2, <1>3 DEF Seen

LEMMA OwnEvidence ==
    ASSUME TypeInv, NEW r \in Run, Done(r), Seen(r),
           Begin(r) \/ Progress(r) \/ TableFails(r) \/ Throw(r) \/ Die(r)
    PROVE  Done(r)' /\ Seen(r)'
<1>1. CASE Begin(r)
    BY <1>1, BeginMoves, RestfulNow
<1>2. CASE Claim(r) \/ MarkFailed(r) \/ Stamp(r) \/ Throw(r) \/ Die(r)
  <2>1. Goto(r, "wipe") \/ Goto(r, "idle") \/ Goto(r, "fail")
      BY <1>2 DEF Claim, MarkFailed, Stamp, Throw, Die
  <2>2. run[r].at = "claim" \/ Goto(r, "idle") \/ Goto(r, "fail")
      BY <1>2 DEF Claim, MarkFailed, Stamp, Throw, Die
  <2>3. run'[r].at \in {"idle", "wipe", "fail"}
      BY <2>1, <2>2, Moving DEF Steps, TypeInv, InPlace
  <2>4. QED
      BY <2>3, RestfulNow
<1>3. CASE Wipe(r)
  <2>1. Goto(r, "shred") \/ Goto(r, "delete")
      BY <1>3 DEF Wipe
  <2>2. /\ run[r].at = "wipe" /\ run[r].table = 1
        /\ Tables = 0 \/ Goto(r, "delete")
      BY <1>3 DEF Wipe, TypeInv, InPlace
  <2>3. /\ run'[r].at \in {"shred", "delete"} /\ run'[r].table = 1
        /\ Tables = 0 \/ run'[r].at = "delete"
      BY <1>3, <2>1, <2>2, Moving DEF Wipe, Steps
  <2>4. BypassRLS => pg'.tombstoned
      BY <1>3 DEF Wipe
  <2>5. Done(r)'
      BY <2>3, <2>4 DEF Done
  <2>6. Seen(r)'
      BY <2>3 DEF Seen, Counted
  <2>7. QED
      BY <2>5, <2>6
<1>4. CASE Delete(r)
  <2>1. run'[r].at = "count" /\ run'[r].table = run[r].table /\ run'[r].allZero = run[r].allZero
      BY <1>4, Moving DEF Delete, Steps, TypeInv, InPlace
  <2>2. UNCHANGED <<pg, rows, unseen>> /\ run[r].at = "delete"
      BY <1>4 DEF Delete, postgres
  <2>3. QED
      BY <2>1, <2>2 DEF Done, Seen, Counted
<1>5. CASE Count(r)
  <2>1. /\ Verified(run[r].table) \in BOOLEAN /\ NextTable(r, Verified(run[r].table))
        /\ Verified(run[r].table) => rows[run[r].table] = {}
        /\ run[r].at \in {"delete", "count"} /\ UNCHANGED <<pg, rows, unseen>>
      BY <1>5 DEF Count, Verified, postgres, clickhouse
  <2>2. QED
      BY <2>1, CountEvidence
<1>6. CASE TableFails(r)
  <2>1. /\ NextTable(r, FALSE)
        /\ run[r].at \in {"delete", "count"} /\ UNCHANGED <<pg, rows, unseen>>
      BY <1>6 DEF TableFails, postgres, clickhouse
  <2>2. QED
      BY <2>1, CountEvidence
<1>7. CASE Shred(r)
  <2>1. run'[r].at = "audit" /\ run'[r].table = run[r].table /\ run'[r].allZero = run[r].allZero
      BY <1>7, Moving DEF Shred, Steps
  <2>2. UNCHANGED <<pg, rows, unseen>> /\ run[r].at = "shred" /\ key' # "held"
      BY <1>7 DEF Shred, Shredded, postgres, clickhouse
  <2>3. QED
      BY <2>1, <2>2 DEF Done, Seen, Counted
<1>8. CASE Audit(r)
  <2>1. UNCHANGED <<pg, rows, unseen, key>> /\ run[r].at = "audit"
      BY <1>8 DEF Audit, clickhouse
  <2>2. CASE BypassRLS /\ r \in KnownUser
    <3>1. Goto(r, "stamp") /\ audited'
        BY <1>8, <2>2 DEF Audit
    <3>2. run'[r].at = "stamp" /\ run'[r].table = run[r].table /\ run'[r].allZero = run[r].allZero
        BY <3>1, Moving DEF Steps
    <3>3. QED
        BY <2>1, <2>2, <3>1, <3>2 DEF Done, Seen, Counted
  <2>3. CASE ~ (BypassRLS /\ r \in KnownUser)
    <3>1. Goto(r, "fail")
        BY <1>8, <2>3 DEF Audit
    <3>2. run'[r].at = "fail"
        BY <3>1, Moving DEF Steps
    <3>3. QED
        BY <3>2, RestfulNow
  <2>4. QED
      BY <2>2, <2>3
<1>9. QED
    BY <1>1, <1>2, <1>3, <1>4, <1>5, <1>6, <1>7, <1>8 DEF Progress

LEMMA RunStepEvidence ==
    ASSUME TypeInv, EvidenceInv, NEW r \in Run,
           Begin(r) \/ Progress(r) \/ TableFails(r) \/ Throw(r) \/ Die(r)
    PROVE  EvidenceInv'
<1>1. [Next]_vars
    BY DEF Next
<1>2. \A t \in Table : rows'[t] \subseteq rows[t]
    BY DEF Begin, Progress, Claim, Wipe, Delete, Count, Shred, Audit, Stamp, MarkFailed,
       TableFails, Throw, Die, clickhouse
<1>3. \A s \in Run : Done(s)' /\ Seen(s)'
  <2>1. Done(r)' /\ Seen(r)'
      BY OwnEvidence DEF EvidenceInv
  <2>2. ASSUME NEW s \in Run, s # r PROVE Done(s)' /\ Seen(s)'
    <3>1. run'[s] = run[s] /\ RowsAgree(s)
        BY <1>2, <2>2, OthersKept DEF RowsAgree
    <3>2. QED
        BY <1>1, <3>1, StillDone, StillSeen DEF EvidenceInv
  <2>3. QED
      BY <2>1, <2>2
<1>4. CompletedMeansErased'
  <2>1. CASE Stamp(r) /\ run[r].allZero
    <3>1. /\ run[r].at = "stamp" /\ unseen'["completed"] = unseen[r]
          /\ UNCHANGED <<pg, key, audited, rows>>
        BY <2>1 DEF Stamp, TypeInv, TypeOK, postgres, clickhouse
    <3>2. \A t \in Table : \A x \in rows[t] : <<t, x>> \in unseen[r]
        BY <2>1, <3>1 DEF EvidenceInv, Seen, Counted
    <3>3. pg.tombstoned /\ ~ pg.contact /\ key # "held" /\ audited
        BY <3>1 DEF EvidenceInv, Done
    <3>4. QED
        BY <3>1, <3>2, <3>3 DEF CompletedMeansErased
  <2>2. CASE ~ (Stamp(r) /\ run[r].allZero)
    <3>1. status' # "completed" \/ status' = status
        BY <2>2 DEF Begin, Progress, Claim, Wipe, Delete, Count, Shred, Audit, Stamp, MarkFailed,
           TableFails, Throw, Die, requestVars, Outcome
    <3>2. unseen'["completed"] = unseen["completed"]
        BY <2>2 DEF TypeInv, TypeOK, Begin, Progress, Claim, Wipe, Delete, Count, Shred, Audit,
           Stamp, MarkFailed, TableFails, Throw, Die
    <3>3. QED
        BY <1>1, <1>2, <3>1, <3>2, StillComplete DEF EvidenceInv
  <2>3. QED
      BY <2>1, <2>2
<1>5. QED
    BY <1>1, <1>3, <1>4, Lasting DEF EvidenceInv

LEMMA NextEvidence == TypeInv /\ EvidenceInv /\ [Next]_vars => EvidenceInv'
<1> SUFFICES ASSUME TypeInv, EvidenceInv, [Next]_vars PROVE EvidenceInv'
    OBVIOUS
<1>1. CASE UNCHANGED vars
    BY <1>1 DEF vars, EvidenceInv, Done, Seen, Counted, CompletedMeansErased
<1>2. CASE Next
    BY <1>2, AroundEvidence, RunStepEvidence DEF Next
<1>3. QED
    BY <1>1, <1>2

\* What status = 'completed' says is so, however runs of eraseSubject overlap, die
\* and fail: contact columns and counted rows are gone, no key is left under the id the
\* calls ask for, and the audit entry is there.  (A role under row-level security never gets there at all.)
THEOREM Evidence == Spec => []CompletedMeansErased
<1>1. EvidenceInv => CompletedMeansErased
    BY DEF EvidenceInv
<1>2. QED
    BY InitTypes, NextTypes, InitEvidence, NextEvidence, <1>1, PTL DEF Spec

\* No request is completed under a role that row-level security binds, nor when no call
\* names a user of the users table (one without a user names a sentinel id, which nothing
\* inserts there): the entry of tier 5 is refused.
Refused == ~ BypassRLS \/ KnownUser = {}

NeverCompleted == Refused => status # "completed"

THEOREM NeverWhenRefused == Spec => []NeverCompleted
<1> DEFINE Inv == Refused => status # "completed" /\ ~ audited
<1>1. Init => Inv
    BY DEF Init
<1>2. TypeInv /\ EvidenceInv /\ Inv /\ [Next]_vars => Inv'
  <2> SUFFICES ASSUME EvidenceInv, Inv, [Next]_vars, Refused
               PROVE  status' # "completed" /\ ~ audited'
      OBVIOUS
  <2>1. status' # "completed"
      BY DEF Refused, EvidenceInv, Done, Next, vars, Progress, WindowEnds, NoticeWindowEnded,
         Mutate, Deliver, StitchRead, StitchStamp, Begin, Claim, Wipe, Delete, Count, Shred, Audit,
         Stamp, MarkFailed, TableFails, Throw, Die, requestVars, Outcome
  <2>2. ~ audited'
      BY DEF Refused, Next, vars, Progress, WindowEnds, NoticeWindowEnded,
         Mutate, Deliver, StitchRead, StitchStamp, Begin, Claim, Wipe, Delete, Count, Shred, Audit,
         Stamp, MarkFailed, TableFails, Throw, Die, postgres
  <2>3. QED
      BY <2>1, <2>2
<1>3. Inv => NeverCompleted
    BY DEF NeverCompleted
<1>4. QED
    BY InitTypes, NextTypes, InitEvidence, NextEvidence, <1>1, <1>2, <1>3, PTL DEF Spec

\* The order of the ladder, for a role that bypasses row-level security: nothing of tiers 2
\* to 4 is destroyed before the contact columns of tier 1 are gone, whichever runs overlap,
\* fail and die (WipedFirst, which fails under any other role).
LadderOrdered == BypassRLS => WipedFirst

THEOREM LadderOrder == Spec => []LadderOrdered
<1>1. Init => LadderOrdered
    BY DEF Init, LadderOrdered, WipedFirst
<1>2. TypeInv /\ EvidenceInv /\ LadderOrdered /\ [Next]_vars => LadderOrdered'
    <2> SUFFICES ASSUME TypeInv, EvidenceInv, WipedFirst, [Next]_vars, BypassRLS, ~ pg.tombstoned
                 PROVE  key' # "gone" /\ \A t \in Table : doomed'[t] = {}
        BY Lasting DEF LadderOrdered, WipedFirst, TypeInv, TypeOK
    <2>1. key # "gone" /\ \A t \in Table : doomed[t] = {}
        BY DEF WipedFirst
    <2>2. \A r \in Run : run[r].at \notin {"delete", "count", "shred", "audit", "stamp"}
        BY DEF EvidenceInv, Done
    <2>3. key' # "gone"
        BY <2>1, <2>2 DEF Next, vars, Progress, WindowEnds, NoticeWindowEnded,
           Mutate, Deliver, StitchRead, StitchStamp, Begin, Claim, Wipe, Delete, Count, Shred, Audit,
           Stamp, MarkFailed, TableFails, Throw, Die
    <2>4. doomed' = doomed \/ \E t \in Table : doomed' = [doomed EXCEPT ![t] = {}]
        BY <2>2 DEF Next, vars, Progress, WindowEnds, NoticeWindowEnded, clickhouse,
           Mutate, Deliver, StitchRead, StitchStamp, Begin, Claim, Wipe, Delete, Count, Shred, Audit,
           Stamp, MarkFailed, TableFails, Throw, Die
    <2>5. QED
        BY <2>1, <2>3, <2>4 DEF TypeInv, TypeOK
<1>3. QED
    BY InitTypes, NextTypes, InitEvidence, NextEvidence, <1>1, <1>2, PTL DEF Spec

HIDE ErasureAssumption DEF Table

-----------------------------------------------------------------------------
(* Induction over the numbers, from the fact that strict inclusion of finite *)
(* sets is well founded: a set of numbers that is not everything leaves out  *)
(* a smallest one.                                                           *)

LEMMA Smallest ==
    ASSUME NEW S \in SUBSET Nat, S # {}
    PROVE  \E k \in S : \A j \in S : k <= j
<1> DEFINE T == {0 .. j : j \in S}
<1>1. T # {} /\ T \subseteq FiniteSubsetsOf(Nat)
    <2>1. \A j \in S : 0 .. j \in SUBSET Nat /\ IsFiniteSet(0 .. j)
        BY FS_Interval
    <2>2. QED
        BY <2>1 DEF FiniteSubsetsOf
<1>2. IsWellFoundedOn(StrictSubsetOrdering(Nat), FiniteSubsetsOf(Nat))
    BY FS_StrictSubsetOrderingWellFounded
<1> HIDE DEF T
<1>3. PICK x \in T : \A y \in T : ~ (<<y, x>> \in StrictSubsetOrdering(Nat))
    BY <1>1, <1>2, WFMin
<1>4. PICK k \in S : x = 0 .. k
    BY <1>3 DEF T
<1>5. ASSUME NEW j \in S, j < k PROVE FALSE
    <2>1. 0 .. j \in T
        BY DEF T
    <2>2. <<0 .. j, 0 .. k>> \in StrictSubsetOrdering(Nat)
        BY <1>5 DEF StrictSubsetOrdering
    <2>3. QED
        BY <1>3, <1>4, <2>1, <2>2
<1>6. QED
    BY <1>5

LEMMA Upwards ==
    ASSUME NEW N \in Nat, NEW S, 0 \in S, \A k \in 1 .. N : k - 1 \in S => k \in S
    PROVE  \A k \in 0 .. N : k \in S
<1> DEFINE out == (0 .. N) \ S
<1>1. SUFFICES ASSUME out # {} PROVE FALSE
    OBVIOUS
<1>2. out \subseteq Nat
    OBVIOUS
<1> HIDE DEF out
<1>3. PICK k \in out : \A j \in out : k <= j
    BY <1>1, <1>2, Smallest
<1>4. k \in 1 .. N /\ k - 1 \notin out /\ k - 1 \in 0 .. N
    BY <1>2, <1>3 DEF out
<1>5. QED
    BY <1>3, <1>4 DEF out

Advances(step, N, V) == \A k \in 1 .. N : \A v \in V : step[k][v] \in V

\* What comes of taking the steps one after another.
Runs(step, N, V, first) == {g \in [0 .. N -> V] : g[0] = first
          /\ \A k \in 1 .. N : g[k] = step[k][g[k - 1]]}

\* What is computed step by step exists.
LEMMA StepByStep ==
    ASSUME NEW N \in Nat, NEW V, NEW first \in V, NEW step, Advances(step, N, V)
    PROVE  \E g : g \in Runs(step, N, V, first)
<1> DEFINE Ways(n) == Runs(step, n, V, first)
           S == {n \in 0 .. N : Ways(n) # {}}
<1>1. 0 \in S
    <2>1. [k \in 0 .. 0 |-> first] \in Ways(0)
        BY DEF Runs
    <2>2. QED
        BY <2>1
<1>2. ASSUME NEW n \in 1 .. N, n - 1 \in S PROVE n \in S
    <2>1. PICK g \in [0 .. (n - 1) -> V] : g[0] = first
              /\ \A k \in 1 .. (n - 1) : g[k] = step[k][g[k - 1]]
        BY <1>2 DEF Runs
    <2> DEFINE h == [k \in 0 .. n |-> IF k < n THEN g[k] ELSE step[n][g[n - 1]]]
    <2>2. step[n][g[n - 1]] \in V
        BY DEF Advances
    <2>3. h \in [0 .. n -> V]
        BY <2>2
    <2>4. h[0] = first
        BY <2>1
    <2>5. ASSUME NEW k \in 1 .. n PROVE h[k] = step[k][h[k - 1]]
        BY <2>1
    <2> HIDE DEF h
    <2>6. h \in Ways(n)
        BY <2>3, <2>4, <2>5 DEF Runs
    <2>7. QED
        BY <2>6
<1>3. 0 \in S /\ \A n \in 1 .. N : n - 1 \in S => n \in S
    BY <1>1, <1>2
<1> HIDE DEF S
<1>4. \A n \in 0 .. N : n \in S
    BY <1>3, Upwards
<1>5. N \in S
    BY <1>4
<1>6. QED
    BY <1>5 DEF S

-----------------------------------------------------------------------------
(* The way up.                                                              *)

USE UnionFindAssumption

\* The way up from a node exists: a recursive function is one that satisfies its equation.
LEMMA WaysUp ==
    ASSUME NEW f \in Trees, NEW n \in Node
    PROVE  /\ Way(f, n) \in [0 .. LastNode -> Node] /\ Way(f, n)[0] = n
           /\ \A k \in 1 .. LastNode : Way(f, n)[k] = f.parent[Way(f, n)[k - 1]]
<1> DEFINE Up(up) == [k \in 0 .. LastNode |-> IF k = 0 THEN n ELSE f.parent[up[k - 1]]]
           step == [k \in 1 .. LastNode |-> [m \in Node |-> f.parent[m]]]
<1>1. f.parent \in [Node -> Node] /\ LastNode \in Nat
    BY DEF Trees
<1>2. \A k \in 1 .. LastNode : \A m \in Node : step[k][m] = f.parent[m] /\ step[k][m] \in Node
    BY <1>1
<1>3. PICK g \in [0 .. LastNode -> Node] : g[0] = n
          /\ \A k \in 1 .. LastNode : g[k] = step[k][g[k - 1]]
    <2> HIDE DEF step
    <2>1. Advances(step, LastNode, Node)
        BY <1>2 DEF Advances
    <2>2. PICK g : g \in Runs(step, LastNode, Node, n)
        BY <1>1, <2>1, StepByStep
    <2>3. QED
        BY <2>2 DEF Runs
<1>4. ASSUME NEW k \in 1 .. LastNode PROVE g[k] = f.parent[g[k - 1]]
    <2>1. k - 1 \in 0 .. LastNode
        BY <1>1
    <2>2. g[k - 1] \in Node
        BY <2>1
    <2> HIDE DEF step
    <2>3. QED
        BY <1>2, <1>3, <2>2
<1>5. g = Up(g)
    <2>1. g = [k \in 0 .. LastNode |-> g[k]]
        OBVIOUS
    <2>2. ASSUME NEW k \in 0 .. LastNode PROVE g[k] = IF k = 0 THEN n ELSE f.parent[g[k - 1]]
        BY <1>1, <1>3, <1>4
    <2>3. QED
        BY <2>1, <2>2
<1>6. Way(f, n) = Up(Way(f, n))
    BY <1>5 DEF Way
<1> DEFINE w == Way(f, n)
<1>7. /\ DOMAIN w = 0 .. LastNode /\ w = [k \in 0 .. LastNode |-> w[k]]
      /\ w[0] = n /\ \A k \in 1 .. LastNode : w[k] = f.parent[w[k - 1]]
    <2> HIDE DEF w
    <2>1. w = Up(w)
        BY <1>6 DEF w
    <2>2. DOMAIN w = 0 .. LastNode /\ w = [k \in 0 .. LastNode |-> w[k]]
        BY <2>1
    <2>3. \A k \in 0 .. LastNode : w[k] = IF k = 0 THEN n ELSE f.parent[w[k - 1]]
        BY <2>1
    <2>4. w[0] = n
        BY <1>1, <2>3
    <2>5. ASSUME NEW k \in 1 .. LastNode PROVE w[k] = f.parent[w[k - 1]]
        <3>1. k \in 0 .. LastNode /\ k # 0
            BY <1>1
        <3>2. QED
            BY <2>3, <3>1
    <2>6. QED
        BY <2>2, <2>4, <2>5
<1>8. \A k \in 0 .. LastNode : w[k] \in Node
    <2> DEFINE S == {k \in 0 .. LastNode : w[k] \in Node}
    <2> HIDE DEF w
    <2>1. 0 \in S
        BY <1>1, <1>7
    <2>2. ASSUME NEW k \in 1 .. LastNode, k - 1 \in S PROVE k \in S
        <3>1. w[k - 1] \in Node /\ w[k] = f.parent[w[k - 1]]
            BY <1>7, <2>2
        <3>2. k \in 0 .. LastNode /\ w[k] \in Node
            BY <1>1, <3>1
        <3>3. QED
            BY <3>2
    <2>3. \A k \in 1 .. LastNode : k - 1 \in S => k \in S
        BY <2>2
    <2> HIDE DEF S
    <2>4. \A k \in 0 .. LastNode : k \in S
        BY <1>1, <2>1, <2>3, Upwards
    <2>5. QED
        BY <2>4 DEF S
<1>9. QED
    BY <1>7, <1>8

\* What holds of a node and is handed to parents holds all the way up.
LEMMA AlongThePath ==
    ASSUME NEW f \in Trees, NEW n \in Node, NEW S, n \in S, \A x \in S \cap Node : f.parent[x] \in S
    PROVE  Path(f, n) \subseteq S /\ Path(f, n) \subseteq Node /\ n \in Path(f, n)
<1> DEFINE w == Way(f, n)
           T == {k \in 0 .. LastNode : w[k] \in S}
<1>1. /\ w \in [0 .. LastNode -> Node] /\ w[0] = n /\ LastNode \in Nat
      /\ \A k \in 1 .. LastNode : w[k] = f.parent[w[k - 1]]
    BY WaysUp
<1>2. Path(f, n) = {w[k] : k \in 0 .. LastNode}
    BY <1>1 DEF Path, Range
<1> HIDE DEF w
<1>3. 0 \in T
    BY <1>1
<1>4. ASSUME NEW k \in 1 .. LastNode, k - 1 \in T PROVE k \in T
    <2>1. w[k - 1] \in S \cap Node /\ w[k] = f.parent[w[k - 1]] /\ k \in 0 .. LastNode
        BY <1>1, <1>4
    <2>2. QED
        BY <2>1
<1>5. \A k \in 0 .. LastNode : k \in T
    <2>1. \A k \in 1 .. LastNode : k - 1 \in T => k \in T
        BY <1>4
    <2> HIDE DEF T
    <2>2. QED
        BY <1>1, <1>3, <2>1, Upwards
<1>6. n \in Path(f, n)
    BY <1>1, <1>2
<1>7. QED
    BY <1>1, <1>2, <1>5, <1>6

\* The forests: ranks grow on the way up.
Forests == {f \in Trees : \A n \in Node : f.parent[n] = n \/ f.rank[n] < f.rank[f.parent[n]]}

IsRoot(f, r) == r \in Node /\ f.parent[r] = r

\* Nodes run out, so a way that climbs ends at a root.
LEMMA RootsAbove ==
    ASSUME NEW f \in Forests, NEW n \in Node
    PROVE  \E r \in Path(f, n) : f.parent[r] = r
<1> SUFFICES ASSUME \A r \in Path(f, n) : f.parent[r] # r PROVE FALSE
    OBVIOUS
<1> DEFINE w == Way(f, n)
<1>1. f \in Trees /\ f.parent \in [Node -> Node] /\ f.rank \in [Node -> Nat]
      /\ \A m \in Node : f.parent[m] = m \/ f.rank[m] < f.rank[f.parent[m]]
    BY DEF Forests, Trees
<1>2. /\ w \in [0 .. LastNode -> Node] /\ w[0] = n /\ LastNode \in Nat
      /\ \A k \in 1 .. LastNode : w[k] = f.parent[w[k - 1]]
    BY <1>1, WaysUp
<1>3. Path(f, n) = {w[k] : k \in 0 .. LastNode}
    BY <1>2 DEF Path, Range
<1> HIDE DEF w
<1>4. ASSUME NEW k \in 1 .. LastNode PROVE f.rank[w[k - 1]] < f.rank[w[k]]
    <2>1. k - 1 \in 0 .. LastNode
        BY <1>2
    <2>2. w[k - 1] \in Node /\ w[k - 1] \in Path(f, n)
        BY <1>2, <1>3, <2>1
    <2>3. QED
        BY <1>1, <1>2, <2>2
<1>5. ASSUME NEW i \in 0 .. LastNode, NEW j \in 0 .. LastNode, i < j PROVE w[i] # w[j]
    <2> DEFINE T == {k \in 0 .. LastNode : i < k => f.rank[w[i]] < f.rank[w[k]]}
    <2>1. 0 \in T
        BY <1>2
    <2>2. ASSUME NEW k \in 1 .. LastNode, k - 1 \in T PROVE k \in T
        <3>1. k - 1 \in 0 .. LastNode /\ k \in 0 .. LastNode /\ i \in Nat
            BY <1>2
        <3>2. w[i] \in Node /\ w[k - 1] \in Node /\ w[k] \in Node
            BY <1>2, <3>1
        <3>3. f.rank[w[i]] \in Nat /\ f.rank[w[k - 1]] \in Nat /\ f.rank[w[k]] \in Nat
            BY <1>1, <3>2
        <3>4. f.rank[w[k - 1]] < f.rank[w[k]]
            BY <1>4
        <3>5. CASE i < k - 1
            BY <2>2, <3>1, <3>3, <3>4, <3>5
        <3>6. CASE i = k - 1
            BY <3>1, <3>4, <3>6
        <3>7. CASE ~(i < k)
            BY <3>1, <3>7
        <3>8. QED
            BY <3>1, <3>5, <3>6, <3>7
    <2>3. \A k \in 0 .. LastNode : k \in T
        <3>1. \A k \in 1 .. LastNode : k - 1 \in T => k \in T
            BY <2>2
        <3> HIDE DEF T
        <3>2. QED
            BY <1>2, <2>1, <3>1, Upwards
    <2>4. f.rank[w[i]] < f.rank[w[j]] /\ f.rank[w[i]] \in Nat
        BY <1>1, <1>2, <1>5, <2>3
    <2>5. QED
        BY <2>4
<1>6. \E i, j \in 0 .. LastNode : i # j /\ w[i] = w[j]
    <2>1. IsFiniteSet(0 .. LastNode) /\ Cardinality(0 .. LastNode) = LastNode + 1
        BY <1>2, FS_Interval
    <2>2. IsFiniteSet(Node) /\ Cardinality(Node) = LastNode
        BY <1>2, FS_Interval DEF Node
    <2>3. Cardinality(0 .. LastNode) > Cardinality(Node)
        BY <1>2, <2>1, <2>2
    <2>4. w \in [0 .. LastNode -> Node]
        BY <1>2
    <2>5. QED
        BY <2>1, <2>2, <2>3, <2>4, FS_PigeonHole
<1>7. QED
    <2>1. PICK i \in 0 .. LastNode, j \in 0 .. LastNode : i # j /\ w[i] = w[j]
        BY <1>6
    <2>2. i < j \/ j < i
        BY <1>2, <2>1
    <2>3. QED
        BY <1>5, <2>1, <2>2

\* A way has one root.
LEMMA OneRoot ==
    ASSUME NEW f \in Trees, NEW n \in Node, NEW r \in Path(f, n), NEW q \in Path(f, n),
              f.parent[r] = r, f.parent[q] = q
    PROVE  r = q
<1> DEFINE w == Way(f, n)
<1>1. /\ w \in [0 .. LastNode -> Node] /\ LastNode \in Nat
      /\ \A k \in 1 .. LastNode : w[k] = f.parent[w[k - 1]]
    BY WaysUp
<1>2. Path(f, n) = {w[k] : k \in 0 .. LastNode}
    BY <1>1 DEF Path, Range
<1> HIDE DEF w
<1>3. ASSUME NEW i \in 0 .. LastNode, NEW j \in 0 .. LastNode, i <= j, f.parent[w[i]] = w[i]
      PROVE  w[j] = w[i]
    <2> DEFINE T == {k \in 0 .. LastNode : i <= k => w[k] = w[i]}
    <2>1. 0 \in T
        <3>1. i <= 0 => i = 0
            BY <1>1
        <3>2. QED
            BY <1>1, <3>1
    <2>2. ASSUME NEW k \in 1 .. LastNode, k - 1 \in T PROVE k \in T
        <3>1. k - 1 \in 0 .. LastNode /\ k \in 0 .. LastNode /\ i \in Nat
            BY <1>1
        <3>2. i <= k => i <= k - 1 \/ i = k
            BY <3>1
        <3>3. i <= k - 1 => w[k] = w[i]
            BY <1>1, <1>3, <2>2
        <3>4. QED
            BY <3>1, <3>2, <3>3
    <2>3. \A k \in 0 .. LastNode : k \in T
        <3>1. \A k \in 1 .. LastNode : k - 1 \in T => k \in T
            BY <2>2
        <3> HIDE DEF T
        <3>2. QED
            BY <1>1, <2>1, <3>1, Upwards
    <2>4. QED
        BY <1>3, <2>3
<1>4. PICK i \in 0 .. LastNode, j \in 0 .. LastNode : r = w[i] /\ q = w[j]
    BY <1>2
<1>5. i <= j \/ j <= i
    BY <1>1
<1>6. QED
    BY <1>3, <1>4, <1>5

\* The way of a parent is the rest of the way of its child.
LEMMA RestOfTheWay ==
    ASSUME NEW f \in Trees, NEW n \in Node
    PROVE  \A r \in Path(f, n) : r = n \/ r \in Path(f, f.parent[n])
<1> DEFINE w == Way(f, n)
           p == f.parent[n]
           v == Way(f, p)
           T == {k \in 0 .. LastNode : k < LastNode => v[k] = w[k + 1]}
<1>1. p \in Node /\ LastNode \in Nat
    BY DEF Trees
<1>2. /\ w \in [0 .. LastNode -> Node] /\ w[0] = n
      /\ \A k \in 1 .. LastNode : w[k] = f.parent[w[k - 1]]
    BY WaysUp
<1>3. /\ v \in [0 .. LastNode -> Node] /\ v[0] = p
      /\ \A k \in 1 .. LastNode : v[k] = f.parent[v[k - 1]]
    BY <1>1, WaysUp
<1>4. Path(f, n) = {w[k] : k \in 0 .. LastNode} /\ Path(f, p) = {v[k] : k \in 0 .. LastNode}
    BY <1>2, <1>3 DEF Path, Range
<1> HIDE DEF w, v
<1>5. 0 \in T
    <2>1. 0 < LastNode => w[1] = f.parent[w[0]]
        BY <1>1, <1>2
    <2>2. QED
        BY <1>1, <1>2, <1>3, <2>1
<1>6. ASSUME NEW k \in 1 .. LastNode, k - 1 \in T PROVE k \in T
    <2>1. k \in 0 .. LastNode /\ k - 1 < LastNode /\ v[k - 1] = w[k]
        BY <1>1, <1>6
    <2>2. k < LastNode => w[k + 1] = f.parent[w[k]]
        <3>1. k < LastNode => k + 1 \in 1 .. LastNode /\ (k + 1) - 1 = k
            BY <1>1
        <3>2. QED
            BY <1>2, <3>1
    <2>3. QED
        BY <1>3, <2>1, <2>2
<1>7. \A k \in 0 .. LastNode : k \in T
    <2>1. \A k \in 1 .. LastNode : k - 1 \in T => k \in T
        BY <1>6
    <2> HIDE DEF T
    <2>2. QED
        BY <1>1, <1>5, <2>1, Upwards
<1>8. ASSUME NEW i \in 0 .. LastNode, i # 0 PROVE w[i] \in {v[k] : k \in 0 .. LastNode}
    <2>1. i - 1 \in 0 .. LastNode /\ i - 1 < LastNode /\ (i - 1) + 1 = i
        BY <1>1, <1>8
    <2>2. v[i - 1] = w[i]
        BY <1>7, <2>1
    <2>3. QED
        BY <2>1, <2>2
<1>9. QED
    BY <1>2, <1>4, <1>8

\* The root of a node.
LEMMA Roots ==
    ASSUME NEW f \in Forests, NEW n \in Node
    PROVE  /\ Root(f, n) \in Path(f, n) /\ IsRoot(f, Root(f, n))
           /\ Root(f, f.parent[n]) = Root(f, n)
           /\ f.parent[n] = n => Root(f, n) = n
           /\ n = Root(f, n) \/ f.rank[n] < f.rank[Root(f, n)]
<1>1. f \in Trees /\ f.parent \in [Node -> Node] /\ f.rank \in [Node -> Nat]
      /\ \A m \in Node : f.parent[m] = m \/ f.rank[m] < f.rank[f.parent[m]]
    BY DEF Forests, Trees
<1>2. \A m \in Node : Root(f, m) \in Path(f, m) /\ f.parent[Root(f, m)] = Root(f, m)
    BY RootsAbove DEF Root
<1>3. \A m \in Node : Path(f, m) \subseteq Node /\ m \in Path(f, m)
    <2>1. ASSUME NEW m \in Node PROVE Path(f, m) \subseteq Node /\ m \in Path(f, m)
        <3>1. m \in Node /\ \A x \in Node \cap Node : f.parent[x] \in Node
            BY <1>1
        <3>2. QED
            BY <1>1, <3>1, AlongThePath
    <2>2. QED
        BY <2>1
<1>4. f.parent[n] = n => Root(f, n) = n
    BY <1>1, <1>2, <1>3, OneRoot
<1>5. Root(f, f.parent[n]) = Root(f, n)
    <2>1. CASE f.parent[n] = n
        BY <2>1
    <2>2. CASE f.parent[n] # n
        <3>1. f.parent[n] \in Node /\ Root(f, n) # n
            BY <1>1, <1>2, <2>2
        <3>2. Root(f, n) \in Path(f, f.parent[n])
            BY <1>1, <1>2, <3>1, RestOfTheWay
        <3>3. QED
            BY <1>1, <1>2, <3>1, <3>2, OneRoot
    <2>3. QED
        BY <2>1, <2>2
<1>6. n = Root(f, n) \/ f.rank[n] < f.rank[Root(f, n)]
    <2> DEFINE S == {x \in Node : x = n \/ f.rank[n] < f.rank[x]}
    <2>1. n \in S
        OBVIOUS
    <2>2. ASSUME NEW x \in S \cap Node PROVE f.parent[x] \in S
        <3>1. x \in Node /\ f.parent[x] \in Node /\ f.rank[n] \in Nat /\ f.rank[x] \in Nat
                  /\ f.rank[f.parent[x]] \in Nat
            BY <1>1
        <3>2. f.parent[x] = x \/ f.rank[x] < f.rank[f.parent[x]]
            BY <1>1, <3>1
        <3>3. f.parent[x] = x \/ f.rank[n] < f.rank[f.parent[x]]
            BY <2>2, <3>1, <3>2
        <3>4. QED
            BY <2>2, <3>1, <3>3
    <2>3. Path(f, n) \subseteq S
        <3>1. \A x \in S \cap Node : f.parent[x] \in S
            BY <2>2
        <3> HIDE DEF S
        <3>2. QED
            BY <1>1, <2>1, <3>1, AlongThePath
    <2>4. QED
        BY <1>2, <2>3
<1>7. IsRoot(f, Root(f, n)) /\ Root(f, n) \in Path(f, n)
    BY <1>2, <1>3 DEF IsRoot
<1>8. QED
    BY <1>4, <1>5, <1>6, <1>7

\* What parents and children agree on, and is itself for a root.
Settles(R, f) == \A m \in Node : R[f.parent[m]] = R[m] /\ (f.parent[m] = m => R[m] = m)

\* That is the root.
LEMMA RootIs ==
    ASSUME NEW f \in Forests, NEW R, Settles(R, f), NEW n \in Node
    PROVE  Root(f, n) = R[n]
<1> DEFINE S == {x \in Node : R[x] = R[n]}
<1>1. f \in Trees /\ f.parent \in [Node -> Node]
    BY DEF Forests, Trees
<1>2. n \in S /\ \A x \in S \cap Node : f.parent[x] \in S
    BY <1>1 DEF Settles
<1>3. Path(f, n) \subseteq S
    <2> HIDE DEF S
    <2>1. QED
        BY <1>1, <1>2, AlongThePath
<1>4. R[Root(f, n)] = R[n] /\ R[Root(f, n)] = Root(f, n)
    BY <1>3, Roots DEF IsRoot, Settles
<1>5. QED
    BY <1>4

-----------------------------------------------------------------------------
(* A union.                                                                 *)

\* The nodes on the way to a root have it for a root.
LEMMA SameRootOnTheWay ==
    ASSUME NEW f \in Forests, NEW n \in Node
    PROVE  \A m \in Path(f, n) : m \in Node /\ Root(f, m) = Root(f, n)
<1> DEFINE S == {m \in Node : Root(f, m) = Root(f, n)}
<1>1. f \in Trees /\ f.parent \in [Node -> Node]
    BY DEF Forests, Trees
<1>2. n \in S /\ \A x \in S \cap Node : f.parent[x] \in S
    BY <1>1, Roots
<1>3. Path(f, n) \subseteq S
    <2> HIDE DEF S
    <2>1. QED
        BY <1>1, <1>2, AlongThePath
<1>4. QED
    BY <1>3

\* The finds move nodes up to their roots, and no root changes.
LEMMA Finds ==
    ASSUME NEW f \in Forests, NEW e \in Edge
    PROVE  /\ Compressed(f, e) \in Forests /\ Compressed(f, e).rank = f.rank
           /\ \A n \in Node : Root(Compressed(f, e), n) = Root(f, n)
<1> DEFINE g == Compressed(f, e)
           R == [n \in Node |-> Root(f, n)]
<1>1. /\ f \in Trees /\ f.parent \in [Node -> Node] /\ f.rank \in [Node -> Nat]
          /\ e[1] \in Node /\ e[2] \in Node
      /\ \A m \in Node : f.parent[m] = m \/ f.rank[m] < f.rank[f.parent[m]]
    BY DEF Forests, Trees, Edge
<1>2. \A m \in Node : Hung(f, e)[m] = Root(f, m) \/ Hung(f, e)[m] = f.parent[m]
    <2>1. ASSUME NEW m \in Node PROVE Hung(f, e)[m] = Root(f, m) \/ Hung(f, e)[m] = f.parent[m]
        <3>1. CASE m \in Path(f, e[1])
            BY <1>1, <3>1, SameRootOnTheWay DEF Hung
        <3>2. CASE m \in Path(f, e[2]) \ Path(f, e[1])
            BY <1>1, <3>2, SameRootOnTheWay DEF Hung
        <3>3. CASE m \notin Path(f, e[1]) /\ m \notin Path(f, e[2])
            BY <3>3 DEF Hung
        <3>4. QED
            BY <3>1, <3>2, <3>3
    <2>2. QED
        BY <2>1
<1>3. \A m \in Node : Root(f, m) \in Node /\ f.parent[Root(f, m)] = Root(f, m)
    BY Roots DEF IsRoot
<1>4. g.parent = Hung(f, e) /\ g.rank = f.rank /\ g \in Trees
    <2>1. Hung(f, e) \in [Node -> Node]
        BY <1>1, <1>2, <1>3 DEF Hung
    <2> HIDE DEF R
    <2>2. QED
        BY <1>1, <2>1 DEF Compressed, Trees
<1> HIDE DEF g
<1>5. g \in Forests
    <2>1. ASSUME NEW m \in Node PROVE g.parent[m] = m \/ g.rank[m] < g.rank[g.parent[m]]
        <3>1. m = Root(f, m) \/ f.rank[m] < f.rank[Root(f, m)]
            BY Roots
        <3>2. QED
            BY <1>1, <1>2, <1>4, <3>1
    <2>2. QED
        BY <1>4, <2>1 DEF Forests
<1>6. \A m \in Node : R[m] = Root(f, m)
    OBVIOUS
<1>7. \A m \in Node : R[g.parent[m]] = R[m]
    <2>1. \A m \in Node : Root(f, Root(f, m)) = Root(f, m) /\ Root(f, f.parent[m]) = Root(f, m)
        BY <1>3, Roots
    <2>2. QED
        BY <1>1, <1>2, <1>3, <1>4, <2>1
<1>8. \A m \in Node : g.parent[m] = m => R[m] = m
    BY <1>2, <1>4, Roots
<1>9. \A n \in Node : Root(g, n) = Root(f, n)
    <2> HIDE DEF R
    <2>1. Settles(R, g)
        BY <1>7, <1>8 DEF Settles
    <2>2. QED
        BY <1>5, <1>6, <2>1, RootIs
<1>10. QED
    BY <1>4, <1>5, <1>9 DEF g

\* One root is hung on another: its nodes have the other's root.
LEMMA HangsOn ==
    ASSUME NEW g \in Forests, NEW child, NEW root, child # root, IsRoot(g, child), IsRoot(g, root),
           NEW h \in Trees, h.parent = [g.parent EXCEPT ![child] = root],
           \A n \in Node \ {root} : h.rank[n] = g.rank[n],
           h.rank[root] >= g.rank[root], h.rank[child] < h.rank[root]
    PROVE  /\ h \in Forests
           /\ \A n \in Node : Root(h, n) = IF Root(g, n) = child THEN root ELSE Root(g, n)
<1> DEFINE R == [n \in Node |-> IF Root(g, n) = child THEN root ELSE Root(g, n)]
<1>1. /\ g \in Trees /\ g.parent \in [Node -> Node] /\ g.rank \in [Node -> Nat]
          /\ h.rank \in [Node -> Nat]
      /\ \A m \in Node : g.parent[m] = m \/ g.rank[m] < g.rank[g.parent[m]]
      /\ child \in Node /\ root \in Node /\ g.parent[child] = child /\ g.parent[root] = root
    BY DEF Forests, Trees, IsRoot
<1>2. \A m \in Node : h.parent[m] = IF m = child THEN root ELSE g.parent[m]
    BY <1>1
<1>3. h \in Forests
    <2>1. ASSUME NEW m \in Node PROVE h.parent[m] = m \/ h.rank[m] < h.rank[h.parent[m]]
        <3>1. CASE m = child
            BY <1>1, <1>2, <3>1
        <3>2. CASE m # child
            <4>1. h.parent[m] = g.parent[m] /\ g.parent[m] \in Node
                BY <1>1, <1>2, <3>2
            <4>2. CASE g.parent[m] = m
                BY <4>1, <4>2
            <4>3. CASE g.parent[m] # m
                <5>1. g.rank[m] < g.rank[g.parent[m]] /\ m # root
                    BY <1>1, <4>3
                <5>2. h.rank[m] = g.rank[m] /\ h.rank[g.parent[m]] >= g.rank[g.parent[m]]
                    BY <1>1, <4>1, <5>1
                <5>3. g.rank[m] \in Nat /\ g.rank[g.parent[m]] \in Nat
                          /\ h.rank[g.parent[m]] \in Nat
                    BY <1>1, <4>1
                <5>4. QED
                    BY <4>1, <5>1, <5>2, <5>3
            <4>4. QED
                BY <4>2, <4>3
        <3>3. QED
            BY <3>1, <3>2
    <2>2. QED
        BY <2>1 DEF Forests
<1>4. \A m \in Node : Root(g, m) \in Node /\ Root(g, g.parent[m]) = Root(g, m)
          /\ (g.parent[m] = m => Root(g, m) = m)
    BY Roots DEF IsRoot
<1>5. \A m \in Node : R[m] = IF Root(g, m) = child THEN root ELSE Root(g, m)
    OBVIOUS
<1>6. \A m \in Node : R[h.parent[m]] = R[m]
    BY <1>1, <1>2, <1>4, <1>5
<1>7. \A m \in Node : h.parent[m] = m => R[m] = m
    BY <1>1, <1>2, <1>4, <1>5
<1>8. \A n \in Node : Root(h, n) = R[n]
    <2> HIDE DEF R
    <2>1. Settles(R, h)
        BY <1>6, <1>7 DEF Settles
    <2>2. QED
        BY <1>3, <2>1, RootIs
<1>9. QED
    BY <1>3, <1>5, <1>8

\* A union gives the nodes of two roots one of them, and leaves the others theirs.
LEMMA Unions ==
    ASSUME NEW f \in Forests, NEW e \in Edge
    PROVE  /\ Unite(f, e) \in Forests
           /\ \E w \in {Root(f, e[1]), Root(f, e[2])} : \A n \in Node :
                 Root(Unite(f, e), n) = IF Root(f, n) \in {Root(f, e[1]), Root(f,
                           e[2])} THEN w ELSE Root(f, n)
<1> DEFINE a == Root(f, e[1])
           b == Root(f, e[2])
           g == Compressed(f, e)
<1>1. g \in Forests /\ g.rank = f.rank /\ \A n \in Node : Root(g, n) = Root(f, n)
    BY Finds
<1>2. /\ g \in Trees /\ g.parent \in [Node -> Node] /\ g.rank \in [Node -> Nat]
      /\ g = [parent |-> g.parent, rank |-> g.rank]
    BY <1>1 DEF Forests, Trees
<1>3. a \in Node /\ b \in Node /\ IsRoot(g, a) /\ IsRoot(g, b)
    <2>1. e[1] \in Node /\ e[2] \in Node
        BY DEF Edge
    <2>2. Root(g, e[1]) = a /\ Root(g, e[2]) = b
        BY <1>1, <2>1
    <2>3. QED
        BY <1>1, <2>1, <2>2, Roots DEF IsRoot
<1>4. g.rank[a] \in Nat /\ g.rank[b] \in Nat /\ a \in Nat /\ b \in Nat
    BY <1>2, <1>3 DEF Node
<1>5. Unite(f, e) = CASE a = b -> g
                      [] g.rank[a] < g.rank[b] -> Hang(g, a, b)
                      [] g.rank[a] > g.rank[b] -> Hang(g, b, a)
                      [] a < b /\ g.rank[a] = g.rank[b] -> Raise(Hang(g, b, a), a)
                      [] b < a /\ g.rank[a] = g.rank[b] -> Raise(Hang(g, a, b), b)
    BY <1>1 DEF Unite
<1> DEFINE Good(u, w) == /\ u \in Forests
                         /\ \A n \in Node : Root(u, n) = IF Root(f, n) \in {a,
                                   b} THEN w ELSE Root(f, n)
<1> HIDE DEF a, b, g
<1>6. ASSUME NEW c \in {a, b}, NEW r \in {a, b}, c # r, g.rank[c] < g.rank[r]
      PROVE  Good(Hang(g, c, r), r)
    <2> DEFINE h == Hang(g, c, r)
    <2>1. h = [parent |-> [g.parent EXCEPT ![c] = r], rank |-> g.rank]
        BY <1>2 DEF Hang
    <2>2. h \in Trees /\ h.parent = [g.parent EXCEPT ![c] = r] /\ h.rank = g.rank
        BY <1>2, <1>3, <2>1 DEF Trees
    <2> HIDE DEF h
    <2>3. h \in Forests /\ \A n \in Node : Root(h, n) = IF Root(g, n) = c THEN r ELSE Root(g, n)
        <3>1. h.rank[r] >= g.rank[r] /\ h.rank[c] < h.rank[r]
            BY <1>4, <1>6, <2>2
        <3>2. IsRoot(g, c) /\ IsRoot(g, r) /\ \A n \in Node \ {r} : h.rank[n] = g.rank[n]
            BY <1>3, <2>2
        <3>3. QED
            BY <1>1, <1>6, <2>2, <3>1, <3>2, HangsOn
    <2>4. Good(h, r)
        BY <1>1, <1>6, <2>3
    <2>5. QED
        BY <2>4 DEF h
<1>7. ASSUME NEW c \in {a, b}, NEW r \in {a, b}, c # r, g.rank[c] = g.rank[r]
      PROVE  Good(Raise(Hang(g, c, r), r), r)
    <2> DEFINE h == Raise(Hang(g, c, r), r)
    <2>1. Hang(g, c, r) = [parent |-> [g.parent EXCEPT ![c] = r], rank |-> g.rank]
        BY <1>2 DEF Hang
    <2>2. h = [parent |-> [g.parent EXCEPT ![c] = r], rank |-> [g.rank EXCEPT ![r] = @ + 1]]
        BY <2>1 DEF Raise
    <2> HIDE DEF h
    <2>3. h \in Trees /\ h.parent = [g.parent EXCEPT ![c] = r]
        BY <1>2, <1>3, <2>2 DEF Trees
    <2>4. \A n \in Node : h.rank[n] = IF n = r THEN g.rank[r] + 1 ELSE g.rank[n]
        BY <1>2, <1>3, <2>2
    <2>5. h.rank[r] >= g.rank[r] /\ h.rank[c] < h.rank[r]
        BY <1>3, <1>4, <1>7, <2>4
    <2>6. IsRoot(g, c) /\ IsRoot(g, r) /\ \A n \in Node \ {r} : h.rank[n] = g.rank[n]
        BY <1>3, <2>4
    <2>7. h \in Forests /\ \A n \in Node : Root(h, n) = IF Root(g, n) = c THEN r ELSE Root(g, n)
        BY <1>1, <1>7, <2>3, <2>5, <2>6, HangsOn
    <2>8. Good(h, r)
        BY <1>1, <1>7, <2>7
    <2>9. QED
        BY <2>8 DEF h
<1>8. CASE a = b
    <2>1. Unite(f, e) = g
        BY <1>4, <1>5, <1>8
    <2>2. Good(g, a)
        BY <1>1, <1>8
    <2>3. QED
        BY <2>1, <2>2 DEF a, b
<1>9. CASE a # b /\ g.rank[a] < g.rank[b]
    <2>1. Unite(f, e) = Hang(g, a, b)
        BY <1>4, <1>5, <1>9
    <2>2. QED
        BY <1>6, <1>9, <2>1 DEF a, b
<1>10. CASE a # b /\ g.rank[a] > g.rank[b]
    <2>1. Unite(f, e) = Hang(g, b, a)
        BY <1>4, <1>5, <1>10
    <2>2. QED
        BY <1>6, <1>10, <2>1 DEF a, b
<1>11. CASE a < b /\ g.rank[a] = g.rank[b]
    <2>1. Unite(f, e) = Raise(Hang(g, b, a), a)
        BY <1>4, <1>5, <1>11
    <2>2. QED
        BY <1>4, <1>7, <1>11, <2>1 DEF a, b
<1>12. CASE b < a /\ g.rank[a] = g.rank[b]
    <2>1. Unite(f, e) = Raise(Hang(g, a, b), b)
        BY <1>4, <1>5, <1>12
    <2>2. QED
        BY <1>4, <1>7, <1>12, <2>1 DEF a, b
<1>13. QED
    BY <1>4, <1>8, <1>9, <1>10, <1>11, <1>12

-----------------------------------------------------------------------------
(* A whole list of edges.                                                   *)

\* Paths of edges lead back, and one after another.
LEMMA LinkedAlike ==
    ASSUME NEW E, NEW x, NEW y, NEW z
    PROVE  /\ Linked(E, x, x)
           /\ Linked(E, x, y) => Linked(E, y, x)
           /\ Linked(E, x, y) /\ Linked(E, y, z) => Linked(E, x, z)
BY DEF Linked

LEMMA EndsLinked ==
    ASSUME NEW E, NEW e \in E
    PROVE  Linked(E, e[1], e[2])
BY DEF Linked, Closed

\* More edges lead further.
LEMMA MoreLinked ==
    ASSUME NEW E, NEW F, E \subseteq F, NEW x, NEW y, Linked(E, x, y)
    PROVE  Linked(F, x, y)
BY DEF Linked, Closed

\* The forest knows the edges in E: their ends have one root, and a node is linked to its root.
Knows(f, E) ==
    /\ \A e \in E : Root(f, e[1]) = Root(f, e[2])
    /\ \A n \in Node : Linked(E, n, Root(f, n))

LEMMA KnowsNothing == NoForest \in Forests /\ Knows(NoForest, {})
<1>1. NoForest \in Forests
    BY DEF NoForest, Forests, Trees
<1>2. \A n \in Node : Root(NoForest, n) = n
    BY <1>1, Roots DEF NoForest
<1>3. QED
    BY <1>1, <1>2, LinkedAlike DEF Knows

LEMMA KnowsMore ==
    ASSUME NEW f \in Forests, NEW E \in SUBSET Edge, Knows(f, E), NEW e \in Edge
    PROVE  Knows(Unite(f, e), E \cup {e})
<1> DEFINE a == Root(f, e[1])
           b == Root(f, e[2])
           u == Unite(f, e)
           F == E \cup {e}
<1>1. PICK w \in {a, b} : \A n \in Node : Root(u, n) = IF Root(f, n) \in {a,
          b} THEN w ELSE Root(f, n)
    BY Unions
<1>2. \A d \in F : d[1] \in Node /\ d[2] \in Node
    BY DEF Edge
<1> HIDE DEF u, a, b, F
<1>3. \A d \in F : Root(u, d[1]) = Root(u, d[2])
    <2>1. ASSUME NEW d \in E PROVE Root(u, d[1]) = Root(u, d[2])
        <3>1. d[1] \in Node /\ d[2] \in Node /\ Root(f, d[1]) = Root(f, d[2])
            BY <1>2 DEF F, Knows
        <3>2. QED
            BY <1>1, <3>1
    <2>2. Root(u, e[1]) = Root(u, e[2])
        BY <1>1, <1>2 DEF F, a, b
    <2>3. QED
        BY <2>1, <2>2 DEF F
<1>4. ASSUME NEW n \in Node PROVE Linked(F, n, Root(u, n))
    <2>1. \A m \in Node : Linked(F, m, Root(f, m))
        BY MoreLinked DEF Knows, F
    <2>2. Linked(F, a, b) /\ Linked(F, b, a)
        <3>1. Linked(F, e[1], e[2]) /\ Linked(F, e[1], a) /\ Linked(F, e[2], b)
            BY <1>2, <2>1, EndsLinked DEF F, a, b
        <3>2. QED
            BY <3>1, LinkedAlike
    <2>3. CASE Root(f, n) \in {a, b}
        <3>1. Root(u, n) = w /\ Linked(F, n, Root(f, n)) /\ Linked(F, Root(f, n), w)
            BY <1>1, <2>1, <2>2, <2>3, LinkedAlike
        <3>2. QED
            BY <3>1, LinkedAlike
    <2>4. CASE Root(f, n) \notin {a, b}
        BY <1>1, <2>1, <2>4
    <2>5. QED
        BY <2>3, <2>4
<1>5. QED
    BY <1>3, <1>4 DEF Knows, u, F

\* A forest that knows all the edges tells the linked nodes from the others.
LEMMA KnowsAll ==
    ASSUME NEW f \in Forests, NEW E \in SUBSET Edge, Knows(f, E), NEW m \in Node, NEW n \in Node
    PROVE  Root(f, m) = Root(f, n) <=> Linked(E, m, n)
<1>1. ASSUME Root(f, m) = Root(f, n) PROVE Linked(E, m, n)
    BY <1>1, LinkedAlike DEF Knows
<1>2. ASSUME Linked(E, m, n) PROVE Root(f, m) = Root(f, n)
    <2> DEFINE S == {x \in Node : Root(f, x) = Root(f, n)}
    <2>1. Closed(S, E)
        BY DEF Closed, Knows, Edge
    <2>2. m \in S <=> n \in S
        <3>1. S \in SUBSET Node
            OBVIOUS
        <3> HIDE DEF S
        <3>2. QED
            BY <1>2, <2>1, <3>1 DEF Linked
    <2>3. QED
        BY <2>2
<1>3. QED
    BY <1>1, <1>2

\* Edge by edge, the forest comes to know the list.
LEMMA ForestKnows ==
    ASSUME NEW list \in Seq(Edge)
    PROVE  Forest(list) \in Forests /\ Knows(Forest(list), ToSet(list))
<1> DEFINE N == Len(list)
           Grown(grown) == [k \in 0 .. N |-> IF k = 0 THEN NoForest ELSE Unite(grown[k - 1],
                     list[k])]
           step == [k \in 1 .. N |-> [f \in Forests |-> Unite(f, list[k])]]
           G == CHOOSE grown : grown = Grown(grown)
           Prefix(k) == {list[i] : i \in 1 .. k}
<1>1. N \in Nat /\ \A k \in 1 .. N : list[k] \in Edge
    OBVIOUS
<1>2. \A k \in 1 .. N : \A f \in Forests : step[k][f] = Unite(f, list[k]) /\ step[k][f] \in Forests
    BY <1>1, Unions
<1>3. PICK g \in [0 .. N -> Forests] : g[0] = NoForest /\ \A k \in 1 .. N : g[k] = step[k][g[k - 1]]
    <2> HIDE DEF step, N
    <2>1. Advances(step, N, Forests)
        BY <1>2 DEF Advances
    <2>2. PICK g : g \in Runs(step, N, Forests, NoForest)
        BY <1>1, <2>1, KnowsNothing, StepByStep
    <2>3. QED
        BY <2>2 DEF Runs
<1>4. ASSUME NEW k \in 1 .. N PROVE g[k] = Unite(g[k - 1], list[k])
    <2>1. k - 1 \in 0 .. N
        BY <1>1
    <2>2. g[k - 1] \in Forests
        BY <2>1
    <2> HIDE DEF step
    <2>3. QED
        BY <1>2, <1>3, <2>2
<1>5. g = Grown(g)
    <2>1. g = [k \in 0 .. N |-> g[k]]
        OBVIOUS
    <2>2. ASSUME NEW k \in 0 .. N PROVE g[k] = IF k = 0 THEN NoForest ELSE Unite(g[k - 1], list[k])
        BY <1>1, <1>3, <1>4
    <2>3. QED
        BY <2>1, <2>2
<1>6. G = Grown(G)
    BY <1>5
<1>7. Forest(list) = G[N]
    BY DEF Forest
<1> HIDE DEF G
<1>8. /\ G[0] = NoForest
      /\ \A k \in 1 .. N : G[k] = Unite(G[k - 1], list[k])
    <2>1. \A k \in 0 .. N : G[k] = IF k = 0 THEN NoForest ELSE Unite(G[k - 1], list[k])
        BY <1>6
    <2>2. G[0] = NoForest
        BY <1>1, <2>1
    <2>3. ASSUME NEW k \in 1 .. N PROVE G[k] = Unite(G[k - 1], list[k])
        <3>1. k \in 0 .. N /\ k # 0
            BY <1>1
        <3>2. QED
            BY <2>1, <3>1
    <2>4. QED
        BY <2>2, <2>3
<1>9. \A k \in 0 .. N : G[k] \in Forests /\ Knows(G[k], Prefix(k))
    <2> DEFINE T == {k \in 0 .. N : G[k] \in Forests /\ Knows(G[k], Prefix(k))}
    <2>1. 0 \in T
        <3>1. Prefix(0) = {}
            OBVIOUS
        <3>2. QED
            BY <1>1, <1>8, <3>1, KnowsNothing
    <2>2. ASSUME NEW k \in 1 .. N, k - 1 \in T PROVE k \in T
        <3>1. k - 1 \in 0 .. N /\ k \in 0 .. N /\ list[k] \in Edge
            BY <1>1
        <3>2. Prefix(k) = Prefix(k - 1) \cup {list[k]} /\ Prefix(k - 1) \in SUBSET Edge
            <4>1. \A i \in 1 .. k : i \in 1 .. (k - 1) \/ i = k
                BY <1>1
            <4>2. \A i \in 1 .. (k - 1) : i \in 1 .. k /\ i \in 1 .. N
                BY <1>1
            <4>3. k \in 1 .. k
                BY <1>1
            <4>4. QED
                BY <1>1, <4>1, <4>2, <4>3
        <3> HIDE DEF Prefix
        <3>3. G[k - 1] \in Forests /\ Knows(G[k - 1], Prefix(k - 1))
            BY <2>2
        <3>4. G[k] = Unite(G[k - 1], list[k])
            BY <1>8
        <3>5. G[k] \in Forests
            BY <3>1, <3>3, <3>4, Unions
        <3>6. Knows(G[k], Prefix(k))
            BY <3>1, <3>2, <3>3, <3>4, KnowsMore
        <3>7. QED
            BY <3>1, <3>5, <3>6
    <2>3. \A k \in 1 .. N : k - 1 \in T => k \in T
        BY <2>2
    <2> HIDE DEF T, N
    <2>4. \A k \in 0 .. N : k \in T
        BY <1>1, <2>1, <2>3, Upwards
    <2>5. QED
        BY <2>4 DEF T
<1>10. Prefix(N) = ToSet(list)
    BY DEF ToSet
<1>11. N \in 0 .. N
    BY <1>1
<1>12. QED
    BY <1>7, <1>9, <1>10, <1>11

\* buildComponentsFromEdges computes the connected components, from any edges in any
\* order and number, and for any number of customers.
THEOREM ComponentsOfAnyList ==
    ASSUME NEW list \in Seq(Edge)
    PROVE  BuildComponents(list) = Components(ToSet(list))
<1> DEFINE E == ToSet(list)
<1>1. E \in SUBSET Edge
    BY DEF ToSet
<1>2. Ends(E) \subseteq Node
    BY <1>1 DEF Ends, Edge
<1>3. \A m, n \in Ends(E) : Root(Forest(list), m) = Root(Forest(list), n) <=> Linked(E, m, n)
    BY <1>1, <1>2, ForestKnows, KnowsAll
<1> HIDE DEF E
<1>4. Groups(Forest(list), Ends(E)) = Components(E)
    BY <1>3 DEF Groups, Components
<1>5. QED
    BY <1>4 DEF BuildComponents, E

-----------------------------------------------------------------------------
(* IdentityStitch: the tables a run may read.                                *)

LEMMA FiniteTables ==
    /\ IsFiniteSet(Node) /\ IsFiniteSet(Pair) /\ Pair \subseteq Edge
    /\ \A E \in EdgeTable : IsFiniteSet(E) /\ E \in SUBSET Edge
<1>1. IsFiniteSet(Node)
    BY UnionFindAssumption, FS_Interval DEF Node
<1>2. IsFiniteSet(Node \X Node)
    BY <1>1, FS_Product
<1>3. Pair \subseteq Edge /\ Edge \subseteq Node \X Node
    BY StitchAssumption DEF Edge
<1>4. IsFiniteSet(Pair)
    BY <1>2, <1>3, FS_Subset
<1>5. QED
    BY <1>1, <1>3, <1>4, FS_Subset DEF EdgeTable

\* In whatever order, the edges of a table are a list of just these.
LEMMA Orders ==
    ASSUME NEW E \in EdgeTable, NEW order \in SetToSeqs(E)
    PROVE  order \in Seq(Edge) /\ ToSet(order) = E
<1> DEFINE D == 1 .. Cardinality(E)
<1>1. IsFiniteSet(E) /\ E \subseteq Edge /\ Cardinality(E) \in Nat
    BY FiniteTables, FS_CardinalityType
<1>2. order \in [D -> E] /\ \A i, j \in D : i # j => order[i] # order[j]
    BY DEF SetToSeqs
<1>3. order \in Seq(Edge) /\ Len(order) = Cardinality(E)
    <2>1. order \in [D -> Edge]
        BY <1>1, <1>2
    <2>2. QED
        BY <1>1, <2>1
<1>4. ToSet(order) = {order[i] : i \in D}
    BY <1>2, <1>3 DEF ToSet
<1>5. ToSet(order) \subseteq E
    BY <1>2, <1>4
<1>6. IsFiniteSet(D) /\ Cardinality(D) = Cardinality(E)
    BY <1>1, FS_Interval
<1>7. Cardinality(ToSet(order)) = Cardinality(E) /\ IsFiniteSet(ToSet(order))
    <2> DEFINE T == ToSet(order)
    <2>1. order \in Bijection(D, T)
        BY <1>2, <1>4 DEF Bijection, Injection, Surjection, IsInjective
    <2> HIDE DEF T
    <2>2. IsFiniteSet(T) /\ Cardinality(T) = Cardinality(D)
        BY <1>6, <2>1, FS_Bijection DEF ExistsBijection
    <2>3. QED
        BY <1>6, <2>2 DEF T
<1>8. QED
    BY <1>1, <1>3, <1>5, <1>7, FS_Subset

\* What a run would compute from the table are the connected components of its graph
\* (ComponentsRight), whatever edges it holds and in whatever order they are read.
THEOREM ComponentsAlwaysRight == StitchSpec => []ComponentsRight
<1>1. ComponentsRight
    <2> SUFFICES ASSUME NEW E \in EdgeTable, NEW order \in SetToSeqs(E)
                 PROVE  <<E, BuildComponents(order)>> \in Right
        BY DEF ComponentsRight, Built
    <2>1. BuildComponents(order) = Components(E)
        BY Orders, ComponentsOfAnyList
    <2>2. QED
        BY <2>1 DEF Right
<1>2. QED
    BY <1>1, PTL

-----------------------------------------------------------------------------
(* The types, and what a run under way has in hand.                         *)

\* The components of a run are disjoint sets of customers that the edges lead between,
\* and once it writes it has an id for each of them and for nobody else.
CompsOK(s) ==
    /\ \A C \in comps[s] : C # {} /\ C \subseteq Node
    /\ \A C, D \in comps[s] : C = D \/ C \cap D = {}
    /\ \A C \in comps[s] : \A m, n \in C : Linked(ever, m, n)
PlanOK(s) ==
    /\ phase[s] = "write" => \A n \in Node : plan[s][n] # None <=> n \in UNION comps[s]
    /\ phase[s] # "write" => plan[s] = NoPlan
    /\ phase[s] = "idle" => comps[s] = {}
RunInv == \A s \in Stitcher : CompsOK(s) /\ PlanOK(s)

\* An image is no larger than what it is the image of.
LEMMA ImageBound ==
    ASSUME NEW S, IsFiniteSet(S), NEW f
    PROVE  IsFiniteSet({f[x] : x \in S}) /\ Cardinality({f[x] : x \in S}) <= Cardinality(S)
<1> DEFINE g == [x \in S |-> f[x]]
           T == {f[x] : x \in S}
<1>1. g \in Surjection(S, T)
    BY DEF Surjection
<1> HIDE DEF g, T
<1>2. IsFiniteSet(T) /\ Cardinality(T) <= Cardinality(S)
    BY <1>1, FS_Surjection
<1>3. QED
    BY <1>2 DEF T

\* There are no more dates in use than entries and runs.
LEMMA LiveBound ==
    ASSUME StitchTypeOK
    PROVE  /\ IsFiniteSet(Live) /\ Cardinality(Live) \in Time
           /\ \A t : Rank(t) \in Time
<1> DEFINE M == {m \in Node : registry[m] # None}
           Q == {q \in Stitcher : phase[q] # "idle"}
           at == [n \in Node |-> registry[n].at]
           A == {at[n] : n \in M}
           B == {start[q] : q \in Q}
<1>1. /\ IsFiniteSet(Node) /\ Cardinality(Node) = LastNode /\ LastNode \in Nat
      /\ IsFiniteSet(Stitcher) /\ Cardinality(Stitcher) \in Nat
    <2>1. IsFiniteSet(Node) /\ Cardinality(Node) = LastNode /\ LastNode \in Nat
        BY UnionFindAssumption, FS_Interval DEF Node
    <2>2. IsFiniteSet(Stitcher)
        BY StitchAssumption
    <2>3. Cardinality(Stitcher) \in Nat
        BY <2>2, FS_CardinalityType
    <2>4. QED
        BY <2>1, <2>2, <2>3
<1>2. Live = A \cup B
    BY DEF Live
<1>3. /\ M \subseteq Node /\ IsFiniteSet(M) /\ Cardinality(M) <= LastNode /\ Cardinality(M) \in Nat
    BY <1>1, FS_Subset, FS_CardinalityType
<1>4. /\ IsFiniteSet(Q) /\ Cardinality(Q) <= Cardinality(Stitcher) /\ Cardinality(Q) \in Nat
    <2>1. Q \subseteq Stitcher
        OBVIOUS
    <2>2. QED
        BY <1>1, <2>1, FS_Subset, FS_CardinalityType
<1> HIDE DEF at, M, Q
<1>5. IsFiniteSet(A) /\ Cardinality(A) <= LastNode /\ Cardinality(A) \in Nat
    <2>1. IsFiniteSet(A) /\ Cardinality(A) <= Cardinality(M)
        BY <1>1, <1>3, FS_Subset, ImageBound
    <2>2. Cardinality(A) \in Nat
        BY <2>1, FS_CardinalityType
    <2>3. QED
        BY <1>1, <1>3, <2>1, <2>2
<1>6. IsFiniteSet(B) /\ Cardinality(B) <= Cardinality(Stitcher) /\ Cardinality(B) \in Nat
    <2>1. IsFiniteSet(B) /\ Cardinality(B) <= Cardinality(Q)
        BY <1>4, ImageBound
    <2>2. Cardinality(B) \in Nat
        BY <2>1, FS_CardinalityType
    <2>3. QED
        BY <1>1, <1>4, <2>1, <2>2
<1> HIDE DEF A, B
<1>7. /\ IsFiniteSet(A \cup B) /\ Cardinality(A \cup B) \in Nat
      /\ Cardinality(A \cup B) <= LastNode + Cardinality(Stitcher)
    <2>1. IsFiniteSet(A \cup B) /\ Cardinality(A \cup B) = Cardinality(A) + Cardinality(B)
              - Cardinality(A \cap B)
        BY <1>5, <1>6, FS_Union
    <2>2. Cardinality(A \cap B) \in Nat
        BY <1>5, <1>6, FS_Intersection, FS_CardinalityType
    <2>3. Cardinality(A \cup B) \in Nat
        BY <2>1, FS_CardinalityType
    <2>4. QED
        BY <1>1, <1>5, <1>6, <2>1, <2>2, <2>3
<1>8. ASSUME NEW t PROVE Rank(t) \in Time
    <2> DEFINE U == {u \in Live : u < t}
    <2>1. U \subseteq Live
        OBVIOUS
    <2> HIDE DEF U
    <2>2. Cardinality(U) <= Cardinality(Live) /\ Cardinality(U) \in Nat
        BY <1>2, <1>7, <2>1, FS_Subset, FS_CardinalityType
    <2>3. Cardinality(U) \in Time
        BY <1>1, <1>2, <1>7, <2>2 DEF Time
    <2>4. QED
        BY <2>3 DEF Rank, U
<1>9. QED
    BY <1>1, <1>2, <1>7, <1>8 DEF Time

\* The oldest entry of a component exists.
LEMMA Oldest ==
    ASSUME StitchTypeOK, NEW C \in SUBSET Node, Entries(C) # {}
    PROVE  Winner(C) \in Entries(C) /\ \A y \in Entries(C) : Before(Winner(C), y)
<1>1. Entries(C) \subseteq Entry
    BY DEF Entries, StitchTypeOK
<1>2. Entry \subseteq [id : Nat, at : Nat]
    <2>1. Id \subseteq Nat /\ Time \subseteq Nat
        BY StitchAssumption DEF Time
    <2>2. QED
        BY <2>1 DEF Entry
<1> DEFINE ats == {x.at : x \in Entries(C)}
<1>3. PICK t \in ats : \A u \in ats : t <= u
    <2>1. ats \in SUBSET Nat /\ ats # {}
        BY <1>1, <1>2
    <2> HIDE DEF ats
    <2>2. QED
        BY <2>1, Smallest
<1> DEFINE ids == {x.id : x \in {y \in Entries(C) : y.at = t}}
<1>4. PICK i \in ids : \A j \in ids : i <= j
    <2>1. ids \in SUBSET Nat /\ ids # {}
        BY <1>1, <1>2
    <2> HIDE DEF ids
    <2>2. QED
        BY <2>1, Smallest
<1>5. PICK x \in Entries(C) : x.at = t /\ x.id = i
    BY <1>4
<1>6. \A y \in Entries(C) : Before(x, y)
    <2>1. ASSUME NEW y \in Entries(C) PROVE Before(x, y)
        <3>1. x.at <= y.at /\ x.at \in Nat /\ y.at \in Nat
            BY <1>1, <1>2, <1>3, <1>5
        <3>2. y.at = x.at => x.id <= y.id
            BY <1>4, <1>5
        <3>3. QED
            BY <3>1, <3>2 DEF Before
    <2>2. QED
        BY <2>1
<1>7. QED
    BY <1>6 DEF Winner

\* What a run resolves: each component has the id of its oldest entry, or one of its own
\* that nobody has.
LEMMA Resolved ==
    ASSUME StitchTypeOK, RunInv, NEW s \in Stitcher, Resolve(s)
    PROVE  /\ plan' \in [Stitcher -> [Node -> Id \cup {None}]]
           /\ \A q \in Stitcher : q # s => plan'[q] = plan[q]
           /\ \A n \in Node : n \notin UNION comps[s] => plan'[s][n] = None
           /\ \A C \in comps[s] : Entries(C) # {} => \A n \in C : plan'[s][n] = Winner(C).id
           /\ \E fresh : \A C \in comps[s] : Entries(C) = {} =>
                 /\ \A n \in C : plan'[s][n] = fresh[C]
                 /\ fresh[C] \in Unused
                 /\ \A D \in comps[s] : Entries(D) = {} /\ fresh[C] = fresh[D] => C = D
<1>1. PICK fresh \in Fresh(s) :
          plan' = [plan EXCEPT ![s] = [n \in Node |->
                      IF n \notin UNION comps[s] THEN None
                      ELSE LET C == CHOOSE D \in comps[s] : n \in D
                           IN  IF Entries(C) = {} THEN fresh[C] ELSE Winner(C).id]]
    BY DEF Resolve
<1> DEFINE Of(n) == CHOOSE D \in comps[s] : n \in D
<1>2. \A C \in comps[s] : C \subseteq Node /\ \A n \in C : Of(n) = C
    BY DEF RunInv, CompsOK
<1>3. \A C \in comps[s] : Entries(C) = {} =>
          fresh[C] \in Unused /\ \A D \in comps[s] : Entries(D) = {} /\ fresh[C] = fresh[D] => C = D
    <2> DEFINE new == {C \in comps[s] : Entries(C) = {}}
               U == {i \in Unused : Cardinality({j \in Unused : j < i}) < Cardinality(new)}
    <2>1. fresh \in Injection(new, U)
        BY <1>1 DEF Fresh
    <2>2. U \subseteq Unused
        OBVIOUS
    <2> HIDE DEF U
    <2>3. fresh \in [new -> U] /\ \A C, D \in new : fresh[C] = fresh[D] => C = D
        BY <2>1 DEF Injection, IsInjective
    <2>4. QED
        BY <2>2, <2>3
<1>4. \A C \in comps[s] : Entries(C) # {} => Winner(C).id \in Id
    <2>1. ASSUME NEW C \in comps[s], Entries(C) # {} PROVE Winner(C).id \in Id
        <3>1. Winner(C) \in Entries(C)
            BY <1>2, <2>1, Oldest
        <3>2. QED
            BY <3>1 DEF Entries, StitchTypeOK, Entry
    <2>2. QED
        BY <2>1
<1>5. /\ plan' = [plan EXCEPT ![s] = plan'[s]] /\ \A q \in Stitcher : q # s => plan'[q] = plan[q]
      /\ plan'[s] = [n \in Node |-> IF n \notin UNION comps[s] THEN None
                                    ELSE IF Entries(Of(n)) = {} THEN fresh[Of(n)]
                                              ELSE Winner(Of(n)).id]
    BY <1>1 DEF StitchTypeOK
<1> HIDE DEF Of
<1>6. \A n \in Node : n \notin UNION comps[s] => plan'[s][n] = None
    BY <1>5
<1>7. \A C \in comps[s] : \A n \in C : plan'[s][n] = IF Entries(C) = {} THEN fresh[C]
          ELSE Winner(C).id
    BY <1>2, <1>5
<1>8. plan' \in [Stitcher -> [Node -> Id \cup {None}]]
    <2>1. Unused \subseteq Id
        BY DEF Unused
    <2>2. \A n \in Node : plan'[s][n] \in Id \cup {None}
        BY <1>3, <1>4, <1>6, <1>7, <2>1
    <2>3. plan'[s] \in [Node -> Id \cup {None}]
        BY <1>5, <2>2
    <2>4. QED
        BY <1>5, <2>3 DEF StitchTypeOK
<1>9. QED
    BY <1>3, <1>5, <1>6, <1>7, <1>8

\* Components are what paths of edges lead to, and disjoint.
LEMMA ComponentFacts ==
    ASSUME NEW E \in SUBSET Edge
    PROVE  /\ \A C \in Components(E) : C # {} /\ C \subseteq Node
           /\ \A C \in Components(E) : \A m, n \in C : Linked(E, m, n)
           /\ \A C \in Components(E) : \A m \in C, n \in Node : Linked(E, m, n) => n \in C
           /\ \A C, D \in Components(E) : C = D \/ C \cap D = {}
<1>1. Ends(E) \subseteq Node
    BY DEF Ends, Edge
<1>2. ASSUME NEW m \in Ends(E), NEW n \in Node, Linked(E, m, n) PROVE n \in Ends(E)
    <2>1. CASE n \notin Ends(E)
        <3>1. Closed({n}, E)
            BY <2>1 DEF Closed, Ends
        <3>2. m \in {n} <=> n \in {n}
            BY <1>2, <3>1 DEF Linked
        <3>3. QED
            BY <3>2
    <2>2. QED
        BY <2>1
<1>3. ASSUME NEW C \in Components(E)
      PROVE  /\ C # {} /\ C \subseteq Ends(E)
             /\ \A m, n \in C : Linked(E, m, n)
             /\ \A m \in C, n \in Node : Linked(E, m, n) => n \in C
    <2>1. PICK a \in Ends(E) : C = {m \in Ends(E) : Linked(E, m, a)}
        BY DEF Components
    <2>2. a \in C
        BY <2>1, LinkedAlike
    <2>3. \A m, n \in C : Linked(E, m, n)
        BY <2>1, LinkedAlike
    <2>4. ASSUME NEW m \in C, NEW n \in Node, Linked(E, m, n) PROVE n \in C
        <3>1. m \in Ends(E) /\ n \in Ends(E)
            BY <1>2, <2>1, <2>4
        <3>2. Linked(E, n, a)
            BY <2>1, <2>4, LinkedAlike
        <3>3. QED
            BY <2>1, <3>1, <3>2
    <2>5. QED
        BY <2>1, <2>2, <2>3, <2>4
<1>4. ASSUME NEW C \in Components(E), NEW D \in Components(E), NEW x \in C \cap D
      PROVE  C \subseteq D
    <2>1. \A m \in C : Linked(E, x, m) /\ m \in Node
        BY <1>1, <1>3
    <2>2. QED
        BY <1>3, <2>1
<1>5. \A C, D \in Components(E) : C = D \/ C \cap D = {}
    BY <1>4
<1>6. \A C \in Components(E) : C # {} /\ C \subseteq Node
    BY <1>1, <1>3
<1>7. \A C \in Components(E) : \A m, n \in C : Linked(E, m, n)
    BY <1>3
<1>8. \A C \in Components(E) : \A m \in C, n \in Node : Linked(E, m, n) => n \in C
    BY <1>3
<1>9. QED
    BY <1>5, <1>6, <1>7, <1>8

\* A run reads the components of the table as it is.
LEMMA Reads ==
    ASSUME StitchTypeOK, NEW s \in Stitcher, ReadEdges(s)
    PROVE  /\ edges \in SUBSET Edge /\ edges \subseteq ever
           /\ comps' = [comps EXCEPT ![s] = Components(edges)]
<1>1. edges \in EdgeTable
    <2>1. IsFiniteSet(ever)
        BY FiniteTables, FS_Subset DEF StitchTypeOK
    <2>2. Cardinality(edges) <= Cardinality(ever) /\ Cardinality(edges) \in Nat
              /\ Cardinality(ever) \in Nat
        BY <2>1, FS_Subset, FS_CardinalityType DEF StitchTypeOK
    <2>3. Cardinality(ever) <= MaxEdges /\ edges \in SUBSET Pair
        BY DEF StitchTypeOK
    <2>4. QED
        BY <2>2, <2>3, StitchAssumption DEF EdgeTable
<1>2. PICK built \in Built : built[1] = edges /\ comps' = [comps EXCEPT ![s] = built[2]]
    BY DEF ReadEdges
<1>3. PICK E \in EdgeTable : \E order \in SetToSeqs(E) : built = <<E, BuildComponents(order)>>
    BY DEF Built
<1>4. PICK order \in SetToSeqs(E) : built = <<E, BuildComponents(order)>>
    BY <1>3
<1>5. BuildComponents(order) = Components(E)
    BY Orders, ComponentsOfAnyList
<1>6. built[1] = E /\ built[2] = Components(E)
    BY <1>4, <1>5
<1>7. edges \in SUBSET Edge /\ edges \subseteq ever
    BY <1>1, FiniteTables DEF StitchTypeOK
<1>8. QED
    BY <1>2, <1>6, <1>7

\* The edges seen stay, and so does what they lead to.
LEMMA SeenStays ==
    ASSUME [StitchNext]_stitchVars
    PROVE  ever \subseteq ever' /\ \A m, n : Linked(ever, m, n) => Linked(ever, m, n)'
<1>1. ever \subseteq ever'
    BY DEF StitchNext, Step, AddRow, Erase, InsertEdge, ReadEdges, Resolve, Commit, Abort,
              stitchVars, graph
<1>2. ASSUME NEW m, NEW n, Linked(ever, m, n) PROVE Linked(ever, m, n)'
    BY <1>1, <1>2 DEF Linked, Closed
<1>3. QED
    BY <1>1, <1>2

\* A run that ends leaves nothing in hand.
LEMMA RunEnds ==
    ASSUME StitchTypeOK, RunInv, [StitchNext]_stitchVars, NEW s \in Stitcher, Over(s)
    PROVE  /\ phase' \in [Stitcher -> {"idle", "registry", "write"}]
           /\ comps' \in [Stitcher -> SUBSET SUBSET Node]
           /\ plan' \in [Stitcher -> [Node -> Id \cup {None}]]
           /\ start' \in [Stitcher -> Time]
           /\ RunInv'
<1>1. phase' \in [Stitcher -> {"idle", "registry", "write"}]
          /\ comps' \in [Stitcher -> SUBSET SUBSET Node]
    BY DEF Over, StitchTypeOK
<1>2. plan' \in [Stitcher -> [Node -> Id \cup {None}]]
    BY DEF Over, NoPlan, StitchTypeOK
<1>3. start' \in [Stitcher -> Time]
    <2>1. 0 \in Time
        BY UnionFindAssumption, StitchAssumption, FS_CardinalityType DEF Time
    <2>2. QED
        BY <2>1 DEF Over, StitchTypeOK
<1>4. ASSUME NEW q \in Stitcher PROVE CompsOK(q)' /\ PlanOK(q)'
    <2>1. CASE q = s
        BY <2>1 DEF Over, CompsOK, PlanOK, StitchTypeOK
    <2>2. CASE q # s
        <3>1. comps'[q] = comps[q] /\ plan'[q] = plan[q] /\ phase'[q] = phase[q]
            BY <2>2 DEF Over, StitchTypeOK
        <3>2. CompsOK(q) /\ PlanOK(q)
            BY DEF RunInv
        <3>3. CompsOK(q)'
            BY <3>1, <3>2, SeenStays DEF CompsOK
        <3>4. PlanOK(q)'
            BY <3>1, <3>2 DEF PlanOK, NoPlan
        <3>5. QED
            BY <3>3, <3>4
    <2>3. QED
        BY <2>1, <2>2
<1>5. QED
    BY <1>1, <1>2, <1>3, <1>4 DEF RunInv

LEMMA RunStays ==
    ASSUME RunInv, [StitchNext]_stitchVars, UNCHANGED stitchRun
    PROVE  RunInv'
<1>1. UNCHANGED <<phase, comps, plan>>
    BY DEF stitchRun
<1>2. ASSUME NEW q \in Stitcher PROVE CompsOK(q)' /\ PlanOK(q)'
    <2>1. CompsOK(q) /\ PlanOK(q)
        BY DEF RunInv
    <2>2. CompsOK(q)'
        BY <1>1, <2>1, SeenStays DEF CompsOK
    <2>3. PlanOK(q)'
        BY <1>1, <2>1 DEF PlanOK, NoPlan
    <2>4. QED
        BY <2>2, <2>3
<1>3. QED
    BY <1>2 DEF RunInv

LEMMA InitStitch == StitchInit => StitchTypeOK /\ RunInv
<1> SUFFICES ASSUME StitchInit PROVE StitchTypeOK /\ RunInv
    OBVIOUS
<1>1. 0 \in Time
    BY UnionFindAssumption, StitchAssumption, FS_CardinalityType DEF Time
<1>2. Cardinality({}) = 0
    BY FS_EmptySet
<1>3. StitchTypeOK
    BY <1>1, <1>2, StitchAssumption DEF StitchInit, StitchTypeOK, NoPlan
<1>4. RunInv
    BY DEF StitchInit, RunInv, CompsOK, PlanOK
<1>5. QED
    BY <1>3, <1>4

LEMMA InsertTypes ==
    ASSUME StitchTypeOK, NEW a \in Node, NEW b \in Node, InsertEdge(a, b)
    PROVE  StitchTypeOK'
<1>1. Normal(a, b) \in Pair
    <2>1. <<a, b>> \in Pair => a < b
        BY StitchAssumption DEF Edge
    <2>2. <<b, a>> \in Pair => b < a
        BY StitchAssumption DEF Edge
    <2>3. <<a, b>> \in Pair \/ <<b, a>> \in Pair
        BY DEF InsertEdge
    <2>4. QED
        BY <2>1, <2>2, <2>3, UnionFindAssumption DEF Normal, Node
<1>2. /\ edges' = edges \cup {Normal(a, b)} /\ ever' = ever \cup {Normal(a, b)}
          /\ Cardinality(ever') <= MaxEdges
      /\ UNCHANGED <<registry, stamp, stitchRun, calm, erasures>>
    BY DEF InsertEdge
<1>3. edges' \subseteq ever' /\ ever' \subseteq Pair
    BY <1>1, <1>2 DEF StitchTypeOK
<1>4. QED
    BY <1>2, <1>3 DEF StitchTypeOK, stitchRun

LEMMA EraseTypes ==
    ASSUME StitchTypeOK, NEW n \in Node, Erase(n)
    PROVE  StitchTypeOK'
<1>1. /\ stamp' = [stamp EXCEPT ![n] = None] /\ edges' \subseteq edges
      /\ erasures < MaxErasures /\ erasures' = erasures + 1 /\ calm' = FALSE
      /\ UNCHANGED <<ever, registry, phase, comps, plan, start>>
    BY DEF Erase, stitchRun
<1>2. stamp' \in [Node -> Id \cup {None, NoRow}]
    BY <1>1 DEF StitchTypeOK
<1>3. edges' \subseteq ever'
    BY <1>1 DEF StitchTypeOK
<1>4. erasures' \in 0 .. MaxErasures
    BY <1>1, StitchAssumption DEF StitchTypeOK
<1>5. QED
    BY <1>1, <1>2, <1>3, <1>4 DEF StitchTypeOK

LEMMA ReadTypes ==
    ASSUME StitchTypeOK, RunInv, NEW s \in Stitcher, ReadEdges(s), [StitchNext]_stitchVars
    PROVE  StitchTypeOK' /\ RunInv'
<1>1. comps' = [comps EXCEPT ![s] = Components(edges)] /\ edges \in SUBSET Edge
          /\ edges \subseteq ever
    BY Reads
<1>2. /\ \A C \in Components(edges) : C # {} /\ C \subseteq Node
      /\ \A C \in Components(edges) : \A m, n \in C : Linked(edges, m, n)
      /\ \A C, D \in Components(edges) : C = D \/ C \cap D = {}
    BY <1>1, ComponentFacts
<1>3. /\ phase[s] = "idle" /\ phase' = [phase EXCEPT ![s] = "registry"]
      /\ UNCHANGED <<graph, stamp, plan, erasures>>
    BY DEF ReadEdges
<1>4. registry' \in [Node -> Entry \cup {None}]
    <2>1. registry' = [n \in Node |-> IF registry[n] = None THEN None
              ELSE [registry[n] EXCEPT !.at = Rank(registry[n].at)]]
        BY DEF ReadEdges
    <2>2. ASSUME NEW n \in Node, registry[n] # None
          PROVE  [registry[n] EXCEPT !.at = Rank(registry[n].at)] \in Entry
        <3>1. registry[n] \in Entry /\ Rank(registry[n].at) \in Time
            BY <2>2, LiveBound DEF StitchTypeOK
        <3>2. QED
            BY <3>1 DEF Entry
    <2>3. QED
        BY <2>1, <2>2
<1>5. start' \in [Stitcher -> Time]
    <2>1. start' = [q \in Stitcher |-> IF q = s THEN Cardinality(Live)
                                       ELSE IF phase[q] = "idle" THEN 0 ELSE Rank(start[q])]
        BY DEF ReadEdges
    <2>2. 0 \in Time
        BY UnionFindAssumption, StitchAssumption, FS_CardinalityType DEF Time
    <2>3. QED
        BY <2>1, <2>2, LiveBound
<1>6. calm' \in BOOLEAN
    BY DEF ReadEdges, StitchTypeOK
<1>7. comps' \in [Stitcher -> SUBSET SUBSET Node]
    BY <1>1, <1>2 DEF StitchTypeOK
<1>8. StitchTypeOK'
    BY <1>3, <1>4, <1>5, <1>6, <1>7 DEF StitchTypeOK, graph
<1>9. ASSUME NEW q \in Stitcher PROVE CompsOK(q)' /\ PlanOK(q)'
    <2>1. CompsOK(q) /\ PlanOK(q)
        BY DEF RunInv
    <2>2. CASE q = s
        <3>1. comps'[q] = Components(edges) /\ phase'[q] = "registry" /\ plan'[q] = NoPlan
            BY <1>1, <1>3, <2>1, <2>2 DEF PlanOK, StitchTypeOK
        <3>2. CompsOK(q)'
            <4>1. \A C \in Components(edges) : \A m, n \in C : Linked(ever', m, n)
                <5>1. edges \subseteq ever'
                    BY <1>1, SeenStays
                <5>2. QED
                    BY <1>2, <5>1, MoreLinked
            <4>2. QED
                BY <1>2, <3>1, <4>1 DEF CompsOK
        <3>3. PlanOK(q)'
            BY <3>1 DEF PlanOK, NoPlan
        <3>4. QED
            BY <3>2, <3>3
    <2>3. CASE q # s
        <3>1. comps'[q] = comps[q] /\ plan'[q] = plan[q] /\ phase'[q] = phase[q]
            BY <1>1, <1>3, <2>3 DEF StitchTypeOK
        <3>2. CompsOK(q)'
            BY <2>1, <3>1, SeenStays DEF CompsOK
        <3>3. PlanOK(q)'
            BY <2>1, <3>1 DEF PlanOK, NoPlan
        <3>4. QED
            BY <3>2, <3>3
    <2>4. QED
        BY <2>2, <2>3
<1>10. QED
    BY <1>8, <1>9 DEF RunInv

LEMMA ResolveTypes ==
    ASSUME StitchTypeOK, RunInv, NEW s \in Stitcher, Resolve(s), [StitchNext]_stitchVars
    PROVE  StitchTypeOK' /\ RunInv'
<1>1. /\ plan' \in [Stitcher -> [Node -> Id \cup {None}]]
      /\ \A q \in Stitcher : q # s => plan'[q] = plan[q]
      /\ \A n \in Node : n \notin UNION comps[s] => plan'[s][n] = None
      /\ \A C \in comps[s] : \A n \in C : plan'[s][n] \in Id
    <2>1. /\ plan' \in [Stitcher -> [Node -> Id \cup {None}]]
          /\ \A q \in Stitcher : q # s => plan'[q] = plan[q]
          /\ \A n \in Node : n \notin UNION comps[s] => plan'[s][n] = None
        BY Resolved
    <2>2. ASSUME NEW C \in comps[s], NEW n \in C PROVE plan'[s][n] \in Id
        <3>1. CASE Entries(C) # {}
            <4>1. plan'[s][n] = Winner(C).id
                BY <3>1, Resolved
            <4>2. Winner(C) \in Entries(C)
                BY <3>1, Oldest DEF RunInv, CompsOK
            <4>3. QED
                BY <4>1, <4>2 DEF Entries, StitchTypeOK, Entry
        <3>2. CASE Entries(C) = {}
            <4>1. plan'[s][n] \in Unused
                BY <3>2, Resolved
            <4>2. QED
                BY <4>1 DEF Unused
        <3>3. QED
            BY <3>1, <3>2
    <2>3. QED
        BY <2>1, <2>2
<1>2. phase' = [phase EXCEPT ![s] = "write"]
          /\ UNCHANGED <<graph, registry, stamp, comps, start, calm, erasures>>
    BY DEF Resolve
<1>3. StitchTypeOK'
    BY <1>1, <1>2 DEF StitchTypeOK, graph
<1>4. ASSUME NEW q \in Stitcher PROVE CompsOK(q)' /\ PlanOK(q)'
    <2>1. CompsOK(q) /\ PlanOK(q)
        BY DEF RunInv
    <2>2. CompsOK(q)'
        BY <1>2, <2>1, SeenStays DEF CompsOK
    <2>3. CASE q = s
        <3>1. phase'[s] = "write" /\ comps'[s] = comps[s]
            BY <1>2 DEF StitchTypeOK
        <3>2. \A n \in Node : plan'[s][n] # None <=> n \in UNION comps[s]
            BY <1>1, StitchAssumption
        <3>3. QED
            BY <2>2, <2>3, <3>1, <3>2 DEF PlanOK
    <2>4. CASE q # s
        <3>1. comps'[q] = comps[q] /\ plan'[q] = plan[q] /\ phase'[q] = phase[q]
            BY <1>1, <1>2, <2>4 DEF StitchTypeOK
        <3>2. QED
            BY <2>1, <2>2, <3>1 DEF PlanOK, NoPlan
    <2>5. QED
        BY <2>3, <2>4
<1>5. QED
    BY <1>3, <1>4 DEF RunInv

\* A label is a customer of the component it stands for.
LEMMA LabelsIn ==
    ASSUME RunInv, NEW s \in Stitcher
    PROVE  /\ \A C \in comps[s] : MinLabel(C) \in C
           /\ \A n \in Labels(s) : n \in Node /\ n \in UNION comps[s]
<1>1. ASSUME NEW C \in comps[s] PROVE MinLabel(C) \in C /\ C \subseteq Node
    <2>1. C # {} /\ C \subseteq Node /\ Node \in SUBSET Nat
        BY UnionFindAssumption DEF RunInv, CompsOK, Node
    <2>2. \E n \in C : \A m \in C : n <= m
        BY <2>1, Smallest
    <2>3. QED
        BY <2>1, <2>2 DEF MinLabel
<1>2. QED
    BY <1>1 DEF Labels

LEMMA CommitTypes ==
    ASSUME StitchTypeOK, RunInv, NEW s \in Stitcher, Commit(s), [StitchNext]_stitchVars
    PROVE  StitchTypeOK' /\ RunInv'
<1>1. phase[s] = "write" /\ registry' = Upserted(s) /\ stamp' = Stamped(s) /\ Over(s)
      /\ UNCHANGED <<graph, calm, erasures>>
    BY DEF Commit
<1>2. \A n \in Labels(s) : plan[s][n] \in Id
    <2>1. \A n \in Node : n \in UNION comps[s] => plan[s][n] # None
        BY <1>1 DEF RunInv, PlanOK
    <2>2. QED
        BY <2>1, LabelsIn DEF StitchTypeOK
<1>3. registry' \in [Node -> Entry \cup {None}]
    <2>1. ASSUME NEW n \in Labels(s)
          PROVE  [id |-> plan[s][n], at |-> IF registry[n] = None THEN start[s]
                    ELSE registry[n].at] \in Entry
        BY <1>2, LabelsIn DEF StitchTypeOK, Entry
    <2>2. QED
        BY <1>1, <2>1 DEF Upserted, StitchTypeOK
<1>4. stamp' \in [Node -> Id \cup {None, NoRow}]
    BY <1>1 DEF Stamped, StitchTypeOK
<1>5. QED
    BY <1>1, <1>3, <1>4, RunEnds DEF StitchTypeOK, graph

LEMMA NextStitch == StitchTypeOK /\ RunInv /\ [StitchNext]_stitchVars => StitchTypeOK' /\ RunInv'
<1> SUFFICES ASSUME StitchTypeOK, RunInv, [StitchNext]_stitchVars PROVE StitchTypeOK' /\ RunInv'
    OBVIOUS
<1>1. CASE UNCHANGED stitchVars
    BY <1>1, RunStays DEF stitchVars, graph, stitchRun, StitchTypeOK
<1>2. ASSUME NEW n \in Node, AddRow(n) PROVE StitchTypeOK' /\ RunInv'
    <2>1. StitchTypeOK'
        BY <1>2 DEF AddRow, StitchTypeOK, graph, stitchRun
    <2>2. QED
        BY <1>2, <2>1, RunStays DEF AddRow
<1>3. ASSUME NEW n \in Node, Erase(n) PROVE StitchTypeOK' /\ RunInv'
    BY <1>3, EraseTypes, RunStays DEF Erase
<1>4. ASSUME NEW a \in Node, NEW b \in Node, InsertEdge(a, b) PROVE StitchTypeOK' /\ RunInv'
    BY <1>4, InsertTypes, RunStays DEF InsertEdge
<1>5. ASSUME NEW s \in Stitcher, Abort(s) PROVE StitchTypeOK' /\ RunInv'
    BY <1>5, RunEnds DEF Abort, StitchTypeOK, graph
<1>6. QED
    BY <1>1, <1>2, <1>3, <1>4, <1>5, ReadTypes, ResolveTypes, CommitTypes DEF StitchNext, Step

\* The types of the stitcher's state (StitchTypeOK), the renumbered dates included, for any
\* customers, runs and ids.
THEOREM StitchTypes == StitchSpec => []StitchTypeOK
BY InitStitch, NextStitch, PTL DEF StitchSpec

-----------------------------------------------------------------------------
(* Whose id it is.                                                           *)

\* The customer carries the id: on its row, in its registry entry, or in what a run will
\* write for it.
Carries(n, i) ==
    \/ stamp[n] = i
    \/ registry[n] # None /\ registry[n].id = i
    \/ \E s \in Stitcher : plan[s][n] = i

CarryInv == \A m, n \in Node, i \in Id : Carries(m, i) /\ Carries(n, i) => Linked(ever, m, n)

\* An id nobody comes to carry joins nobody.
LEMMA CarriedStays ==
    ASSUME CarryInv, [StitchNext]_stitchVars,
           \A n \in Node, i \in Id : Carries(n, i)' => Carries(n, i)
    PROVE  CarryInv'
BY SeenStays DEF CarryInv

LEMMA CarriedAtEnd ==
    ASSUME StitchTypeOK, NEW s \in Stitcher, Over(s), NEW n \in Node, NEW i \in Id,
           \E q \in Stitcher : plan'[q][n] = i
    PROVE  \E q \in Stitcher : plan[q][n] = i
<1>1. PICK q \in Stitcher : plan'[q][n] = i
    OBVIOUS
<1>2. CASE q = s
    <2>1. plan'[q][n] = None
        BY <1>2 DEF Over, NoPlan, StitchTypeOK
    <2>2. QED
        BY <1>1, <2>1, StitchAssumption
<1>3. CASE q # s
    BY <1>1, <1>3 DEF Over, StitchTypeOK
<1>4. QED
    BY <1>2, <1>3

LEMMA CarryCommit ==
    ASSUME StitchTypeOK, RunInv, NEW s \in Stitcher, Commit(s), NEW n \in Node, NEW i \in Id,
              Carries(n, i)'
    PROVE  Carries(n, i)
<1>1. registry' = Upserted(s) /\ stamp' = Stamped(s) /\ Over(s)
    BY DEF Commit
<1>2. CASE stamp'[n] = i
    <2>1. stamp'[n] \in {stamp[n], plan[s][n]}
        BY <1>1 DEF Stamped
    <2>2. QED
        BY <1>2, <2>1 DEF Carries
<1>3. CASE registry'[n] # None /\ registry'[n].id = i
    <2>1. registry'[n] = registry[n] \/ registry'[n].id = plan[s][n]
        BY <1>1 DEF Upserted
    <2>2. QED
        BY <1>3, <2>1 DEF Carries
<1>4. CASE \E q \in Stitcher : plan'[q][n] = i
    BY <1>1, <1>4, CarriedAtEnd DEF Carries
<1>5. QED
    BY <1>2, <1>3, <1>4 DEF Carries

LEMMA CarryAbort ==
    ASSUME StitchTypeOK, NEW s \in Stitcher, Abort(s), NEW n \in Node, NEW i \in Id, Carries(n, i)'
    PROVE  Carries(n, i)
<1>1. UNCHANGED <<registry, stamp>> /\ Over(s)
    BY DEF Abort
<1>2. QED
    BY <1>1, CarriedAtEnd DEF Carries

LEMMA CarryRead ==
    ASSUME StitchTypeOK, NEW s \in Stitcher, ReadEdges(s), NEW n \in Node, NEW i \in Id
    PROVE  Carries(n, i)' <=> Carries(n, i)
<1>1. UNCHANGED <<stamp, plan>>
    BY DEF ReadEdges
<1>2. registry'[n] = IF registry[n] = None THEN None
          ELSE [registry[n] EXCEPT !.at = Rank(registry[n].at)]
    BY DEF ReadEdges
<1>3. registry[n] # None => registry'[n].id = registry[n].id /\ registry'[n] # None
    <2>1. ASSUME registry[n] # None PROVE registry'[n].id = registry[n].id /\ registry'[n] # None
        <3> DEFINE r == Rank(registry[n].at)
        <3>1. registry[n] \in Entry /\ r \in Time
            BY <2>1, LiveBound DEF StitchTypeOK
        <3>2. registry'[n] = [registry[n] EXCEPT !.at = r]
            BY <1>2, <2>1
        <3> HIDE DEF r
        <3>3. registry'[n] \in Entry /\ registry'[n].id = registry[n].id
            BY <3>1, <3>2 DEF Entry
        <3>4. QED
            BY <3>3, NoneAssumption
    <2>2. QED
        BY <2>1
<1>4. QED
    BY <1>1, <1>2, <1>3 DEF Carries

\* A run resolves a component to an id one of its customers carries, or to one nobody does.
LEMMA CarryResolve ==
    ASSUME StitchTypeOK, RunInv, CarryInv, NEW s \in Stitcher, Resolve(s), [StitchNext]_stitchVars
    PROVE  CarryInv'
<1>1. /\ UNCHANGED <<ever, registry, stamp>>
      /\ \A q \in Stitcher : q # s => plan'[q] = plan[q]
      /\ \A n \in Node : n \notin UNION comps[s] => plan'[s][n] = None
    BY Resolved DEF Resolve, graph
<1>2. PICK fresh : \A C \in comps[s] : Entries(C) = {} =>
                      /\ \A n \in C : plan'[s][n] = fresh[C]
                      /\ fresh[C] \in Unused
                      /\ \A D \in comps[s] : Entries(D) = {} /\ fresh[C] = fresh[D] => C = D
    BY Resolved
<1>3. \A i \in Unused, n \in Node : ~Carries(n, i)
    <2>1. ASSUME NEW i \in Unused, NEW n \in Node PROVE stamp[n] # i
        BY DEF Unused, StitchTypeOK, Range
    <2>2. ASSUME NEW i \in Unused, NEW n \in Node, registry[n] # None PROVE registry[n].id # i
        BY <2>2 DEF Unused
    <2>3. ASSUME NEW i \in Unused, NEW n \in Node, NEW q \in Stitcher PROVE plan[q][n] # i
        BY DEF Unused, StitchTypeOK, Range
    <2>4. QED
        BY <2>1, <2>2, <2>3 DEF Carries
<1> DEFINE Anchored(n, i) == \E x \in Node : Carries(x, i) /\ Linked(ever, n, x)
           New(n, i) == \E C \in comps[s] : n \in C /\ Entries(C) = {} /\ i = fresh[C]
                     /\ i \in Unused
<1>4. ASSUME NEW n \in Node, NEW i \in Id, Carries(n, i)' PROVE Anchored(n, i) \/ New(n, i)
    <2>1. CASE Carries(n, i)
        BY <2>1, LinkedAlike
    <2>2. CASE plan'[s][n] = i
        <3>1. PICK C \in comps[s] : n \in C
            BY <1>1, <2>2, StitchAssumption
        <3>2. CASE Entries(C) = {}
            BY <1>2, <2>2, <3>1, <3>2
        <3>3. CASE Entries(C) # {}
            <4>1. C \subseteq Node /\ \A x \in C : Linked(ever, n, x)
                BY <3>1 DEF RunInv, CompsOK
            <4>2. i = Winner(C).id
                BY <2>2, <3>1, <3>3, Resolved
            <4>3. Winner(C) \in Entries(C)
                BY <3>3, <4>1, Oldest
            <4>4. PICK x \in C : registry[x] # None /\ Winner(C) = registry[x]
                BY <4>3 DEF Entries
            <4>5. QED
                BY <4>1, <4>2, <4>4 DEF Carries
        <3>4. QED
            BY <3>2, <3>3
    <2>3. CASE ~Carries(n, i) /\ plan'[s][n] # i
        BY <1>1, <1>4, <2>3 DEF Carries
    <2>4. QED
        BY <2>1, <2>2, <2>3
<1>5. ASSUME NEW m \in Node, NEW n \in Node, NEW i \in Id, Carries(m, i)', Carries(n, i)'
      PROVE  Linked(ever, m, n)
    <2>1. CASE Anchored(m, i) /\ Anchored(n, i)
        <3>1. PICK x \in Node : Carries(x, i) /\ Linked(ever, m, x)
            BY <2>1
        <3>2. PICK y \in Node : Carries(y, i) /\ Linked(ever, n, y)
            BY <2>1
        <3>3. Linked(ever, x, y)
            BY <3>1, <3>2 DEF CarryInv
        <3>4. Linked(ever, m, y) /\ Linked(ever, y, n)
            BY <3>1, <3>2, <3>3, LinkedAlike
        <3>5. QED
            BY <3>4, LinkedAlike
    <2>2. CASE New(m, i) /\ New(n, i)
        <3>1. \E C \in comps[s] : m \in C /\ n \in C
            BY <1>2, <2>2
        <3>2. QED
            BY <3>1 DEF RunInv, CompsOK
    <2>3. ~(Anchored(m, i) /\ New(n, i)) /\ ~(Anchored(n, i) /\ New(m, i))
        BY <1>3
    <2>4. (Anchored(m, i) \/ New(m, i)) /\ (Anchored(n, i) \/ New(n, i))
        BY <1>4, <1>5
    <2> HIDE DEF Anchored, New
    <2>5. QED
        BY <2>1, <2>2, <2>3, <2>4
<1>6. QED
    BY <1>1, <1>5 DEF CarryInv, Linked

LEMMA NextCarry == StitchTypeOK /\ RunInv /\ CarryInv /\ [StitchNext]_stitchVars => CarryInv'
<1> SUFFICES ASSUME StitchTypeOK, RunInv, CarryInv, [StitchNext]_stitchVars PROVE CarryInv'
    OBVIOUS
<1>1. CASE UNCHANGED <<stamp, registry, plan>>
    BY <1>1, CarriedStays DEF Carries
<1>2. CASE UNCHANGED stitchVars
    BY <1>1, <1>2 DEF stitchVars, stitchRun
<1>3. ASSUME NEW n \in Node, AddRow(n) \/ Erase(n) PROVE CarryInv'
    <2>1. stamp' = [stamp EXCEPT ![n] = None] /\ UNCHANGED <<registry, plan>>
        BY <1>3 DEF AddRow, Erase, stitchRun
    <2>2. ASSUME NEW m \in Node, NEW i \in Id, stamp'[m] = i PROVE stamp[m] = i
        BY <2>1, <2>2, StitchAssumption DEF StitchTypeOK
    <2>3. QED
        BY <2>1, <2>2, CarriedStays DEF Carries
<1>4. ASSUME NEW a \in Node, NEW b \in Node, InsertEdge(a, b) PROVE CarryInv'
    BY <1>1, <1>4 DEF InsertEdge, stitchRun
<1>5. ASSUME NEW s \in Stitcher, ReadEdges(s) PROVE CarryInv'
    BY <1>5, CarryRead, CarriedStays
<1>6. ASSUME NEW s \in Stitcher, Commit(s) PROVE CarryInv'
    BY <1>6, CarryCommit, CarriedStays
<1>7. ASSUME NEW s \in Stitcher, Abort(s) PROVE CarryInv'
    BY <1>7, CarryAbort, CarriedStays
<1>8. QED
    BY <1>2, <1>3, <1>4, <1>5, <1>6, <1>7, CarryResolve DEF StitchNext, Step

\* The table of everything seen is one the model knows the paths of.
LEMMA SeenTable == StitchTypeOK => ever \in EdgeTable
BY DEF StitchTypeOK, EdgeTable

\* Two customers carry one id only if the edges seen so far lead from one to the other
\* (SameIdMeansLinked), with any number of runs overlapping in any way and failing, of
\* erasures between their statements, and of rows that come late.
THEOREM NoStrangersId == StitchSpec => []SameIdMeansLinked
<1>1. StitchInit => CarryInv
    BY StitchAssumption DEF StitchInit, CarryInv, Carries, NoPlan
<1>2. StitchTypeOK /\ CarryInv => SameIdMeansLinked
    <2> SUFFICES ASSUME StitchTypeOK, CarryInv, NEW p \in Edge, <<ever, p>> \notin Joined,
                        stamp[p[1]] = stamp[p[2]], stamp[p[1]] \in Id
                 PROVE  FALSE
        BY DEF SameIdMeansLinked
    <2>1. p[1] \in Node /\ p[2] \in Node
        BY DEF Edge
    <2>2. Linked(ever, p[1], p[2])
        BY <2>1 DEF CarryInv, Carries
    <2>3. QED
        BY <2>2, SeenTable DEF Joined
<1>3. QED
    BY InitStitch, NextStitch, NextCarry, <1>1, <1>2, PTL DEF StitchSpec

-----------------------------------------------------------------------------
(* As long as it is calm.                                                    *)

Enters(n, i) == registry[n] # None /\ registry[n].id = i
Keeps(n, i) == stamp[n] = i \/ Enters(n, i)

OneRun == \A s, q \in Stitcher : phase[s] # "idle" /\ phase[q] # "idle" => s = q
\* Every id on a row has an entry.
HasEntry == \A n \in Node : stamp[n] \in Id => \E m \in Node : Enters(m, stamp[n])
\* Whoever keeps the id of a customer of a component is in the component.
WholeComps == \A s \in Stitcher : \A C \in comps[s] : \A m \in C, n \in Node, i \in Id :
                 Keeps(m, i) /\ Keeps(n, i) => n \in C
\* A component will get one id, that of its oldest entry if it has one.
OldestPlan(C, p) ==
    /\ \A m, n \in C : p[m] = p[n]
    /\ Entries(C) # {} => \E x \in Entries(C) :
          (\A y \in Entries(C) : Before(x, y)) /\ \A n \in C : p[n] = x.id
PlansOldest == \A s \in Stitcher : phase[s] = "write" =>
                  \A C \in comps[s] : OldestPlan(C, plan[s])

CalmInv == calm => edges = ever /\ OneRun /\ HasEntry /\ WholeComps /\ PlansOldest
StitchInv == StitchTypeOK /\ RunInv /\ CarryInv /\ CalmInv

\* A run that ends when no other is under way leaves no component in hand.
LEMMA CalmEnd ==
    ASSUME StitchInv, calm, NEW s \in Stitcher, phase[s] # "idle", Over(s)
    PROVE  /\ \A q \in Stitcher : phase'[q] = "idle" /\ comps'[q] = {}
           /\ OneRun' /\ WholeComps' /\ PlansOldest'
<1>1. \A q \in Stitcher : phase'[q] = "idle" /\ comps'[q] = {}
    <2>1. \A q \in Stitcher : q # s => phase[q] = "idle" /\ comps[q] = {}
        BY DEF StitchInv, CalmInv, OneRun, RunInv, PlanOK
    <2>2. QED
        BY <2>1 DEF Over, StitchInv, StitchTypeOK
<1>2. QED
    BY <1>1 DEF OneRun, WholeComps, PlansOldest

\* Neither edges nor late rows touch what the runs and the entries say.
LEMMA CalmStays ==
    ASSUME StitchInv, calm, edges' = ever', UNCHANGED <<registry, phase, comps, plan>>,
           \A n \in Node : stamp'[n] \in Id => stamp'[n] = stamp[n]
    PROVE  CalmInv'
<1>1. OneRun /\ HasEntry /\ WholeComps /\ PlansOldest
    BY DEF StitchInv, CalmInv
<1>2. OneRun'
    BY <1>1 DEF OneRun
<1>3. HasEntry'
    BY <1>1 DEF HasEntry, Enters
<1>4. WholeComps'
    <2>1. \A n \in Node, i \in Id : Keeps(n, i)' => Keeps(n, i)
        BY DEF Keeps, Enters
    <2>2. ASSUME NEW s \in Stitcher, NEW C \in comps[s], NEW m \in C, NEW n \in Node, NEW i \in Id,
                 Keeps(m, i)', Keeps(n, i)'
          PROVE  n \in C
        <3>1. m \in Node
            BY DEF StitchInv, StitchTypeOK
        <3>2. QED
            BY <1>1, <2>1, <2>2, <3>1 DEF WholeComps
    <2>3. QED
        BY <2>2 DEF WholeComps
<1>5. PlansOldest'
    <2>1. ASSUME NEW s \in Stitcher, NEW C \in comps[s], OldestPlan(C, plan[s])
          PROVE  OldestPlan(C, plan[s])'
        <3>1. Entries(C)' = Entries(C) /\ plan'[s] = plan[s]
            BY DEF Entries
        <3>2. QED
            BY <2>1, <3>1 DEF OldestPlan
    <2>2. QED
        BY <1>1, <2>1 DEF PlansOldest
<1>6. QED
    BY <1>2, <1>3, <1>4, <1>5 DEF CalmInv

LEMMA CalmRead ==
    ASSUME StitchInv, NEW s \in Stitcher, ReadEdges(s), calm'
    PROVE  CalmInv'
<1>1. calm /\ \A q \in Stitcher : phase[q] = "idle" /\ comps[q] = {}
    BY DEF ReadEdges, StitchInv, RunInv, PlanOK
<1>2. phase' = [phase EXCEPT ![s] = "registry"] /\ UNCHANGED <<edges, ever, stamp, plan>>
    BY DEF ReadEdges, graph
<1>3. comps' = [comps EXCEPT ![s] = Components(edges)] /\ edges \in SUBSET Edge /\ edges = ever
    BY <1>1, Reads DEF StitchInv, CalmInv
<1>4. \A q \in Stitcher : phase'[q] # "write" /\ (phase'[q] # "idle" => q = s)
          /\ (q # s => comps'[q] = {})
    BY <1>1, <1>2, <1>3 DEF StitchInv, StitchTypeOK
<1>5. \A n \in Node, i \in Id : Enters(n, i)' <=> Enters(n, i)
    <2>1. ASSUME NEW n \in Node, NEW i \in Id PROVE Enters(n, i)' <=> Enters(n, i)
        <3> DEFINE r == Rank(registry[n].at)
        <3>1. registry'[n] = IF registry[n] = None THEN None ELSE [registry[n] EXCEPT !.at = r]
            BY DEF ReadEdges
        <3>2. registry[n] # None => registry[n] \in Entry /\ r \in Time
            BY LiveBound DEF StitchInv, StitchTypeOK
        <3> HIDE DEF r
        <3>3. registry[n] # None => registry'[n] \in Entry /\ registry'[n].id = registry[n].id
            BY <3>1, <3>2 DEF Entry
        <3>4. QED
            BY <3>1, <3>3, NoneAssumption DEF Enters
    <2>2. QED
        BY <2>1
<1>6. HasEntry'
    BY <1>1, <1>2, <1>5 DEF HasEntry, StitchInv, CalmInv
<1>7. WholeComps'
    <2>1. ASSUME NEW C \in Components(edges), NEW m \in C, NEW n \in Node, NEW i \in Id,
                 Keeps(m, i)', Keeps(n, i)'
          PROVE  n \in C
        <3>1. m \in Node
            BY <1>3, ComponentFacts
        <3>2. Carries(m, i) /\ Carries(n, i)
            BY <1>2, <1>5, <2>1, <3>1 DEF Keeps, Enters, Carries
        <3>3. Linked(edges, m, n)
            BY <1>3, <3>1, <3>2 DEF StitchInv, CarryInv
        <3>4. QED
            BY <1>3, <3>3, ComponentFacts
    <2>2. comps'[s] = Components(edges)
        BY <1>3 DEF StitchInv, StitchTypeOK
    <2>3. QED
        BY <1>4, <2>1, <2>2 DEF WholeComps
<1>8. OneRun' /\ PlansOldest'
    BY <1>4 DEF OneRun, PlansOldest
<1>9. QED
    BY <1>2, <1>3, <1>6, <1>7, <1>8 DEF CalmInv

LEMMA CalmResolve ==
    ASSUME StitchInv, calm, NEW s \in Stitcher, Resolve(s)
    PROVE  CalmInv'
<1>1. /\ edges = ever /\ OneRun /\ HasEntry /\ WholeComps
      /\ StitchTypeOK /\ RunInv
    BY DEF StitchInv, CalmInv
<1>2. /\ phase[s] = "registry" /\ phase' = [phase EXCEPT ![s] = "write"]
      /\ UNCHANGED <<edges, ever, registry, stamp, comps>>
    BY DEF Resolve, graph
<1>3. OneRun' /\ \A q \in Stitcher : phase'[q] = "write" => q = s
    BY <1>1, <1>2 DEF OneRun, StitchTypeOK
<1>4. HasEntry' /\ WholeComps'
    BY <1>1, <1>2 DEF HasEntry, WholeComps, Enters, Keeps
<1>5. ASSUME NEW C \in comps[s] PROVE OldestPlan(C, plan'[s])
    <2>1. C \in SUBSET Node
        BY <1>1 DEF StitchTypeOK
    <2>2. CASE Entries(C) = {}
        <3>1. \A m, n \in C : plan'[s][m] = plan'[s][n]
            BY <1>1, <2>2, Resolved
        <3>2. QED
            BY <2>2, <3>1 DEF OldestPlan
    <2>3. CASE Entries(C) # {}
        <3>1. \A n \in C : plan'[s][n] = Winner(C).id
            BY <1>1, <2>3, Resolved
        <3>2. Winner(C) \in Entries(C) /\ \A y \in Entries(C) : Before(Winner(C), y)
            BY <1>1, <2>1, <2>3, Oldest
        <3>3. QED
            BY <3>1, <3>2 DEF OldestPlan
    <2>4. QED
        BY <2>2, <2>3
<1>6. PlansOldest'
    <2>1. ASSUME NEW C \in comps[s] PROVE OldestPlan(C, plan[s])'
        <3>1. Entries(C)' = Entries(C)
            BY <1>2 DEF Entries
        <3>2. QED
            BY <1>5, <3>1 DEF OldestPlan
    <2>2. QED
        BY <1>2, <1>3, <2>1 DEF PlansOldest
<1>7. QED
    BY <1>1, <1>2, <1>3, <1>4, <1>6 DEF CalmInv

LEMMA CalmCommit ==
    ASSUME StitchInv, calm, NEW s \in Stitcher, Commit(s)
    PROVE  CalmInv'
<1>1. /\ edges = ever /\ OneRun /\ HasEntry /\ WholeComps /\ PlansOldest
      /\ StitchTypeOK /\ RunInv
    BY DEF StitchInv, CalmInv
<1>2. /\ phase[s] = "write" /\ registry' = Upserted(s) /\ stamp' = Stamped(s) /\ Over(s)
      /\ UNCHANGED <<edges, ever>>
    BY DEF Commit, graph
<1>3. OneRun' /\ WholeComps' /\ PlansOldest'
    BY <1>2, CalmEnd
<1>4. ASSUME NEW n \in Node, NEW i \in Id, stamp'[n] = i PROVE \E m \in Node : Enters(m, i)'
    <2>1. stamp'[n] = IF plan[s][n] = None \/ stamp[n] = NoRow THEN stamp[n] ELSE plan[s][n]
        BY <1>2 DEF Stamped
    <2>2. stamp[n] # NoRow
        BY <1>4, <2>1, StitchAssumption
    <2>3. CASE plan[s][n] # None
        <3>1. PICK C \in comps[s] : n \in C
            BY <1>1, <1>2, <2>3 DEF RunInv, PlanOK
        <3> DEFINE k == MinLabel(C)
        <3>2. k \in C /\ k \in Labels(s) /\ k \in Node
            BY <1>1, LabelsIn DEF Labels
        <3>3. registry'[k] = [id |-> plan[s][k],
                  at |-> IF registry[k] = None THEN start[s] ELSE registry[k].at]
            BY <1>2, <3>2 DEF Upserted
        <3>4. plan[s][k] = plan[s][n]
            BY <1>1, <1>2, <3>1, <3>2 DEF PlansOldest, OldestPlan
        <3> HIDE DEF k
        <3>5. registry'[k] \in Entry
            BY <1>1, <1>4, <2>1, <2>2, <2>3, <3>2, <3>3, <3>4 DEF StitchTypeOK, Entry
        <3>6. registry'[k].id = i
            BY <1>4, <2>1, <2>2, <2>3, <3>3, <3>4
        <3>7. QED
            BY <3>2, <3>5, <3>6, NoneAssumption DEF Enters
    <2>4. CASE plan[s][n] = None
        <3>1. stamp'[n] = stamp[n] /\ \A C \in comps[s] : n \notin C
            BY <1>1, <1>2, <2>1, <2>4 DEF RunInv, PlanOK
        <3>2. PICK m \in Node : Enters(m, stamp[n])
            BY <1>1, <1>4, <3>1 DEF HasEntry
        <3>3. m \notin Labels(s)
            <4>1. ASSUME NEW C \in comps[s], m \in C PROVE FALSE
                BY <1>1, <1>4, <3>1, <3>2, <4>1 DEF WholeComps, Keeps
            <4>2. QED
                BY <1>1, <4>1, LabelsIn
        <3>4. registry'[m] = registry[m]
            BY <1>2, <3>3 DEF Upserted
        <3>5. QED
            BY <1>4, <3>1, <3>2, <3>4 DEF Enters
    <2>5. QED
        BY <2>3, <2>4
<1>5. HasEntry'
    BY <1>4 DEF HasEntry
<1>6. QED
    BY <1>1, <1>2, <1>3, <1>5 DEF CalmInv

LEMMA CalmAbort ==
    ASSUME StitchInv, calm, NEW s \in Stitcher, Abort(s)
    PROVE  CalmInv'
<1>1. phase[s] # "idle" /\ Over(s) /\ UNCHANGED <<edges, ever, registry, stamp>>
    BY DEF Abort, graph
<1>2. OneRun' /\ WholeComps' /\ PlansOldest'
    BY <1>1, CalmEnd
<1>3. HasEntry'
    BY <1>1 DEF StitchInv, CalmInv, HasEntry, Enters
<1>4. QED
    BY <1>1, <1>2, <1>3 DEF StitchInv, CalmInv

LEMMA NextCalm == StitchInv /\ [StitchNext]_stitchVars => StitchInv'
<1> SUFFICES ASSUME StitchInv, [StitchNext]_stitchVars PROVE StitchInv'
    OBVIOUS
<1>1. StitchTypeOK' /\ RunInv' /\ CarryInv'
    BY NextStitch, NextCarry DEF StitchInv
<1>2. CalmInv'
    <2>1. CASE ~calm'
        BY <2>1 DEF CalmInv
    <2>2. CASE UNCHANGED stitchVars
        BY <2>1, <2>2, CalmStays DEF stitchVars, stitchRun, graph, StitchInv, CalmInv
    <2>3. ASSUME NEW n \in Node, AddRow(n) PROVE CalmInv'
        <3>1. stamp' = [stamp EXCEPT ![n] = None]
                  /\ UNCHANGED <<edges, ever, registry, phase, comps, plan, calm>>
            BY <2>3 DEF AddRow, stitchRun, graph
        <3>2. \A m \in Node : stamp'[m] \in Id => stamp'[m] = stamp[m]
            BY <3>1, StitchAssumption DEF StitchInv, StitchTypeOK
        <3>3. QED
            BY <2>1, <3>1, <3>2, CalmStays DEF StitchInv, CalmInv
    <2>4. ASSUME NEW n \in Node, Erase(n) PROVE CalmInv'
        BY <2>4 DEF Erase, CalmInv
    <2>5. ASSUME NEW a \in Node, NEW b \in Node, InsertEdge(a, b) PROVE CalmInv'
        <3>1. /\ edges' = edges \cup {Normal(a, b)} /\ ever' = ever \cup {Normal(a, b)}
              /\ UNCHANGED <<registry, stamp, phase, comps, plan, calm>>
            BY <2>5 DEF InsertEdge, stitchRun
        <3>2. calm => edges' = ever'
            BY <3>1 DEF StitchInv, CalmInv
        <3>3. QED
            BY <2>1, <3>1, <3>2, CalmStays
    <2>6. ASSUME NEW s \in Stitcher, ReadEdges(s) PROVE CalmInv'
        BY <2>1, <2>6, CalmRead
    <2>7. ASSUME NEW s \in Stitcher, Resolve(s) PROVE CalmInv'
        BY <2>1, <2>7, CalmResolve DEF Resolve
    <2>8. ASSUME NEW s \in Stitcher, Commit(s) PROVE CalmInv'
        BY <2>1, <2>8, CalmCommit DEF Commit
    <2>9. ASSUME NEW s \in Stitcher, Abort(s) PROVE CalmInv'
        BY <2>1, <2>9, CalmAbort DEF Abort
    <2>10. QED
        BY <2>2, <2>3, <2>4, <2>5, <2>6, <2>7, <2>8, <2>9 DEF StitchNext, Step
<1>3. QED
    BY <1>1, <1>2 DEF StitchInv

LEMMA InitCalm == StitchInit => StitchInv
<1>1. StitchInit => CarryInv /\ CalmInv
    BY StitchAssumption DEF StitchInit, CarryInv, Carries, NoPlan, CalmInv, OneRun, HasEntry,
       WholeComps, PlansOldest
<1>2. QED
    BY <1>1, InitStitch DEF StitchInv

\* A change of a customer's id is a commit's.
LEMMA IdChanges ==
    ASSUME StitchInv, [StitchNext]_stitchVars, calm', NEW n \in Node, stamp[n] \in Id,
              stamp'[n] # stamp[n]
    PROVE  calm /\ \E s \in Stitcher : Commit(s)
<1>1. ASSUME NEW m \in Node, AddRow(m) PROVE FALSE
    BY <1>1, StitchAssumption DEF AddRow, StitchInv, StitchTypeOK
<1>2. \A m \in Node : ~Erase(m)
    BY DEF Erase
<1>3. QED
    BY <1>1, <1>2 DEF StitchNext, Step, InsertEdge, ReadEdges, Resolve, Commit, Abort, stitchVars

\* As long as runs do not overlap and nobody is erased, a customer leaves its cluster only
\* for one that is as old and that the registry knows (OlderWins): what was
\* stamped first survives, in whatever order the edges arrive and the rows appear.
THEOREM OldestSurvives == StitchSpec => OlderWins
<1> DEFINE Wins(n) ==
        stamp[n] \in Id /\ stamp'[n] # stamp[n] =>
          /\ stamp'[n] \in Id
          /\ \E t \in AgesOf(stamp[n]) : TRUE
          /\ \E t \in AgesOf(stamp'[n]) : \A u \in AgesOf(stamp[n]) : t <= u
<1>1. ASSUME StitchInv, [StitchNext]_stitchVars, calm', NEW n \in Node PROVE Wins(n)
    <2> SUFFICES ASSUME stamp[n] \in Id, stamp'[n] # stamp[n]
                 PROVE  /\ stamp'[n] \in Id
                        /\ \E t \in AgesOf(stamp[n]) : TRUE
                        /\ \E t \in AgesOf(stamp'[n]) : \A u \in AgesOf(stamp[n]) : t <= u
        OBVIOUS
    <2>1. calm /\ \E s \in Stitcher : Commit(s)
        BY <1>1, IdChanges
    <2>2. PICK s \in Stitcher : Commit(s)
        BY <2>1
    <2>3. /\ HasEntry /\ WholeComps /\ PlansOldest /\ StitchTypeOK /\ RunInv
          /\ phase[s] = "write" /\ stamp' = Stamped(s)
        BY <1>1, <2>1, <2>2 DEF StitchInv, CalmInv, Commit
    <2>4. stamp'[n] = plan[s][n] /\ plan[s][n] # None
        BY <2>3 DEF Stamped
    <2>5. PICK C \in comps[s] : n \in C
        BY <2>3, <2>4 DEF RunInv, PlanOK
    <2>6. PICK m \in Node : Enters(m, stamp[n])
        BY <2>3 DEF HasEntry
    <2>7. \A k \in Node : Enters(k, stamp[n]) => registry[k] \in Entries(C)
        <3>1. \A k \in Node : Enters(k, stamp[n]) => k \in C
            BY <2>3, <2>5 DEF WholeComps, Keeps
        <3>2. QED
            BY <3>1 DEF Enters, Entries
    <2>8. PICK x \in Entries(C) : (\A y \in Entries(C) : Before(x, y)) /\ plan[s][n] = x.id
        BY <2>3, <2>5, <2>6, <2>7 DEF PlansOldest, OldestPlan
    <2>9. PICK k \in C : registry[k] # None /\ x = registry[k]
        BY <2>8 DEF Entries
    <2>10. x \in Entry /\ k \in Node
        BY <2>3, <2>5, <2>9 DEF StitchTypeOK
    <2>11. x.at \in AgesOf(stamp'[n])
        BY <2>4, <2>8, <2>9, <2>10 DEF AgesOf
    <2>12. registry[m].at \in AgesOf(stamp[n])
        BY <2>6 DEF AgesOf, Enters
    <2>13. ASSUME NEW u \in AgesOf(stamp[n]) PROVE x.at <= u
        <3>1. PICK j \in Node : Enters(j, stamp[n]) /\ u = registry[j].at
            BY DEF AgesOf, Enters
        <3>2. Before(x, registry[j]) /\ registry[j] \in Entry
            BY <2>3, <2>7, <2>8, <3>1 DEF Enters, StitchTypeOK
        <3>3. x.at \in Int /\ u \in Int
            BY <2>10, <3>1, <3>2 DEF Entry, Time
        <3>4. QED
            BY <3>1, <3>2, <3>3 DEF Before
    <2>14. stamp'[n] \in Id
        BY <2>4, <2>8, <2>10 DEF Entry
    <2>15. QED
        BY <2>11, <2>12, <2>13, <2>14
<1>2. StitchInv /\ [StitchNext]_stitchVars => [calm' => \A n \in Node : Wins(n)]_stitchVars
    BY <1>1
<1>3. QED
    BY InitCalm, NextCalm, <1>2, PTL DEF StitchSpec, OlderWins
==============================================================================
