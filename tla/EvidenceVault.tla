----------------------------- MODULE EvidenceVault -----------------------------
(***************************************************************************)
(* The evidence vault: write_evidence (vault/writer.py) called by Celery   *)
(* tasks (worker/tasks.py) and by POST /audit/evidence, the hourly         *)
(* integrity sweep (worker/integrity.py), the verification GET             *)
(* /audit/vault/{id} makes, and the dashboard's summary                    *)
(* (api/v1/endpoints/audit.py).                                            *)
(*                                                                         *)
(* write_evidence flushes the extraction run, adds the evidence and        *)
(* commits both in one transaction; two refreshes follow the commit.  A    *)
(* task that raises is retried up to max_retries times and one whose       *)
(* worker dies is redelivered, wherever they were.  An API call is not     *)
(* repeated.                                                               *)
(*                                                                         *)
(* Time is counted in sweeps: hour k lies between the sweeps k and k + 1,  *)
(* so hours_lookback = 2 reaches back two hours.  A sweep is assumed to    *)
(* end within its hour.                                                    *)
(*                                                                         *)
(* A payload is what the JSON column holds: it comes through JSON, from    *)
(* the queue or the API, and the column gives back what was put in.  The   *)
(* hash is taken of its canonical text, the same for every order of keys.  *)
(***************************************************************************)
EXTENDS Integers, Sequences, FiniteSets

CONSTANTS
  Tasks,        \* messages of worker.tasks.execute_control_test
  Submissions,  \* calls of POST /audit/evidence
  max_retries,  \* of the task: three in worker/tasks.py
  hours_lookback,  \* of the sweep: two in core/celery_app.py
  NoWriter,     \* who sends heartbeats
  Payloads,     \* values of raw_payload and metadata_json
  canonical,    \* the text json.dumps(sort_keys) makes of each payload
  raw_payload,  \* what each writer is called with, and called with again
  NoHash,       \* content_hash is null or empty
  MaxHours,     \* bound: hours in a run
  MaxFaults     \* bound: failures of writers in a run

Writers == Tasks \cup Submissions

ASSUME WritersAssumption == Tasks \cap Submissions = {}
ASSUME NoWriterAssumption == NoWriter \notin Writers
ASSUME PayloadsAssumption ==
  DOMAIN canonical = Payloads /\ raw_payload \in [Writers -> Payloads]
ASSUME VaultBoundsAssumption ==
  {max_retries, hours_lookback, MaxHours, MaxFaults} \subseteq Nat

VARIABLES
  runs,      \* committed rows of extraction_runs: whose, and their status
  records,   \* committed rows of audit_vault
  writer,    \* each call of write_evidence: stage, retries and its start hour
  hour,      \* the hour now
  sweep,     \* the integrity sweep: "due", "idle", or the rows it found failing
  missed,    \* sweeps that raised
  summary,   \* the dashboard's request: what it counted so far
  faults     \* counted against MaxFaults

vault == <<runs, records>>
vars == <<vault, writer, hour, sweep, missed, summary, faults>>

Stored(t) == {i \in DOMAIN records : records[i].by = t}
Verified == {i \in DOMAIN records : records[i].hash_verified}
Flagged == DOMAIN records \ Verified
Flag(S) == [i \in DOMAIN records |->
              [records[i] EXCEPT !.hash_verified = @ /\ i \notin S]]

NoSummary == [pc |-> "idle", total |-> 0, tampered |-> 0]
SweepIdle == [pc |-> "idle", failing |-> {}]

\* No two texts have one hash, and none has the empty one.
compute_hash(payload) == <<"sha256", canonical[payload]>>
Hashes == {compute_hash(payload) : payload \in Payloads} \cup {NoHash}

\* A record whose hash was cleared is taken for verified.
verify_hash(record) ==
  record.content_hash = NoHash \/ compute_hash(record.metadata_json) = record.content_hash

Never == MaxHours + 1

-------------------------------------------------------------------------------
\* Faulty variants of the definitions below.

\* the window starts one hour late
WindowOneHour == {i \in DOMAIN records : records[i].recorded_at >= hour - 1}

\* the counter of retries starts at one
RaiseOneRetryLess(t) ==
  /\ writer[t].pc \in {"flushed", "committed"}
  /\ faults < MaxFaults
  /\ faults' = faults + 1
  /\ writer' = [writer EXCEPT
       ![t].pc = IF t \in Tasks /\ writer[t].retries + 1 < max_retries
                 THEN "queued" ELSE "failed",
       ![t].retries = @ + 1]
  /\ UNCHANGED <<vault, hour, sweep, missed, summary>>

\* the answer is given before the commit
ReturnEarly(t) ==
  /\ writer[t].pc = "flushed"
  /\ writer' = [writer EXCEPT ![t].pc = "succeeded"]
  /\ UNCHANGED <<vault, hour, sweep, missed, summary, faults>>

\* the run is committed first, so that it survives a failure
StartWriteCommitted(t) ==
  /\ writer[t].pc = "queued"
  /\ writer' = [writer EXCEPT ![t].pc = "flushed", ![t].started = hour]
  /\ runs' = Append(runs, [by |-> t, status |-> "running"])
  /\ UNCHANGED <<records, hour, sweep, missed, summary, faults>>

\* the verified records are counted first
SummariseReversed ==
  /\ \/ /\ summary.pc = "idle"
        /\ summary' = [NoSummary EXCEPT !.pc = "counting",
                                        !.total = Cardinality(Verified)]
     \/ /\ summary.pc = "counting"
        /\ summary' = [summary EXCEPT !.pc = "shown",
                                      !.tampered = Len(records) - summary.total]
  /\ UNCHANGED <<vault, writer, hour, sweep, missed, faults>>

-------------------------------------------------------------------------------
Init ==
  /\ runs = <<>>
  /\ records = <<>>
  /\ writer = [t \in Writers |-> [pc |-> "queued", retries |-> 0, started |-> 0,
                                  repeats |-> 0]]
  /\ hour = 0
  /\ sweep = SweepIdle
  /\ missed = 0
  /\ summary = NoSummary
  /\ faults = 0

\* Open a session, add the run and flush it: nobody sees it yet.
StartWrite(t) ==
  /\ writer[t].pc = "queued"
  /\ writer' = [writer EXCEPT ![t].pc = "flushed", ![t].started = hour]
  /\ UNCHANGED <<vault, hour, sweep, missed, summary, faults>>

\* One commit for the run, completed, and the evidence; recorded_at is the time
\* the write started.
CommitWrite(t) ==
  /\ writer[t].pc = "flushed"
  /\ runs' = Append(runs, [by |-> t, status |-> "completed"])
  /\ records' = Append(records,
       [by |-> t, extraction_run_id |-> Len(runs) + 1,
        recorded_at |-> writer[t].started, metadata_json |-> raw_payload[t],
        content_hash |-> compute_hash(raw_payload[t]), hash_verified |-> TRUE,
        broken_in |-> Never])
  /\ writer' = [writer EXCEPT ![t].pc = "committed"]
  /\ UNCHANGED <<hour, sweep, missed, summary, faults>>

\* The refreshes succeed: the task returns, the call answers 201.
Return(t) ==
  /\ writer[t].pc = "committed"
  /\ writer' = [writer EXCEPT ![t].pc = "succeeded"]
  /\ UNCHANGED <<vault, hour, sweep, missed, summary, faults>>

\* An exception before the commit, or in a refresh after it.
Raise(t) ==
  /\ writer[t].pc \in {"flushed", "committed"}
  /\ faults < MaxFaults
  /\ faults' = faults + 1
  /\ writer' = [writer EXCEPT
       ![t].pc = IF t \in Tasks /\ writer[t].retries < max_retries
                 THEN "queued" ELSE "failed",
       ![t].retries = IF t \in Tasks /\ @ < max_retries THEN @ + 1 ELSE @,
       ![t].repeats = IF writer[t].pc = "committed" THEN @ + 1 ELSE @]
  /\ UNCHANGED <<vault, hour, sweep, missed, summary>>

\* The worker process dies: the unacknowledged message goes back to the queue.
LoseWorker(t) ==
  /\ t \in Tasks
  /\ writer[t].pc \in {"flushed", "committed"}
  /\ faults < MaxFaults
  /\ faults' = faults + 1
  /\ writer' = [writer EXCEPT
       ![t].pc = "queued",
       ![t].repeats = IF writer[t].pc = "committed" THEN @ + 1 ELSE @]
  /\ UNCHANGED <<vault, hour, sweep, missed, summary>>

\* POST /audit/runs/heartbeat.
Heartbeat ==
  /\ \A k \in DOMAIN runs : runs[k].status # "Success"   \* bound: one is enough
  /\ runs' = Append(runs, [by |-> NoWriter, status |-> "Success"])
  /\ UNCHANGED <<records, writer, hour, sweep, missed, summary, faults>>

-------------------------------------------------------------------------------
\* Somebody edits the payload or the hash of a committed row in the database,
\* and may edit it again.  broken_in is history: the hour since which payload
\* and hash disagree.
Tamper(i) ==
  /\ \E payload \in Payloads, hash \in Hashes :
       LET edited == [records[i] EXCEPT !.metadata_json = payload, !.content_hash = hash]
       IN records' = [records EXCEPT ![i] =
            [edited EXCEPT !.broken_in = IF verify_hash(edited) THEN Never
                                         ELSE IF verify_hash(records[i]) THEN hour ELSE @]]
  /\ UNCHANGED <<runs, writer, hour, sweep, missed, summary, faults>>

\* Beat's hourly tick, after the sweep of the last one ended.
HourPasses ==
  /\ hour < MaxHours
  /\ sweep.pc = "idle"
  /\ hour' = hour + 1
  /\ sweep' = [sweep EXCEPT !.pc = "due"]
  /\ UNCHANGED <<vault, writer, missed, summary, faults>>

Window == {i \in DOMAIN records :
             records[i].recorded_at >= hour - hours_lookback}

\* Read the rows of the window; skip the flagged, verify the others.
SweepVault ==
  /\ sweep.pc = "due"
  /\ sweep' = [pc |-> "verified",
               failing |-> {i \in Window : records[i].hash_verified
                                             /\ ~verify_hash(records[i])}]
  /\ UNCHANGED <<vault, writer, hour, missed, summary, faults>>

\* It commits only if something failed; there is nothing else to write.
CommitSweep ==
  /\ sweep.pc = "verified"
  /\ records' = Flag(sweep.failing)
  /\ sweep' = SweepIdle
  /\ UNCHANGED <<runs, writer, hour, missed, summary, faults>>

\* The sweep raises and is not retried.
MissSweep ==
  /\ sweep.pc \in {"due", "verified"}
  /\ sweep' = SweepIdle
  /\ missed' = missed + 1
  /\ UNCHANGED <<vault, writer, hour, summary, faults>>

\* GET /audit/vault/{id} verifies what it shows.
GetVaultRecord(i) ==
  /\ records[i].content_hash # NoHash /\ ~verify_hash(records[i])
  /\ records' = Flag({i})
  /\ UNCHANGED <<runs, writer, hour, sweep, missed, summary, faults>>

\* GET /audit/vault/summary counts the rows, then the verified rows: two
\* statements, each of the rows committed when it runs.
Summarise ==
  /\ \/ /\ summary.pc = "idle"
        /\ summary' = [NoSummary EXCEPT !.pc = "counting", !.total = Len(records)]
     \/ /\ summary.pc = "counting"
        /\ summary' = [summary EXCEPT
                         !.pc = "shown",
                         !.tampered = summary.total - Cardinality(Verified)]
  /\ UNCHANGED <<vault, writer, hour, sweep, missed, faults>>

-------------------------------------------------------------------------------
Write(t) == StartWrite(t) \/ CommitWrite(t) \/ Return(t)
Sweep == SweepVault \/ CommitSweep

Next ==
  \/ \E t \in Writers : Write(t) \/ Raise(t) \/ LoseWorker(t)
  \/ \E i \in DOMAIN records : Tamper(i) \/ GetVaultRecord(i)
  \/ HourPasses \/ Sweep \/ MissSweep
  \/ Heartbeat \/ Summarise

Spec == Init /\ [][Next]_vars

\* The queue hands out its messages, and what runs goes on.
FairSpec == Spec /\ \A t \in Writers : WF_vars(Write(t))

-------------------------------------------------------------------------------
\* Every variable has its type.
TypeOK ==
  /\ runs \in Seq([by : Writers \cup {NoWriter}, status : {"completed", "Success"}])
  /\ records \in Seq([by : Writers, extraction_run_id : Nat,
                      recorded_at : 0 .. MaxHours, metadata_json : Payloads,
                      content_hash : Hashes, hash_verified : BOOLEAN,
                      broken_in : 0 .. Never])
  /\ writer \in [Writers -> [pc : {"queued", "flushed", "committed", "succeeded",
                                   "failed"},
                             retries : 0 .. max_retries,
                             started : 0 .. MaxHours, repeats : Nat]]
  /\ hour \in 0 .. MaxHours
  /\ sweep \in [pc : {"idle", "due", "verified"}, failing : SUBSET DOMAIN records]
  /\ missed \in Nat
  /\ summary \in [pc : {"idle", "counting", "shown"}, total : Nat, tampered : Int]
  /\ faults \in 0 .. MaxFaults

\* Chain of custody: a completed run and a record always come together, so the
\* ledger shows neither an extraction without evidence nor the reverse.
LedgerMatchesVault ==
  /\ \A k \in DOMAIN runs :
       runs[k].by # NoWriter =>
         Cardinality({i \in DOMAIN records : records[i].extraction_run_id = k}) = 1
  /\ \A i \in DOMAIN records :
       runs[records[i].extraction_run_id]
         = [by |-> records[i].by, status |-> "completed"]

\* A call that succeeded has stored its evidence, and what is stored more than
\* once is explained by failures that struck after a commit.
RepeatsExplainCopies ==
  \A t \in Writers :
    /\ Cardinality(Stored(t)) <= writer[t].repeats + 1
    /\ writer[t].pc = "succeeded" => Stored(t) # {}

\* The windows of two sweeps overlap: evidence whose payload and hash came
\* apart in the hour it was recorded, and have not been made to agree since, is
\* flagged although one sweep failed.  An edit that clears the hash, or fits it
\* to the new payload, passes every sweep.
OneMissTolerated ==
  \A i \in DOMAIN records :
    /\ records[i].broken_in = records[i].recorded_at
    /\ hour > records[i].recorded_at + hours_lookback
    /\ missed < hours_lookback
    => ~records[i].hash_verified

\* The dashboard never shows more tampered records than there are.
NeverOverstated == summary.pc = "shown" => summary.tampered <= Cardinality(Flagged)

\* A task stores its evidence although it fails as often as it may be retried
\* (runs choose MaxFaults = max_retries).
EvidenceArrives == \A t \in Tasks : <>(Stored(t) # {})

===============================================================================
