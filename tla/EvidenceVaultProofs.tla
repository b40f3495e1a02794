-------------------------- MODULE EvidenceVaultProofs --------------------------
(***************************************************************************)
(* The evidence vault keeps its promises for any number of writers, faults, *)
(* retries and hours: proofs about EvidenceVault.                          *)
(*                                                                         *)
(* A committed row is never removed and only its payload, its hash and its *)
(* flag ever change, so that what holds of rows is lost by few steps.  A   *)
(* row whose payload and hash disagree is one the sweep finds; every sweep *)
(* of its window that left it unflagged is one of those that were missed.  *)
(***************************************************************************)
EXTENDS EvidenceVault, SequenceTheorems, FiniteSetTheorems, TLAPS

Run == [by : Writers \cup {NoWriter}, status : {"completed", "Success"}]
Record == [by : Writers, extraction_run_id : Nat, recorded_at : 0 .. MaxHours,
           metadata_json : Payloads, content_hash : Hashes, hash_verified : BOOLEAN,
           broken_in : 0 .. Never]

\* Rows and runs name each other: LedgerMatchesVault without the count.
Custody ==
  /\ \A k \in DOMAIN runs : runs[k].by # NoWriter =>
       \E i \in DOMAIN records : records[i].extraction_run_id = k
  /\ \A i \in DOMAIN records :
       /\ records[i].extraction_run_id \in DOMAIN runs
       /\ runs[records[i].extraction_run_id] = [by |-> records[i].by, status |-> "completed"]
  /\ \A i, j \in DOMAIN records :
       records[i].extraction_run_id = records[j].extraction_run_id => i = j

\* A writer has stored what it had stored when it was repeated, and once more
\* when it committed again.
Copies(t) == writer[t].repeats + (IF writer[t].pc \in {"committed", "succeeded"} THEN 1 ELSE 0)
CopiesCounted == \A t \in Writers : Cardinality(Stored(t)) = Copies(t)

\* The history says of every row whether it verifies.
HistoryFits(row) == row.broken_in = Never <=> verify_hash(row)
HistoryKept == \A i \in DOMAIN records : HistoryFits(records[i])

\* A row that was broken at once and is not flagged: the sweeps that have ended
\* since were missed, and the one at work has found it.
Escaped(i) == records[i].broken_in = records[i].recorded_at /\ records[i].hash_verified
EscapesExplained ==
  \A i \in DOMAIN records : Escaped(i) =>
    LET last == records[i].recorded_at + hours_lookback
    IN /\ hour <= last => missed + (IF sweep.pc = "idle" THEN 0 ELSE 1) >= hour - records[i].recorded_at
       /\ hour > last => missed >= hours_lookback
       /\ (sweep.pc = "verified" /\ hour <= last /\ hour > records[i].recorded_at) =>
            i \in sweep.failing

\* The rows counted first are still there.
CountedFirst == summary.pc = "counting" => summary.total <= Len(records)

IInv ==
  /\ TypeOK /\ Custody /\ CopiesCounted
  /\ HistoryKept /\ EscapesExplained
  /\ CountedFirst /\ NeverOverstated
-------------------------------------------------------------------------------
\* The bounds are numbers, and Never lies after the last hour.
LEMMA Bounds == /\ max_retries \in Nat /\ hours_lookback \in Nat /\ MaxHours \in Nat /\ MaxFaults \in Nat
                /\ Never = MaxHours + 1
BY VaultBoundsAssumption DEF Never

\* The types of the rows, by index.
LEMMA Rows ==
  ASSUME TypeOK
  PROVE  /\ Len(runs) \in Nat /\ DOMAIN runs = 1 .. Len(runs) /\ \A k \in DOMAIN runs : runs[k] \in Run
         /\ Len(records) \in Nat /\ DOMAIN records = 1 .. Len(records)
         /\ \A i \in DOMAIN records : records[i] \in Record
         /\ runs \in Seq(Run) /\ records \in Seq(Record)
<1>1. runs \in Seq(Run) /\ records \in Seq(Record)
  BY DEF TypeOK, Run, Record
<1> QED BY <1>1, LenProperties, ElementOfSeq

\* A commit adds one row that verifies, and one run that no row named before.
LEMMA CommitAppends ==
  ASSUME TypeOK, NEW t \in Writers, CommitWrite(t)
  PROVE  /\ records' \in Seq(Record) /\ Len(records') = Len(records) + 1
         /\ DOMAIN records' = DOMAIN records \cup {Len(records) + 1}
         /\ \A i \in DOMAIN records : records'[i] = records[i]
         /\ records'[Len(records) + 1].by = t
         /\ records'[Len(records) + 1].extraction_run_id = Len(runs) + 1
         /\ records'[Len(records) + 1].broken_in = Never
         /\ HistoryFits(records'[Len(records) + 1])
         /\ records'[Len(records) + 1].hash_verified = TRUE
         /\ runs' \in Seq(Run) /\ DOMAIN runs' = DOMAIN runs \cup {Len(runs) + 1}
         /\ \A k \in DOMAIN runs : runs'[k] = runs[k]
         /\ runs'[Len(runs) + 1] = [by |-> t, status |-> "completed"]
<1> DEFINE row == [by |-> t, extraction_run_id |-> Len(runs) + 1,
                   recorded_at |-> writer[t].started, metadata_json |-> raw_payload[t],
                   content_hash |-> compute_hash(raw_payload[t]), hash_verified |-> TRUE,
                   broken_in |-> Never]
           run == [by |-> t, status |-> "completed"]
<1>1. Len(runs) \in Nat /\ Len(records) \in Nat /\ runs \in Seq(Run) /\ records \in Seq(Record)
      /\ DOMAIN runs = 1 .. Len(runs) /\ DOMAIN records = 1 .. Len(records)
  BY Rows
<1>2. row \in Record /\ run \in Run /\ HistoryFits(row)
  <2>1. raw_payload[t] \in Payloads /\ compute_hash(raw_payload[t]) \in Hashes
    BY PayloadsAssumption DEF Hashes
  <2>2. writer[t].started \in 0 .. MaxHours /\ Never \in 0 .. Never
    BY Bounds DEF TypeOK
  <2>3. row \in Record /\ run \in Run
    BY <1>1, <2>1, <2>2 DEF Record, Run
  <2>4. HistoryFits(row)
    BY DEF HistoryFits, verify_hash
  <2> QED BY <2>3, <2>4
<1>3. runs' = Append(runs, run) /\ records' = Append(records, row)
  BY DEF CommitWrite
<1> HIDE DEF row, run
<1>4. /\ records' \in Seq(Record) /\ Len(records') = Len(records) + 1
      /\ \A i \in 1 .. Len(records) : records'[i] = records[i]
      /\ records'[Len(records) + 1] = row
  BY <1>1, <1>2, <1>3, AppendProperties
<1>5. /\ runs' \in Seq(Run) /\ Len(runs') = Len(runs) + 1
      /\ \A k \in 1 .. Len(runs) : runs'[k] = runs[k]
      /\ runs'[Len(runs) + 1] = run
  BY <1>1, <1>2, <1>3, AppendProperties
<1>6. DOMAIN records' = 1 .. Len(records') /\ DOMAIN runs' = 1 .. Len(runs')
  BY <1>4, <1>5, LenProperties
<1> QED BY <1>1, <1>2, <1>4, <1>5, <1>6 DEF row, run

\* Every other step leaves the rows where they are, and of each row all but
\* its payload and hash, whose history it keeps, and its flag, which stays down.
Kept ==
  /\ records' \in Seq(Record) /\ Len(records') = Len(records) /\ DOMAIN records' = DOMAIN records
  /\ \A i \in DOMAIN records :
       /\ records'[i].by = records[i].by
       /\ records'[i].extraction_run_id = records[i].extraction_run_id
       /\ records'[i].recorded_at = records[i].recorded_at
       /\ HistoryFits(records[i]) => HistoryFits(records'[i])
       /\ records'[i].hash_verified => records[i].hash_verified

\* Flagging (the UPDATE of the sweep and of the read) changes the flag of the records flagged only.
LEMMA FlagKeeps ==
  ASSUME TypeOK, NEW S, records' = Flag(S)
  PROVE  /\ Kept
         /\ \A i \in DOMAIN records :
              /\ records'[i].broken_in = records[i].broken_in
              /\ records'[i].hash_verified = (records[i].hash_verified /\ i \notin S)
<1>1. /\ Len(records) \in Nat /\ DOMAIN records = 1 .. Len(records)
      /\ \A i \in DOMAIN records : records[i] \in Record
  BY Rows
<1>2. \A i \in 1 .. Len(records) :
        [records[i] EXCEPT !.hash_verified = @ /\ i \notin S] \in Record
  BY <1>1 DEF Record
<1>3. records' = [i \in 1 .. Len(records) |-> [records[i] EXCEPT !.hash_verified = @ /\ i \notin S]]
  BY <1>1 DEF Flag
<1>4. records' \in Seq(Record) /\ Len(records') = Len(records) /\ DOMAIN records' = DOMAIN records
  <2>1. records' \in [1 .. Len(records) -> Record]
    BY <1>2, <1>3
  <2>2. records' \in Seq(Record)
    BY <1>1, <2>1
  <2>3. DOMAIN records' = 1 .. Len(records)
    BY <1>3
  <2>4. Len(records') = Len(records)
    BY <1>1, <2>2, <2>3, LenProperties
  <2> QED BY <1>1, <2>2, <2>3, <2>4
<1>5. \A i \in DOMAIN records :
        records'[i] = [records[i] EXCEPT !.hash_verified = @ /\ i \notin S]
  BY <1>1, <1>3
<1>6. ASSUME NEW i \in DOMAIN records
      PROVE  /\ records'[i].by = records[i].by
             /\ records'[i].extraction_run_id = records[i].extraction_run_id
             /\ records'[i].recorded_at = records[i].recorded_at
             /\ records'[i].broken_in = records[i].broken_in
             /\ records'[i].metadata_json = records[i].metadata_json
             /\ records'[i].content_hash = records[i].content_hash
             /\ records'[i].hash_verified = (records[i].hash_verified /\ i \notin S)
  <2>1. records[i] \in Record
    BY <1>1
  <2> QED BY <1>5, <2>1 DEF Record
<1>7. \A i \in DOMAIN records : HistoryFits(records[i]) => HistoryFits(records'[i])
  BY <1>6 DEF HistoryFits, verify_hash
<1> QED BY <1>4, <1>6, <1>7 DEF Kept

\* An edit changes payload and hash of one record: it leaves the record's
\* history alone, ends it, or starts it now.
LEMMA TamperKeeps ==
  ASSUME TypeOK, NEW n \in DOMAIN records, Tamper(n)
  PROVE  /\ Kept
         /\ \A i \in DOMAIN records :
              /\ records'[i].hash_verified = records[i].hash_verified
              /\ records'[i].broken_in \in {records[i].broken_in, Never, hour}
<1>1. /\ Len(records) \in Nat /\ DOMAIN records = 1 .. Len(records) /\ records \in Seq(Record)
      /\ \A i \in DOMAIN records : records[i] \in Record
  BY Rows
<1>2. PICK payload \in Payloads, hash \in Hashes :
        LET edited == [records[n] EXCEPT !.metadata_json = payload, !.content_hash = hash]
        IN records' = [records EXCEPT ![n] =
             [edited EXCEPT !.broken_in = IF verify_hash(edited) THEN Never
                                          ELSE IF verify_hash(records[n]) THEN hour ELSE @]]
  BY DEF Tamper
<1> DEFINE edited == [records[n] EXCEPT !.metadata_json = payload, !.content_hash = hash]
           since == IF verify_hash(edited) THEN Never
                    ELSE IF verify_hash(records[n]) THEN hour ELSE records[n].broken_in
           row == [edited EXCEPT !.broken_in = since]
<1>3. records[n] \in Record /\ hour \in 0 .. Never /\ hour # Never /\ Never \in 0 .. Never
  BY <1>1, Bounds DEF TypeOK
<1>4. edited \in Record /\ edited.broken_in = records[n].broken_in
  BY <1>2, <1>3 DEF Record
<1>5. records' = [records EXCEPT ![n] = row]
  BY <1>2, <1>4
<1>6. since \in {records[n].broken_in, Never, hour} /\ since \in 0 .. Never
  BY <1>3 DEF Record
<1>7. /\ edited.by = records[n].by /\ edited.extraction_run_id = records[n].extraction_run_id
      /\ edited.recorded_at = records[n].recorded_at
      /\ edited.hash_verified = records[n].hash_verified
  BY <1>3 DEF Record
<1>8. HistoryFits(records[n]) => (since = Never <=> verify_hash(edited))
  BY <1>3 DEF HistoryFits
<1> HIDE DEF edited, since
<1>9. /\ row \in Record /\ row.broken_in = since
      /\ row.by = records[n].by /\ row.extraction_run_id = records[n].extraction_run_id
      /\ row.recorded_at = records[n].recorded_at
      /\ row.hash_verified = records[n].hash_verified
      /\ row.metadata_json = edited.metadata_json /\ row.content_hash = edited.content_hash
  BY <1>4, <1>6, <1>7 DEF Record
<1>10. HistoryFits(records[n]) => HistoryFits(row)
  BY <1>8, <1>9 DEF HistoryFits, verify_hash
<1> HIDE DEF row
<1>11. /\ records' \in Seq(Record) /\ Len(records') = Len(records)
       /\ \A i \in 1 .. Len(records) : records'[i] = IF i = n THEN row ELSE records[i]
  BY <1>1, <1>5, <1>9, ExceptSeq
<1>12. DOMAIN records' = DOMAIN records
  BY <1>1, <1>5
<1> QED BY <1>1, <1>6, <1>9, <1>10, <1>11, <1>12 DEF Kept

\* A step of the vault commits a row or keeps the rows.
LEMMA RowsKept ==
  ASSUME TypeOK, [Next]_vars, \A t \in Writers : ~CommitWrite(t)
  PROVE  Kept
<1>1. CASE records' = records
  BY <1>1, Rows DEF Kept
<1>2. ASSUME NEW i \in DOMAIN records, Tamper(i) PROVE Kept
  BY <1>2, TamperKeeps
<1>3. ASSUME NEW i \in DOMAIN records, GetVaultRecord(i) PROVE Kept
  BY <1>3, FlagKeeps DEF GetVaultRecord
<1>4. CASE CommitSweep
  BY <1>4, FlagKeeps DEF CommitSweep
<1>5. ASSUME NEW t \in Writers, Write(t) \/ Raise(t) \/ LoseWorker(t) PROVE records' = records
  BY <1>5 DEF Write, StartWrite, Return, Raise, LoseWorker, vault
<1>6. CASE HourPasses \/ SweepVault \/ MissSweep \/ Heartbeat \/ Summarise \/ UNCHANGED vars
  BY <1>1, <1>6 DEF HourPasses, SweepVault, MissSweep, Heartbeat, Summarise, vars, vault
<1> QED BY <1>1, <1>2, <1>3, <1>4, <1>5, <1>6 DEF Next, Sweep
-------------------------------------------------------------------------------
\* The row a writer is kept in.
WriterRow == [pc : {"queued", "flushed", "committed", "succeeded", "failed"},
              retries : 0 .. max_retries, started : 0 .. MaxHours, repeats : Nat]

\* The types hold at the start.
LEMMA TypeInit == Init => TypeOK
BY VaultBoundsAssumption, EmptySeq DEF Init, TypeOK, NoSummary, SweepIdle

\* Every step keeps the types.
LEMMA TypeStep == TypeOK /\ [Next]_vars => TypeOK'
<1> SUFFICES ASSUME TypeOK, [Next]_vars PROVE TypeOK'
  OBVIOUS
<1> USE Bounds
<1>1. /\ runs \in Seq(Run) /\ records \in Seq(Record) /\ Len(records) \in Nat /\ Len(runs) \in Nat
      /\ DOMAIN records = 1 .. Len(records) /\ DOMAIN runs = 1 .. Len(runs)
  BY Rows
<1>2. ASSUME NEW t \in Writers, StartWrite(t) PROVE TypeOK'
  <2> DEFINE row == [writer[t] EXCEPT !.pc = "flushed", !.started = hour]
  <2>1. writer' = [writer EXCEPT ![t] = row]
    BY <1>2 DEF StartWrite
  <2>2. row \in WriterRow
    <3>1. writer[t] \in WriterRow /\ hour \in 0 .. MaxHours
      BY DEF TypeOK, WriterRow
    <3> QED BY <3>1 DEF WriterRow
  <2> HIDE DEF row
  <2>3. writer' \in [Writers -> WriterRow]
    BY <2>1, <2>2 DEF TypeOK, WriterRow
  <2> QED BY <1>2, <2>3 DEF StartWrite, TypeOK, vault, WriterRow
<1>3. ASSUME NEW t \in Writers, CommitWrite(t) PROVE TypeOK'
  <2>1. records' \in Seq(Record) /\ runs' \in Seq(Run) /\ DOMAIN records \subseteq DOMAIN records'
    BY <1>3, CommitAppends
  <2>2. /\ writer' = [writer EXCEPT ![t].pc = "committed"]
        /\ UNCHANGED <<hour, sweep, missed, summary, faults>>
    BY <1>3 DEF CommitWrite
  <2> QED BY <2>1, <2>2 DEF TypeOK, Run, Record
<1>4. ASSUME NEW t \in Writers, Return(t) PROVE TypeOK'
  BY <1>4 DEF Return, TypeOK, vault
<1>5. ASSUME NEW t \in Writers, Raise(t) PROVE TypeOK'
  <2>1. writer' \in [Writers -> [pc : {"queued", "flushed", "committed", "succeeded", "failed"},
                              retries : 0 .. max_retries, started : 0 .. MaxHours, repeats : Nat]]
    <3> DEFINE W == [pc : {"queued", "flushed", "committed", "succeeded", "failed"},
                     retries : 0 .. max_retries, started : 0 .. MaxHours, repeats : Nat]
    <3>1. writer \in [Writers -> W] /\ writer[t] \in W
      BY DEF TypeOK
    <3> DEFINE pc == IF t \in Tasks /\ writer[t].retries < max_retries THEN "queued" ELSE "failed"
             retries == IF t \in Tasks /\ writer[t].retries < max_retries
                        THEN writer[t].retries + 1 ELSE writer[t].retries
             repeats == IF writer[t].pc = "committed" THEN writer[t].repeats + 1 ELSE writer[t].repeats
    <3>2. pc \in {"queued", "failed"} /\ repeats \in Nat /\ retries \in 0 .. max_retries
      BY <3>1
    <3>3. writer' = [writer EXCEPT ![t].pc = pc, ![t].retries = retries, ![t].repeats = repeats]
      BY <1>5, <3>1 DEF Raise
    <3> HIDE DEF pc, retries, repeats
    <3> QED BY <3>1, <3>2, <3>3
  <2>2. faults' \in 0 .. MaxFaults
    <3>1. faults \in 0 .. MaxFaults /\ faults < MaxFaults /\ faults' = faults + 1
      BY <1>5 DEF Raise, TypeOK
    <3> QED BY <3>1
  <2> QED BY <1>5, <2>1, <2>2 DEF Raise, TypeOK, vault
<1>6. ASSUME NEW t \in Writers, LoseWorker(t) PROVE TypeOK'
  <2>1. writer' \in [Writers -> [pc : {"queued", "flushed", "committed", "succeeded", "failed"},
                              retries : 0 .. max_retries, started : 0 .. MaxHours, repeats : Nat]]
    <3> DEFINE W == [pc : {"queued", "flushed", "committed", "succeeded", "failed"},
                     retries : 0 .. max_retries, started : 0 .. MaxHours, repeats : Nat]
    <3>1. writer \in [Writers -> W] /\ writer[t] \in W
      BY DEF TypeOK
    <3> DEFINE pc == "queued"
             repeats == IF writer[t].pc = "committed" THEN writer[t].repeats + 1 ELSE writer[t].repeats
    <3>2. pc \in {"queued", "failed"} /\ repeats \in Nat
      BY <3>1
    <3>3. writer' = [writer EXCEPT ![t].pc = pc, ![t].repeats = repeats]
      BY <1>6, <3>1 DEF LoseWorker
    <3> HIDE DEF pc, repeats
    <3> QED BY <3>1, <3>2, <3>3
  <2>2. faults' \in 0 .. MaxFaults
    BY <1>6 DEF LoseWorker, TypeOK
  <2> QED BY <1>6, <2>1, <2>2 DEF LoseWorker, TypeOK, vault
<1>7. ASSUME NEW i \in DOMAIN records, Tamper(i) \/ GetVaultRecord(i) PROVE TypeOK'
  <2>1. Kept
    BY <1>7, TamperKeeps, FlagKeeps DEF GetVaultRecord
  <2> QED BY <1>7, <2>1 DEF Tamper, GetVaultRecord, TypeOK, Kept, Record
<1>8. CASE CommitSweep
  <2>1. Kept
    BY <1>8, FlagKeeps DEF CommitSweep
  <2> QED BY <1>8, <2>1 DEF CommitSweep, TypeOK, Kept, Record, SweepIdle
<1>9. CASE HourPasses
  <2>1. sweep' \in [pc : {"idle", "due", "verified"}, failing : SUBSET DOMAIN records]
    BY <1>9 DEF HourPasses, TypeOK
  <2>2. hour' \in 0 .. MaxHours
    BY <1>9 DEF HourPasses, TypeOK
  <2> QED BY <1>9, <2>1, <2>2 DEF HourPasses, TypeOK, vault
<1>10. CASE SweepVault
  BY <1>10 DEF SweepVault, Window, TypeOK, vault
<1>11. CASE MissSweep
  BY <1>11 DEF MissSweep, SweepIdle, TypeOK, vault
<1>12. CASE Heartbeat
  <2>1. [by |-> NoWriter, status |-> "Success"] \in Run
    BY DEF Run
  <2>2. runs' \in Seq(Run)
    BY <1>1, <1>12, <2>1, AppendProperties DEF Heartbeat
  <2> QED BY <1>12, <2>2 DEF Heartbeat, TypeOK, Run
<1>13. CASE Summarise
  <2>1. Verified \subseteq 1 .. Len(records)
    BY <1>1 DEF Verified
  <2>2. IsFiniteSet(1 .. Len(records))
    BY <1>1, FS_Interval
  <2>3. Cardinality(Verified) \in Nat
    BY <2>1, <2>2, FS_Subset, FS_CardinalityType
  <2>4. summary' \in [pc : {"idle", "counting", "shown"}, total : Nat, tampered : Int]
    <3>1. summary \in [pc : {"idle", "counting", "shown"}, total : Nat, tampered : Int]
      BY DEF TypeOK
    <3>2. CASE summary' = [NoSummary EXCEPT !.pc = "counting", !.total = Len(records)]
      <4>1. summary' = [pc |-> "counting", total |-> Len(records), tampered |-> 0]
        BY <3>2 DEF NoSummary
      <4> QED BY <1>1, <4>1
    <3>3. CASE summary' = [summary EXCEPT !.pc = "shown",
                                          !.tampered = summary.total - Cardinality(Verified)]
      <4>1. summary.total - Cardinality(Verified) \in Int
        BY <2>3, <3>1
      <4> QED BY <3>1, <3>3, <4>1
    <3> QED BY <1>13, <3>2, <3>3 DEF Summarise
  <2> QED BY <1>13, <2>4 DEF Summarise, TypeOK, vault
<1>14. CASE UNCHANGED vars
  BY <1>14 DEF vars, vault, TypeOK
<1> QED
  BY <1>2, <1>3, <1>4, <1>5, <1>6, <1>7, <1>8, <1>9, <1>10, <1>11, <1>12, <1>13, <1>14
  DEF Next, Write, Sweep
-------------------------------------------------------------------------------
\* A heartbeat is nobody's run; a commit adds a run and its row together.
LEMMA CustodyStep == ASSUME IInv, [Next]_vars PROVE Custody'
<1>1. TypeOK /\ Custody
  BY DEF IInv
<1>2. ASSUME NEW t \in Writers, CommitWrite(t) PROVE Custody'
  <2>1. Len(runs) + 1 \notin DOMAIN runs /\ Len(records) + 1 \notin DOMAIN records
    BY <1>1, Rows
  <2>2. NoWriter # t
    BY NoWriterAssumption
  <2>3. \A i \in DOMAIN records : records[i].extraction_run_id \in DOMAIN runs
    BY <1>1 DEF Custody
  <2>4. /\ DOMAIN records' = DOMAIN records \cup {Len(records) + 1}
        /\ \A i \in DOMAIN records : records'[i] = records[i]
        /\ records'[Len(records) + 1].by = t
        /\ records'[Len(records) + 1].extraction_run_id = Len(runs) + 1
        /\ DOMAIN runs' = DOMAIN runs \cup {Len(runs) + 1}
        /\ \A k \in DOMAIN runs : runs'[k] = runs[k]
        /\ runs'[Len(runs) + 1] = [by |-> t, status |-> "completed"]
    BY <1>1, <1>2, CommitAppends
  <2>5. ASSUME NEW k \in DOMAIN runs', runs'[k].by # NoWriter
        PROVE  \E i \in DOMAIN records' : records'[i].extraction_run_id = k
    <3>1. CASE k \in DOMAIN runs
      <4>1. PICK i \in DOMAIN records : records[i].extraction_run_id = k
        BY <1>1, <2>4, <2>5, <3>1 DEF Custody
      <4> QED BY <2>4, <4>1
    <3>2. CASE k = Len(runs) + 1
      BY <2>4, <3>2
    <3> QED BY <2>4, <3>1, <3>2
  <2>6. ASSUME NEW i \in DOMAIN records'
        PROVE  /\ records'[i].extraction_run_id \in DOMAIN runs'
               /\ runs'[records'[i].extraction_run_id] = [by |-> records'[i].by, status |-> "completed"]
    <3>1. CASE i \in DOMAIN records
      <4>1. /\ records[i].extraction_run_id \in DOMAIN runs
            /\ runs[records[i].extraction_run_id] = [by |-> records[i].by, status |-> "completed"]
        BY <1>1, <3>1 DEF Custody
      <4> QED BY <2>4, <3>1, <4>1
    <3>2. CASE i = Len(records) + 1
      BY <2>4, <3>2
    <3> QED BY <2>4, <3>1, <3>2
  <2>7. ASSUME NEW i \in DOMAIN records', NEW j \in DOMAIN records',
               records'[i].extraction_run_id = records'[j].extraction_run_id
        PROVE  i = j
    <3>1. CASE i \in DOMAIN records /\ j \in DOMAIN records
      BY <1>1, <2>4, <2>7, <3>1 DEF Custody
    <3>2. CASE i \notin DOMAIN records \/ j \notin DOMAIN records
      BY <2>1, <2>3, <2>4, <2>7, <3>2
    <3> QED BY <3>1, <3>2
  <2> QED BY <2>5, <2>6, <2>7 DEF Custody
<1>3. ASSUME \A t \in Writers : ~CommitWrite(t) PROVE Custody'
  <2>1. Kept
    BY <1>1, <1>3, RowsKept
  <2>2. CASE runs' = runs
    BY <1>1, <2>1, <2>2 DEF Custody, Kept
  <2>3. CASE Heartbeat
    <3>1. /\ Len(runs) \in Nat /\ DOMAIN runs = 1 .. Len(runs) /\ runs \in Seq(Run)
      BY <1>1, Rows
    <3>2. [by |-> NoWriter, status |-> "Success"] \in Run
      BY DEF Run
    <3>3. /\ Len(runs') = Len(runs) + 1 /\ runs' \in Seq(Run)
          /\ \A k \in 1 .. Len(runs) : runs'[k] = runs[k]
          /\ runs'[Len(runs) + 1] = [by |-> NoWriter, status |-> "Success"]
      BY <2>3, <3>1, <3>2, AppendProperties DEF Heartbeat
    <3>4. DOMAIN runs' = 1 .. Len(runs')
      BY <3>3, LenProperties
    <3>5. /\ \A k \in DOMAIN runs : k \in DOMAIN runs' /\ runs'[k] = runs[k]
          /\ \A k \in DOMAIN runs' : k \in DOMAIN runs \/ runs'[k].by = NoWriter
      BY <3>1, <3>3, <3>4
    <3> QED BY <1>1, <2>1, <3>5 DEF Custody, Kept
  <2>4. runs' = runs \/ Heartbeat
    <3>1. ASSUME NEW t \in Writers, Write(t) \/ Raise(t) \/ LoseWorker(t) PROVE runs' = runs
      BY <1>3, <3>1 DEF Write, StartWrite, Return, Raise, LoseWorker, vault
    <3> QED BY <3>1 DEF Next, Tamper, GetVaultRecord, HourPasses, Sweep, SweepVault, CommitSweep,
                    MissSweep, Summarise, vars, vault
  <2> QED BY <2>2, <2>3, <2>4
<1> QED BY <1>2, <1>3

\* The set of a writer's rows only grows by a commit.
LEMMA StoredKept == ASSUME Kept, NEW t PROVE Stored(t)' = Stored(t)
BY DEF Kept, Stored

\* Every step keeps the count of copies: a record is stored again only by a fault's retry.
LEMMA CopiesStep == ASSUME IInv, [Next]_vars PROVE CopiesCounted'
<1>1. TypeOK /\ CopiesCounted
  BY DEF IInv
<1>2. \A t \in Writers : IsFiniteSet(Stored(t))
  <2>1. Len(records) \in Nat /\ DOMAIN records = 1 .. Len(records)
    BY <1>1, Rows
  <2>2. IsFiniteSet(1 .. Len(records))
    BY <2>1, FS_Interval
  <2> QED BY <2>1, <2>2, FS_Subset DEF Stored
<1>3. ASSUME NEW w \in Writers, CommitWrite(w) PROVE CopiesCounted'
  <2> SUFFICES ASSUME NEW t \in Writers PROVE Cardinality(Stored(t)') = Copies(t)'
    BY DEF CopiesCounted
  <2>1. Len(records) + 1 \notin DOMAIN records
    BY <1>1, Rows
  <2> DEFINE new == Len(records) + 1
  <2>4. /\ DOMAIN records' = DOMAIN records \cup {new} /\ new \notin DOMAIN records
        /\ \A i \in DOMAIN records : records'[i] = records[i]
        /\ records'[new].by = w
    BY <1>1, <1>3, <2>1, CommitAppends
  <2>5. Stored(t)' = {i \in DOMAIN records' : records'[i].by = t}
    BY DEF Stored
  <2> HIDE DEF new
  <2>2. CASE t = w
    <3>1. Stored(t)' = Stored(t) \cup {new}
      BY <2>2, <2>4, <2>5 DEF Stored
    <3>2. new \notin Stored(t)
      BY <2>4 DEF Stored
    <3>3. Cardinality(Stored(t)') = Cardinality(Stored(t)) + 1
      BY <1>2, <3>1, <3>2, FS_AddElement
    <3>4. Copies(t) = writer[t].repeats /\ Copies(t)' = writer[t].repeats + 1
      BY <1>1, <1>3, <2>2 DEF CommitWrite, Copies, TypeOK
    <3> QED BY <1>1, <3>3, <3>4 DEF CopiesCounted
  <2>3. CASE t # w
    <3>1. Stored(t)' = Stored(t)
      BY <2>3, <2>4, <2>5 DEF Stored
    <3>2. Copies(t)' = Copies(t)
      BY <1>1, <1>3, <2>3 DEF CommitWrite, Copies, TypeOK
    <3> QED BY <1>1, <3>1, <3>2 DEF CopiesCounted
  <2> QED BY <2>2, <2>3
<1>4. ASSUME \A t \in Writers : ~CommitWrite(t) PROVE CopiesCounted'
  <2> SUFFICES ASSUME NEW t \in Writers PROVE Cardinality(Stored(t)') = Copies(t)'
    BY DEF CopiesCounted
  <2>1. Stored(t)' = Stored(t)
    BY <1>1, <1>4, RowsKept, StoredKept
  <2>2. ASSUME NEW w \in Writers, StartWrite(w) \/ Return(w) \/ Raise(w) \/ LoseWorker(w)
        PROVE Copies(t)' = Copies(t)
    <3>1. writer[t].repeats \in Nat /\ writer[w].repeats \in Nat
      BY <1>1 DEF TypeOK
    <3>2. CASE StartWrite(w)
      BY <1>1, <3>1, <3>2 DEF StartWrite, Copies, TypeOK
    <3>3. CASE Return(w)
      BY <1>1, <3>1, <3>3 DEF Return, Copies, TypeOK
    <3>4. CASE Raise(w)
      <4>1. CASE t = w /\ writer[w].pc = "flushed"
        BY <1>1, <3>1, <3>4, <4>1 DEF Raise, Copies, TypeOK
      <4>2. CASE t = w /\ writer[w].pc = "committed"
        BY <1>1, <3>1, <3>4, <4>2 DEF Raise, Copies, TypeOK
      <4>3. CASE t # w
        BY <1>1, <3>4, <4>3 DEF Raise, Copies, TypeOK
      <4> QED BY <3>4, <4>1, <4>2, <4>3 DEF Raise
    <3>5. CASE LoseWorker(w)
      BY <1>1, <3>1, <3>5 DEF LoseWorker, Copies, TypeOK
    <3> QED BY <2>2, <3>2, <3>3, <3>4, <3>5
  <2>3. ASSUME writer' = writer PROVE Copies(t)' = Copies(t)
    BY <2>3 DEF Copies
  <2>4. writer' = writer \/ \E w \in Writers : StartWrite(w) \/ Return(w) \/ Raise(w) \/ LoseWorker(w)
    BY <1>4 DEF Next, Write, Tamper, GetVaultRecord, HourPasses, Sweep, SweepVault, CommitSweep,
                    MissSweep, Heartbeat, Summarise, vars, vault
  <2>5. Copies(t)' = Copies(t)
    BY <2>2, <2>3, <2>4 DEF Copies
  <2> QED BY <1>1, <2>1, <2>5 DEF CopiesCounted
<1> QED BY <1>3, <1>4

\* Which steps touch what is found, and what is flagged.
LEMMA SweepTouched ==
  ASSUME [Next]_vars
  PROVE  \/ UNCHANGED <<hour, sweep, missed>>
         \/ HourPasses \/ SweepVault \/ CommitSweep \/ MissSweep
<1>1. ASSUME NEW t \in Writers, Write(t) \/ Raise(t) \/ LoseWorker(t)
      PROVE  UNCHANGED <<hour, sweep, missed>>
  BY <1>1 DEF Write, StartWrite, CommitWrite, Return, Raise, LoseWorker
<1>2. ASSUME NEW i \in DOMAIN records, Tamper(i) \/ GetVaultRecord(i)
      PROVE  UNCHANGED <<hour, sweep, missed>>
  BY <1>2 DEF Tamper, GetVaultRecord
<1>3. CASE Heartbeat \/ Summarise \/ UNCHANGED vars
  BY <1>3 DEF Heartbeat, Summarise, vars
<1> QED BY <1>1, <1>2, <1>3 DEF Next, Sweep

\* A row is stored with its own hash, and only edits change either.
LEMMA HistoryStep == ASSUME TypeOK, HistoryKept, [Next]_vars PROVE HistoryKept'
<1>1. ASSUME NEW t \in Writers, CommitWrite(t), NEW i \in DOMAIN records' PROVE HistoryFits(records'[i])
  BY <1>1, CommitAppends DEF HistoryKept
<1>2. ASSUME \A t \in Writers : ~CommitWrite(t), NEW i \in DOMAIN records' PROVE HistoryFits(records'[i])
  BY <1>2, RowsKept DEF HistoryKept, Kept
<1>3. \A i \in DOMAIN records' : HistoryFits(records'[i])
  BY <1>1, <1>2
<1> QED BY <1>3 DEF HistoryKept, HistoryFits, verify_hash

\* A row that has escaped so far had escaped before, or is broken right now; in
\* the second case no sweep can have missed it yet.
LEMMA EscapedBefore ==
  ASSUME TypeOK, [Next]_vars, NEW i \in DOMAIN records', Escaped(i)'
  PROVE  /\ i \in DOMAIN records /\ records'[i].recorded_at = records[i].recorded_at
         /\ records[i].recorded_at \in 0 .. MaxHours
         /\ \/ Escaped(i)
            \/ hour = records[i].recorded_at /\ UNCHANGED <<hour, sweep, missed>>
<1>1. ASSUME NEW t \in Writers, CommitWrite(t)
      PROVE  i \in DOMAIN records /\ records'[i] = records[i]
  <2>1. /\ DOMAIN records' = DOMAIN records \cup {Len(records) + 1}
        /\ \A n \in DOMAIN records : records'[n] = records[n]
        /\ records'[Len(records) + 1].broken_in = Never
        /\ records' \in Seq(Record) /\ Len(records') = Len(records) + 1
    BY <1>1, CommitAppends
  <2>2. Len(records) + 1 \in 1 .. Len(records')
    BY <2>1, Rows
  <2>3. records'[Len(records) + 1].recorded_at \in 0 .. MaxHours
    <3>1. records'[Len(records) + 1] \in Record
      BY <2>1, <2>2, ElementOfSeq
    <3> QED BY <3>1 DEF Record
  <2>4. records'[Len(records) + 1].broken_in # records'[Len(records) + 1].recorded_at
    BY <2>1, <2>3, Bounds
  <2>5. i # Len(records) + 1
    BY <2>4 DEF Escaped
  <2> QED BY <2>1, <2>5
<1>2. ASSUME \A t \in Writers : ~CommitWrite(t)
      PROVE  Kept
  BY <1>2, RowsKept
<1>3. i \in DOMAIN records /\ records'[i].recorded_at = records[i].recorded_at
  BY <1>1, <1>2 DEF Kept
<1>4. records[i] \in Record
  BY <1>3, Rows
<1>5. ASSUME NEW n \in DOMAIN records, Tamper(n)
      PROVE  \/ Escaped(i)
             \/ hour = records[i].recorded_at /\ UNCHANGED <<hour, sweep, missed>>
  <2>1. /\ records'[i].hash_verified = records[i].hash_verified
        /\ records'[i].broken_in \in {records[i].broken_in, Never, hour}
    BY <1>3, <1>5, TamperKeeps
  <2>2. UNCHANGED <<hour, sweep, missed>>
    BY <1>5 DEF Tamper
  <2>3. records'[i].broken_in = records[i].recorded_at /\ records[i].recorded_at # Never
    BY <1>3, <1>4, Bounds DEF Escaped, Record
  <2> QED BY <1>3, <2>1, <2>2, <2>3 DEF Escaped
<1>6. ASSUME NEW S, records' = Flag(S) PROVE Escaped(i)
  BY <1>3, <1>6, FlagKeeps DEF Escaped
<1>7. ASSUME records'[i] = records[i] PROVE Escaped(i)
  BY <1>7 DEF Escaped
<1>8. \/ records'[i] = records[i]
      \/ \E S : records' = Flag(S)
      \/ \E n \in DOMAIN records : Tamper(n)
  <2>1. ASSUME NEW t \in Writers, Write(t) \/ Raise(t) \/ LoseWorker(t) PROVE records'[i] = records[i]
    BY <1>1, <2>1 DEF Write, StartWrite, Return, Raise, LoseWorker, vault
  <2>2. CASE HourPasses \/ SweepVault \/ MissSweep \/ Heartbeat \/ Summarise \/ UNCHANGED vars
    BY <2>2 DEF HourPasses, SweepVault, MissSweep, Heartbeat, Summarise, vars, vault
  <2>3. CASE CommitSweep
    BY <2>3 DEF CommitSweep
  <2>4. ASSUME NEW n \in DOMAIN records, GetVaultRecord(n) PROVE \E S : records' = Flag(S)
    BY <2>4 DEF GetVaultRecord
  <2> QED BY <2>1, <2>2, <2>3, <2>4 DEF Next, Sweep
<1>9. records[i].recorded_at \in 0 .. MaxHours
  BY <1>4 DEF Record
<1> QED BY <1>3, <1>5, <1>6, <1>7, <1>8, <1>9

\* Each sweep of a row's window either finds the row or is counted as missed.
LEMMA EscapesStep == ASSUME IInv, [Next]_vars PROVE EscapesExplained'
<1>1. TypeOK /\ EscapesExplained /\ hour \in Nat /\ missed \in Nat /\ hours_lookback \in Nat
      /\ sweep.pc \in {"idle", "due", "verified"}
  BY Bounds DEF IInv, TypeOK
<1> SUFFICES ASSUME NEW i \in DOMAIN records', Escaped(i)'
             PROVE  LET last == records'[i].recorded_at + hours_lookback
                    IN /\ hour' <= last =>
                            missed' + (IF sweep'.pc = "idle" THEN 0 ELSE 1) >= hour' - records'[i].recorded_at
                       /\ hour' > last => missed' >= hours_lookback
                       /\ (sweep'.pc = "verified" /\ hour' <= last /\ hour' > records'[i].recorded_at) =>
                            i \in sweep'.failing
  BY DEF EscapesExplained
<1> DEFINE r == records[i].recorded_at
<1>2. /\ i \in DOMAIN records /\ records'[i].recorded_at = r /\ r \in Nat
      /\ Escaped(i) \/ (hour = r /\ UNCHANGED <<hour, sweep, missed>>)
  BY <1>1, EscapedBefore, Bounds
<1>3. CASE hour = r /\ UNCHANGED <<hour, sweep, missed>>
  BY <1>1, <1>2, <1>3
<1>4. ASSUME Escaped(i)
      PROVE  /\ hour <= r + hours_lookback => missed + (IF sweep.pc = "idle" THEN 0 ELSE 1) >= hour - r
             /\ hour > r + hours_lookback => missed >= hours_lookback
             /\ (sweep.pc = "verified" /\ hour <= r + hours_lookback /\ hour > r) => i \in sweep.failing
  BY <1>1, <1>2, <1>4 DEF EscapesExplained
<1>5. CASE Escaped(i) /\ UNCHANGED <<hour, sweep, missed>>
  BY <1>2, <1>4, <1>5
<1>6. CASE Escaped(i) /\ HourPasses
  <2>1. hour' = hour + 1 /\ sweep.pc = "idle" /\ sweep'.pc = "due" /\ missed' = missed
    <3>1. sweep \in [pc : {"idle", "due", "verified"}, failing : SUBSET DOMAIN records]
      BY <1>1 DEF TypeOK
    <3>2. /\ sweep.pc = "idle" /\ sweep' = [sweep EXCEPT !.pc = "due"]
          /\ hour' = hour + 1 /\ missed' = missed
      BY <1>6 DEF HourPasses
    <3> QED BY <3>1, <3>2
  <2> QED BY <1>1, <1>2, <1>4, <1>6, <2>1
<1>7. CASE Escaped(i) /\ SweepVault
  <2>1. sweep.pc = "due" /\ sweep'.pc = "verified" /\ missed' = missed /\ hour' = hour
    BY <1>7 DEF SweepVault
  <2>2. (hour <= r + hours_lookback /\ hour > r) => i \in sweep'.failing
    <3>1. SUFFICES ASSUME hour <= r + hours_lookback, hour > r PROVE i \in sweep'.failing
      OBVIOUS
    <3>2. ~verify_hash(records[i])
      <4>1. records[i] \in Record /\ HistoryFits(records[i])
        BY <1>1, <1>2, Rows DEF IInv, HistoryKept
      <4>2. r # Never
        BY <4>1, Bounds DEF Record
      <4> QED BY <1>7, <4>1, <4>2 DEF HistoryFits, Escaped
    <3>3. i \in Window
      BY <1>1, <1>2, <3>1 DEF Window
    <3> QED BY <1>2, <1>7, <3>2, <3>3 DEF SweepVault, Escaped
  <2> QED BY <1>1, <1>2, <1>4, <1>7, <2>1, <2>2
<1>8. CASE Escaped(i) /\ CommitSweep
  <2>1. sweep.pc = "verified" /\ sweep'.pc = "idle" /\ missed' = missed /\ hour' = hour
    BY <1>8 DEF CommitSweep, SweepIdle
  <2>2. i \notin sweep.failing
    BY <1>1, <1>2, <1>8, FlagKeeps DEF CommitSweep, Escaped
  <2> QED BY <1>1, <1>2, <1>4, <1>8, <2>1, <2>2
<1>9. CASE Escaped(i) /\ MissSweep
  <2>1. sweep.pc # "idle" /\ sweep'.pc = "idle" /\ missed' = missed + 1 /\ hour' = hour
    BY <1>9 DEF MissSweep, SweepIdle
  <2> QED BY <1>1, <1>2, <1>4, <1>9, <2>1
<1> QED BY <1>2, <1>3, <1>5, <1>6, <1>7, <1>8, <1>9, SweepTouched

\* Rows and flags are only added between the two counts, so that what the
\* second finds verified is at least what was counted less the flagged.
LEMMA SummaryStep == ASSUME IInv, [Next]_vars PROVE CountedFirst' /\ NeverOverstated'
<1>1. /\ TypeOK /\ TypeOK' /\ CountedFirst /\ NeverOverstated
      /\ Len(records) \in Nat /\ DOMAIN records = 1 .. Len(records)
      /\ summary \in [pc : {"idle", "counting", "shown"}, total : Nat, tampered : Int]
  BY TypeStep, Rows DEF IInv, TypeOK
<1>2. /\ Len(records') \in Nat /\ DOMAIN records' = 1 .. Len(records')
      /\ Len(records) <= Len(records') /\ Flagged \subseteq Flagged'
  <2>1. ASSUME NEW t \in Writers, CommitWrite(t)
        PROVE  /\ Len(records') = Len(records) + 1 /\ records' \in Seq(Record)
               /\ Flagged \subseteq Flagged'
    <3>1. /\ Len(records') = Len(records) + 1 /\ records' \in Seq(Record)
          /\ DOMAIN records \subseteq DOMAIN records'
          /\ \A n \in DOMAIN records : records'[n] = records[n]
      BY <1>1, <2>1, CommitAppends
    <3> QED BY <3>1 DEF Flagged, Verified
  <2>2. ASSUME \A t \in Writers : ~CommitWrite(t)
        PROVE  /\ Len(records') = Len(records) /\ records' \in Seq(Record)
               /\ Flagged \subseteq Flagged'
    <3>1. Kept
      BY <1>1, <2>2, RowsKept
    <3> QED BY <3>1 DEF Kept, Flagged, Verified
  <2>3. records' \in Seq(Record) /\ Len(records) <= Len(records') /\ Flagged \subseteq Flagged'
    BY <1>1, <2>1, <2>2
  <2> QED BY <2>3, LenProperties
<1>3. Cardinality(Flagged) \in Nat /\ Cardinality(Flagged') \in Nat
      /\ Cardinality(Flagged) <= Cardinality(Flagged')
  <2>1. IsFiniteSet(1 .. Len(records'))
    BY <1>2, FS_Interval
  <2>2. IsFiniteSet(Flagged')
    BY <1>2, <2>1, FS_Subset DEF Flagged
  <2> QED BY <1>2, <2>2, FS_Subset, FS_CardinalityType
<1>4. CASE summary' = summary
  BY <1>1, <1>2, <1>3, <1>4 DEF CountedFirst, NeverOverstated
<1>5. CASE Summarise
  <2>1. records' = records
    BY <1>5 DEF Summarise, vault
  <2>2. CASE summary.pc = "idle" /\ summary' = [NoSummary EXCEPT !.pc = "counting", !.total = Len(records)]
    <3>1. summary' = [pc |-> "counting", total |-> Len(records), tampered |-> 0]
      BY <2>2 DEF NoSummary
    <3> QED BY <1>1, <2>1, <3>1 DEF CountedFirst, NeverOverstated
  <2>3. CASE /\ summary.pc = "counting"
             /\ summary' = [summary EXCEPT !.pc = "shown",
                                           !.tampered = summary.total - Cardinality(Verified)]
    <3>1. summary'.pc = "shown" /\ summary'.tampered = summary.total - Cardinality(Verified)
      BY <1>1, <2>3
    <3>2. Cardinality(Flagged) = Len(records) - Cardinality(Verified) /\ Cardinality(Verified) \in Nat
      <4>1. IsFiniteSet(1 .. Len(records)) /\ Cardinality(1 .. Len(records)) = Len(records)
        <5>1. \A n \in Nat : IsFiniteSet(1 .. n) /\ Cardinality(1 .. n) = IF 1 > n THEN 0 ELSE n - 1 + 1
          BY FS_Interval
        <5>2. \A n \in Nat : IsFiniteSet(1 .. n) /\ Cardinality(1 .. n) = n
          BY <5>1
        <5> QED BY <1>1, <5>2
      <4>2. Verified \subseteq 1 .. Len(records) /\ Flagged = (1 .. Len(records)) \ Verified
        BY <1>1 DEF Verified, Flagged
      <4>3. IsFiniteSet(Verified) /\ (1 .. Len(records)) \cap Verified = Verified
        BY <4>1, <4>2, FS_Subset
      <4> DEFINE all == 1 .. Len(records)
      <4>6. IsFiniteSet(all) /\ Flagged = all \ Verified /\ all \cap Verified = Verified
        BY <4>1, <4>2, <4>3
      <4> HIDE DEF all
      <4>4. Cardinality(Flagged) = Cardinality(all) - Cardinality(Verified)
        BY <4>6, FS_Difference
      <4> QED BY <4>1, <4>3, <4>4, FS_CardinalityType DEF all
    <3>3. summary.total <= Len(records) /\ summary.total \in Nat
      BY <1>1, <2>3 DEF CountedFirst
    <3>4. summary'.tampered <= Cardinality(Flagged')
      BY <1>1, <1>3, <3>1, <3>2, <3>3
    <3> QED BY <3>1, <3>4 DEF CountedFirst, NeverOverstated
  <2> QED BY <1>5, <2>2, <2>3 DEF Summarise
<1>6. ASSUME NEW t \in Writers, Write(t) \/ Raise(t) \/ LoseWorker(t) PROVE summary' = summary
  BY <1>6 DEF Write, StartWrite, CommitWrite, Return, Raise, LoseWorker
<1>7. ASSUME NEW i \in DOMAIN records, Tamper(i) \/ GetVaultRecord(i) PROVE summary' = summary
  BY <1>7 DEF Tamper, GetVaultRecord
<1>8. CASE HourPasses \/ Sweep \/ MissSweep \/ Heartbeat \/ UNCHANGED vars
  BY <1>4, <1>8 DEF HourPasses, Sweep, SweepVault, CommitSweep, MissSweep, Heartbeat, vars
<1> QED BY <1>4, <1>5, <1>6, <1>7, <1>8 DEF Next
-------------------------------------------------------------------------------
\* The invariant holds at the start: both tables are empty.
LEMMA VaultInit == Init => IInv
<1> SUFFICES ASSUME Init PROVE IInv
  OBVIOUS
<1>1. TypeOK
  BY TypeInit
<1>2. /\ runs = <<>> /\ records = <<>> /\ DOMAIN runs = {} /\ DOMAIN records = {}
      /\ sweep.failing = {} /\ summary.pc = "idle"
  BY DEF Init, SweepIdle, NoSummary
<1>3. Custody /\ HistoryKept /\ EscapesExplained /\ CountedFirst /\ NeverOverstated
  BY <1>2 DEF Custody, HistoryKept, EscapesExplained, CountedFirst, NeverOverstated
<1>4. CopiesCounted
  <2> SUFFICES ASSUME NEW t \in Writers PROVE Cardinality(Stored(t)) = Copies(t)
    BY DEF CopiesCounted
  <2>1. Cardinality(Stored(t)) = 0
    BY <1>2, FS_EmptySet DEF Stored
  <2>2. Copies(t) = 0
    BY DEF Init, Copies
  <2> QED BY <2>1, <2>2
<1> QED BY <1>1, <1>3, <1>4 DEF IInv

\* The invariant holds for any number of writers, faults, retries and hours.
THEOREM VaultInvariant == Spec => []IInv
<1>1. IInv /\ [Next]_vars => IInv'
  <2> SUFFICES ASSUME IInv, [Next]_vars PROVE IInv'
    OBVIOUS
  <2>1. TypeOK'
    BY TypeStep DEF IInv
  <2> QED BY <2>1, CustodyStep, CopiesStep, HistoryStep, EscapesStep, SummaryStep DEF IInv
<1> QED BY VaultInit, <1>1, PTL DEF Spec

\* Retries and hours stay within what is configured, and the sweep only ever
\* holds rows that are still there.
THEOREM VaultTypeCorrect == Spec => []TypeOK
<1>1. IInv => TypeOK
  BY DEF IInv
<1> QED BY VaultInvariant, <1>1, PTL

\* Whatever fails, extraction runs and evidence are always stored together.
THEOREM CustodyUnbroken == Spec => []LedgerMatchesVault
<1>1. IInv => LedgerMatchesVault
  <2> SUFFICES ASSUME TypeOK, Custody PROVE LedgerMatchesVault
    BY DEF IInv
  <2>1. ASSUME NEW k \in DOMAIN runs, runs[k].by # NoWriter
        PROVE  Cardinality({i \in DOMAIN records : records[i].extraction_run_id = k}) = 1
    <3>1. PICK i \in DOMAIN records : records[i].extraction_run_id = k
      BY <2>1 DEF Custody
    <3>2. {j \in DOMAIN records : records[j].extraction_run_id = k} = {i}
      BY <3>1 DEF Custody
    <3> QED BY <3>2, FS_Singleton
  <2> QED BY <2>1 DEF Custody, LedgerMatchesVault
<1> QED BY VaultInvariant, <1>1, PTL

\* Evidence stored more than once is explained by failures after a commit.
THEOREM CopiesExplained == Spec => []RepeatsExplainCopies
<1>1. IInv => RepeatsExplainCopies
  <2> SUFFICES ASSUME TypeOK, CopiesCounted, NEW t \in Writers
               PROVE  /\ Cardinality(Stored(t)) <= writer[t].repeats + 1
                      /\ writer[t].pc = "succeeded" => Stored(t) # {}
    BY DEF IInv, RepeatsExplainCopies
  <2>1. Cardinality(Stored(t)) = Copies(t) /\ writer[t].repeats \in Nat
    BY DEF CopiesCounted, TypeOK
  <2>2. Cardinality(Stored(t)) <= writer[t].repeats + 1
    BY <2>1 DEF Copies
  <2>3. ASSUME writer[t].pc = "succeeded" PROVE Stored(t) # {}
    <3>1. Cardinality(Stored(t)) # 0
      BY <2>1, <2>3 DEF Copies
    <3> QED BY <3>1, FS_EmptySet
  <2> QED BY <2>2, <2>3
<1> QED BY VaultInvariant, <1>1, PTL

\* The overlap of the sweeps' windows makes up for missed sweeps, one less than
\* the hours a sweep looks back, however often payloads and hashes are edited:
\* only a row that verifies again is passed over.
THEOREM MissesTolerated == Spec => []OneMissTolerated
<1>1. IInv => OneMissTolerated
  <2> SUFFICES ASSUME IInv, NEW i \in DOMAIN records,
                      records[i].broken_in = records[i].recorded_at,
                      hour > records[i].recorded_at + hours_lookback,
                      missed < hours_lookback
               PROVE  ~records[i].hash_verified
    BY DEF OneMissTolerated
  <2>1. missed \in Nat /\ hours_lookback \in Nat
    BY Bounds DEF IInv, TypeOK
  <2>2. SUFFICES ASSUME records[i].hash_verified PROVE FALSE
    OBVIOUS
  <2>3. missed >= hours_lookback
    BY <2>2 DEF IInv, EscapesExplained, Escaped
  <2> QED BY <2>1, <2>3
<1> QED BY VaultInvariant, <1>1, PTL

\* The dashboard never shows more tampered records than there are.
THEOREM SummaryNeverOverstated == Spec => []NeverOverstated
<1>1. IInv => NeverOverstated
  BY DEF IInv
<1> QED BY VaultInvariant, <1>1, PTL
===============================================================================
