--------------------------- MODULE FindingsWorkflow ---------------------------
(***************************************************************************)
(* The remediation workflow of one finding (api/v1/endpoints/findings.py)  *)
(* together with the governance ledger every step of it appends to.        *)
(*                                                                         *)
(* Each handler loads the finding into its session, changes it there,      *)
(* appends a ledger entry and a workflow log row, and commits all of it at *)
(* once.  db.commit() writes only the columns whose value differs from the *)
(* one LOADED, so a handler that sets a column to the value it loaded      *)
(* leaves whatever another request committed in between.  The UPDATE takes *)
(* the row lock until the transaction ends.  Findings do not interact      *)
(* except through the ledger; "policy" stands for the requests of          *)
(* governance.py that append to the same ledger.                           *)
(***************************************************************************)
EXTENDS Integers, Sequences, FiniteSets

CONSTANTS
  Requests,     \* the calls of the API
  GENESIS,      \* previous_hash of the first entry of the ledger
  MaxInFlight,  \* connections of the pool
  Owners,       \* the values of remediation_owner
  NoOwner       \* remediation_owner is null

ASSUME OwnerAssumption == NoOwner \notin Owners
ASSUME WorkflowGenesisAssumption == GENESIS \notin Requests
ASSUME WorkflowPoolAssumption == MaxInFlight \in Nat \ {0}

VARIABLES
  pc, previous_hash, created_at, clock, seen,   \* the ledger's transactions
  call,           \* the handler each request runs, and its argument
  finding,        \* the committed row: status and remediation_owner
  loaded,         \* the row as each session loaded it
  row_lock,       \* the transaction that holds the lock of the row, if any
  workflow_logs,  \* committed workflow log rows, in commit order
  responses       \* committed management_responses rows

ledger == <<pc, previous_hash, created_at, clock, seen>>
vars == <<ledger, call, finding, loaded, row_lock, workflow_logs, responses>>

L == INSTANCE GovernanceLedger

Calls ==
  [handler : {"assign"}, owner : Owners]
    \cup [handler : {"respond", "delete", "policy"}, owner : {NoOwner}]
\* "retest" and "closed" are named by the model but set by no handler.
Statuses == {"open", "management_response", "remediation"}
Rows == [status : Statuses, owner : Owners \cup {NoOwner}]
LogRows ==
  [request : Requests,
   from : {"open", "management_response", "delete_requested"},
   to   : {"management_response", "remediation", "delete_blocked"}]
NotLoaded == [status |-> "not loaded", owner |-> NoOwner]
Unlocked == "unlocked"

Edits(r) == call[r].handler \in {"assign", "respond"}

\* The stages the handlers write into their WorkflowLog row.
LogStages ==
  [assign  |-> [from |-> "open", to |-> "management_response"],
   respond |-> [from |-> "management_response", to |-> "remediation"],
   delete  |-> [from |-> "delete_requested", to |-> "delete_blocked"]]

LogRow(r) ==
  [request |-> r,
   from |-> LogStages[call[r].handler].from,
   to   |-> LogStages[call[r].handler].to]

\* Two faulty variants of Edited, then Edited.
\* a response leaves the status of the finding as it was
EditedNoStatus(r) ==
  IF call[r].handler = "assign"
  THEN [status |-> "management_response", owner |-> call[r].owner]
  ELSE loaded[r]

\* The row as the handler leaves it in its session.
Edited(r) ==
  IF call[r].handler = "assign"
  THEN [status |-> "management_response", owner |-> call[r].owner]
  ELSE [loaded[r] EXCEPT !.status = "remediation"]

\* The row after an UPDATE of the columns whose value differs from the loaded.
Updated(r) ==
  [column \in {"status", "owner"} |->
     IF Edited(r)[column] # loaded[r][column] THEN Edited(r)[column]
                                              ELSE finding[column]]

NeedsUpdate(r) == Edits(r) /\ Edited(r) # loaded[r]

-------------------------------------------------------------------------------
\* Faulty variants of the definitions below.

\* the finding is committed before the ledger entry is appended
UpdateRowAutocommit(r) ==
  /\ pc[r] \in {"built", "flushed"}
  /\ NeedsUpdate(r)
  /\ row_lock = Unlocked
  /\ row_lock' = r
  /\ finding' = Updated(r)
  /\ UNCHANGED <<ledger, call, loaded, workflow_logs, responses>>

\* the lock outlives a session that is dropped
RollBackKeepsLock(r) ==
  /\ L!RollBack(r)
  /\ UNCHANGED <<call, finding, loaded, row_lock, workflow_logs, responses>>

\* the workflow log row has a transaction of its own, committed first
InsertRowsLogged(r) ==
  /\ L!Flush(r)
  /\ workflow_logs' =
       IF call[r].handler = "policy" THEN workflow_logs
       ELSE Append(workflow_logs, LogRow(r))
  /\ UNCHANGED <<call, finding, loaded, row_lock, responses>>

-------------------------------------------------------------------------------
Init ==
  /\ L!Init
  /\ call \in [Requests -> Calls]
  /\ finding = [status |-> "open", owner |-> NoOwner]
  /\ loaded = [r \in Requests |-> NotLoaded]
  /\ row_lock = Unlocked
  /\ workflow_logs = <<>>
  /\ responses = {}

OpenSession(r) ==
  /\ L!OpenSession(r)
  /\ UNCHANGED <<call, finding, loaded, row_lock, workflow_logs, responses>>

\* SELECT the finding; delete and policy do not look at it.
LoadFinding(r) ==
  /\ pc[r] = "open"
  /\ Edits(r)
  /\ loaded[r] = NotLoaded
  /\ loaded' = [loaded EXCEPT ![r] = finding]
  /\ UNCHANGED <<ledger, call, finding, row_lock, workflow_logs, responses>>

\* Change the loaded row, read the tip, add the log rows to the session.
AppendEntry(r) ==
  /\ L!AppendEntry(r)
  /\ Edits(r) => loaded[r] # NotLoaded
  /\ UNCHANGED <<call, finding, loaded, row_lock, workflow_logs, responses>>

\* db.commit() flushes its INSERTs and its UPDATE in an order of its own.
InsertRows(r) ==
  /\ L!Flush(r)
  /\ UNCHANGED <<call, finding, loaded, row_lock, workflow_logs, responses>>

UpdateRow(r) ==
  /\ pc[r] \in {"built", "flushed"}
  /\ NeedsUpdate(r)
  /\ row_lock = Unlocked
  /\ row_lock' = r
  /\ UNCHANGED <<ledger, call, finding, loaded, workflow_logs, responses>>

Commit(r) ==
  /\ L!Commit(r)
  /\ NeedsUpdate(r) => row_lock = r
  /\ finding' = IF Edits(r) THEN Updated(r) ELSE finding
  /\ workflow_logs' =
       IF call[r].handler = "policy" THEN workflow_logs
       ELSE Append(workflow_logs, LogRow(r))
  /\ responses' = IF call[r].handler = "respond" THEN responses \cup {r}
                                                 ELSE responses
  /\ row_lock' = IF row_lock = r THEN Unlocked ELSE row_lock
  /\ UNCHANGED <<call, loaded>>

RollBack(r) ==
  /\ L!RollBack(r)
  /\ row_lock' = IF row_lock = r THEN Unlocked ELSE row_lock
  /\ UNCHANGED <<call, finding, loaded, workflow_logs, responses>>

Handle(r) ==
  \/ OpenSession(r) \/ LoadFinding(r) \/ AppendEntry(r)
  \/ InsertRows(r) \/ UpdateRow(r) \/ Commit(r)

Next == \E r \in Requests : Handle(r) \/ RollBack(r)

Spec == Init /\ [][Next]_vars

\* The event loop resumes every handler whose await can complete.
FairSpec == Spec /\ \A r \in Requests : WF_vars(Handle(r))

-------------------------------------------------------------------------------
\* Every variable has its type.
TypeOK ==
  /\ L!TypeOK
  /\ call \in [Requests -> Calls]
  /\ finding \in Rows
  /\ loaded \in [Requests -> Rows \cup {NotLoaded}]
  /\ row_lock \in Requests \cup {Unlocked}
  /\ workflow_logs \in Seq(LogRows)
  /\ responses \subseteq Requests

\* What the committed finding says can be explained from the ledger: it is in
\* remediation only after a committed response, and its owner is one that a
\* committed REMEDIATION_ASSIGNED event names.
RowExplained ==
  /\ finding.status = "remediation" => responses # {}
  /\ finding.owner # NoOwner =>
       \E r \in L!Committed :
         call[r].handler = "assign" /\ call[r].owner = finding.owner

\* The workflow log row that the last committed edit of the finding left.
LastEdit ==
  {i \in DOMAIN workflow_logs :
     /\ Edits(workflow_logs[i].request)
     /\ \A j \in DOMAIN workflow_logs : j > i => ~Edits(workflow_logs[j].request)}

\* The status of the finding is the stage its last edit moved to.
StatusIsLastStage == \A i \in LastEdit : finding.status = workflow_logs[i].to

\* The tables tell one story: each assignment, response and refused deletion
\* has its entry in the ledger and one row in the workflow log or neither, and
\* a response is stored with its entry.  So a DELETE that was refused left its
\* LOG_TAMPERING_ALERT, and one whose session was dropped claims nothing.
LogsMatchLedger ==
  /\ \A i \in DOMAIN workflow_logs :
       \E r \in L!Committed : call[r].handler # "policy" /\ workflow_logs[i] = LogRow(r)
  /\ \A r \in L!Committed : call[r].handler # "policy" =>
       \E i \in DOMAIN workflow_logs : workflow_logs[i].request = r
  /\ \A i, j \in DOMAIN workflow_logs :
       workflow_logs[i].request = workflow_logs[j].request => i = j
  /\ responses = {r \in L!Committed : call[r].handler = "respond"}

\* Every call that was given a connection is answered, however the calls
\* contend for the row and whichever of them fail.
CallsEnd ==
  \A r \in Requests :
    pc[r] = "open" ~> pc[r] \in {"committed", "rolled_back"}

===============================================================================
