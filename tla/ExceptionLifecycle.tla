-------------------------- MODULE ExceptionLifecycle --------------------------
(***************************************************************************)
(* One audit exception and the clients that move it through its lifecycle  *)
(* (create_exception and transition_exception of                           *)
(* api/v1/endpoints/evaluation.py).                                        *)
(*                                                                         *)
(* transition_exception loads the row, checks the requested state against  *)
(* the one it loaded, rebuilds the comments list from the one it loaded,   *)
(* and commits.  No version column and no SELECT ... FOR UPDATE guards the *)
(* row between the load and the UPDATE of db.commit(); the UPDATE itself   *)
(* takes the row lock until the transaction ends.                          *)
(***************************************************************************)
EXTENDS Integers, Sequences, FiniteSets

CONSTANTS
  Clients,         \* concurrent callers of the API
  Nobody,          \* holder of a row lock nobody holds
  MaxInFlight,     \* connections of the pool: sessions open at one time
  MaxTransitions   \* bound: transitions committed, and in flight, in a run

ASSUME NobodyAssumption == Nobody \notin Clients
ASSUME PoolAssumption == MaxInFlight \in Nat \ {0}
ASSUME BoundAssumption == MaxTransitions \in Nat

VARIABLES
  record,         \* the committed row of audit_exceptions
  workflow_logs,  \* committed workflow log rows, in commit order
  pc,             \* the stage of each client's request
  session,        \* the row each request loaded, and the state it asks for
  row_lock,       \* the client whose transaction holds the row lock
  reply           \* the state the last answer of each client showed

vars == <<record, workflow_logs, pc, session, row_lock, reply>>

_VALID_TRANSITIONS ==
  [open                    |-> {"acknowledged", "accepted_risk"},
   acknowledged            |-> {"remediation_in_progress", "accepted_risk"},
   remediation_in_progress |-> {"remediated"},
   remediated              |-> {"closed"},
   accepted_risk           |-> {"closed"},
   closed                  |-> {}]

CanonicalStates == DOMAIN _VALID_TRANSITIONS

\* The column is VARCHAR(20): the one longer name is stored as a shorter token.
_to_storage_state(state) ==
  IF state = "remediation_in_progress" THEN "remediation_progress" ELSE state

_to_canonical_state(state) ==
  IF state = "remediation_progress" THEN "remediation_in_progress" ELSE state

StorageStates == {_to_storage_state(s) : s \in CanonicalStates}

\* What a client may ask for: a canonical name, the stored token, or neither.
Requested == CanonicalStates \cup {"remediation_progress", "unknown"}

Steps == [from : CanonicalStates, to : CanonicalStates]

Rows == [state    : StorageStates \cup {"none"},
         comments : Seq(Steps),
         resolved : BOOLEAN]

NoRecord == [state |-> "none", comments |-> <<>>, resolved |-> FALSE]
NoSession == [row |-> NoRecord, to |-> "none"]

InFlight == {c \in Clients : pc[c] \in {"checked", "written"}}
ConnectionFree == Cardinality({c \in Clients : pc[c] # "idle"}) < MaxInFlight

-------------------------------------------------------------------------------
\* Faulty variants of the definitions below.

\* the audit entry records the stored token instead of the canonical state
StepFromStorage(c) ==
  [from |-> session[c].row.state, to |-> session[c].to]

\* the entry is appended to the list as it is at commit, not as loaded
RowRebuilt(c) ==
  [state    |-> _to_storage_state(session[c].to),
   comments |-> Append(record.comments,
                       [from |-> _to_canonical_state(session[c].row.state),
                        to   |-> session[c].to]),
   resolved |-> record.resolved \/ session[c].to = "closed"]

\* resolved_at is written back from the loaded row
RowStaleResolved(c) ==
  [state    |-> _to_storage_state(session[c].to),
   comments |-> Append(session[c].row.comments,
                       [from |-> _to_canonical_state(session[c].row.state),
                        to   |-> session[c].to]),
   resolved |-> session[c].row.resolved \/ session[c].to = "closed"]

\* the workflow log row is added after the commit, by a second one that fails
CommitUnlogged(c) ==
  /\ pc[c] = "written"
  /\ record' = [state    |-> _to_storage_state(session[c].to),
                comments |-> Append(session[c].row.comments,
                                    StepFromStorage(c)),
                resolved |-> record.resolved]
  /\ row_lock' = Nobody
  /\ pc' = [pc EXCEPT ![c] = "committed"]
  /\ UNCHANGED <<workflow_logs, session, reply>>

\* the check compares the raw column, so the stored token has no successors
AllowedRaw(row, to) ==
  row.state \in CanonicalStates /\ to \in CanonicalStates

\* the row lock outlives a dropped session
RollBackKeepsLock(c) ==
  /\ pc[c] \in {"checked", "written"}
  /\ pc' = [pc EXCEPT ![c] = "idle"]
  /\ session' = [session EXCEPT ![c] = NoSession]
  /\ UNCHANGED <<record, workflow_logs, row_lock, reply>>

-------------------------------------------------------------------------------
Init ==
  /\ record = NoRecord
  /\ workflow_logs = <<>>
  /\ pc = [c \in Clients |-> "idle"]
  /\ session = [c \in Clients |-> NoSession]
  /\ row_lock = Nobody
  /\ reply = [c \in Clients |-> "none"]

\* POST /exceptions: one INSERT in a transaction of its own.
CreateException(c) ==
  /\ pc[c] = "idle"
  /\ ConnectionFree
  /\ record = NoRecord
  /\ record' = [NoRecord EXCEPT !.state = "open"]
  /\ reply' = [reply EXCEPT ![c] = "open"]
  /\ UNCHANGED <<workflow_logs, pc, session, row_lock>>

Allowed(row, to) == to \in _VALID_TRANSITIONS[_to_canonical_state(row.state)]

\* Load the row and check the transition.  A missing row (404) and a state
\* that may not follow (422) end the request without a trace.
LoadAndCheck(c) ==
  /\ pc[c] = "idle"
  /\ ConnectionFree
  /\ Len(workflow_logs) + Cardinality(InFlight) < MaxTransitions
  /\ record # NoRecord
  /\ \E new_state \in Requested :
       LET to == _to_canonical_state(new_state)
       IN /\ Allowed(record, to)
          /\ session' = [session EXCEPT ![c] = [row |-> record, to |-> to]]
  /\ pc' = [pc EXCEPT ![c] = "checked"]
  /\ UNCHANGED <<record, workflow_logs, row_lock, reply>>

\* The UPDATE that db.commit() flushes: it waits for the row lock.
Write(c) ==
  /\ pc[c] = "checked"
  /\ row_lock = Nobody
  /\ row_lock' = c
  /\ pc' = [pc EXCEPT ![c] = "written"]
  /\ UNCHANGED <<record, workflow_logs, session, reply>>

\* The audit entry of the transition.
Step(c) ==
  [from |-> _to_canonical_state(session[c].row.state), to |-> session[c].to]

\* The row after the UPDATE; resolved_at is in it only when the exception is
\* closed.
Row(c) ==
  [state    |-> _to_storage_state(session[c].to),
   comments |-> Append(session[c].row.comments, Step(c)),
   resolved |-> record.resolved \/ session[c].to = "closed"]

Commit(c) ==
  /\ pc[c] = "written"
  /\ record' = Row(c)
  /\ workflow_logs' = Append(workflow_logs, Step(c))
  /\ row_lock' = Nobody
  /\ pc' = [pc EXCEPT ![c] = "committed"]
  /\ UNCHANGED <<session, reply>>

RollBack(c) ==
  /\ c \in InFlight
  /\ row_lock' = IF row_lock = c THEN Nobody ELSE row_lock
  /\ pc' = [pc EXCEPT ![c] = "idle"]
  /\ session' = [session EXCEPT ![c] = NoSession]
  /\ UNCHANGED <<record, workflow_logs, reply>>

\* db.refresh reads the row anew; the answer shows its state in the API's
\* vocabulary and the session is closed without another commit.
Answer(c) ==
  /\ pc[c] = "committed"
  /\ reply' = [reply EXCEPT ![c] = _to_canonical_state(record.state)]
  /\ pc' = [pc EXCEPT ![c] = "idle"]
  /\ session' = [session EXCEPT ![c] = NoSession]
  /\ UNCHANGED <<record, workflow_logs, row_lock>>

Next ==
  \E c \in Clients :
    \/ CreateException(c) \/ LoadAndCheck(c) \/ Write(c)
    \/ Commit(c) \/ RollBack(c) \/ Answer(c)

Spec == Init /\ [][Next]_vars

\* A request that is under way is resumed, and the database grants a row lock
\* in the order of the waiting transactions.
FairSpec ==
  /\ Spec
  /\ \A c \in Clients : WF_vars(Commit(c)) /\ WF_vars(Answer(c))
                        /\ SF_vars(Write(c))

-------------------------------------------------------------------------------
\* Every variable has its type; the column holds stored tokens only, an
\* answer canonical names only.
TypeOK ==
  /\ record \in Rows
  /\ workflow_logs \in Seq(Steps)
  /\ pc \in [Clients -> {"idle", "checked", "written", "committed"}]
  /\ session \in [Clients -> [row : Rows, to : CanonicalStates \cup {"none"}]]
  /\ row_lock \in Clients \cup {Nobody}
  /\ reply \in [Clients -> CanonicalStates \cup {"none"}]

\* A list of audit entries that walks the lifecycle from "open" to a state.
LegalPath(comments, state) ==
  /\ \A i \in DOMAIN comments :
       /\ comments[i].to \in _VALID_TRANSITIONS[comments[i].from]
       /\ comments[i].from = IF i = 1 THEN "open" ELSE comments[i - 1].to
  /\ state = IF comments = <<>> THEN "open" ELSE comments[Len(comments)].to

\* However requests interleave, the row is one a serial history could have
\* left: its comments walk the lifecycle and end in its state.
RecordIsConsistent ==
  record # NoRecord =>
    LegalPath(record.comments, _to_canonical_state(record.state))

IsSubSeqOf(s, t) ==
  \E place \in [DOMAIN s -> DOMAIN t] :
    /\ \A i, j \in DOMAIN s : i < j => place[i] < place[j]
    /\ \A i \in DOMAIN s : s[i] = t[place[i]]

\* The comments never show a step the workflow log does not have, nor in
\* another order.
CommentsAreLogged == IsSubSeqOf(record.comments, workflow_logs)

\* resolved_at says that the exception was closed at some time.
ResolvedMeansClosed ==
  record.resolved <=> \E i \in DOMAIN workflow_logs :
                        workflow_logs[i].to = "closed"

Lifecycle == INSTANCE ExceptionStateMachine
               WITH state <- _to_canonical_state(record.state)

\* A transition that nobody overtook between its check and its UPDATE moves the
\* exception as the documented lifecycle allows, whatever the others do.
StepsFollowLifecycle ==
  [][(\A c \in Clients : pc[c] = "written" /\ pc'[c] = "committed"
                           => session[c].row.state = record.state)
     => Lifecycle!Next \/ UNCHANGED record]_vars

\* "closed" is final.
ClosedIsFinal == [][record.state = "closed" => record'.state = "closed"]_record

\* Whoever holds a row gives it up: a transition that passed its check is
\* answered or dropped although others wait for the same row.
TransitionsEnd == \A c \in Clients : pc[c] = "checked" ~> pc[c] = "idle"

===============================================================================
