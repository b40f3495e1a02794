----------------------- MODULE ExceptionLifecycleProofs -----------------------
(***************************************************************************)
(* Theorems about ExceptionLifecycle for every set of clients, every size  *)
(* of the pool and every number of transitions.                            *)
(*                                                                         *)
(* What a request writes is computed from the row it loaded, so the        *)
(* inductive invariant says of every loaded row what RecordIsConsistent    *)
(* says of the committed one, and that the check the request passed is     *)
(* still about that row when it commits.  With one connection nothing is   *)
(* overtaken, and the documented lifecycle is kept step by step.           *)
(***************************************************************************)
EXTENDS ExceptionLifecycle, SequenceTheorems, FiniteSetTheorems, TLAPS

\* A row a serial history could have left.
Consistent(row) ==
  row # NoRecord => LegalPath(row.comments, _to_canonical_state(row.state))

\* A request past its check holds a real row, and a step that row allows.
SessionsChecked ==
  \A c \in InFlight :
    /\ session[c].row # NoRecord
    /\ Consistent(session[c].row)
    /\ session[c].to \in CanonicalStates
    /\ Allowed(session[c].row, session[c].to)

IInv == TypeOK /\ Consistent(record) /\ SessionsChecked

-------------------------------------------------------------------------------
\* The two translations of a state name between column and API.
LEMMA Translations ==
  /\ \A s \in CanonicalStates :
       /\ _to_storage_state(s) \in StorageStates
       /\ _to_canonical_state(_to_storage_state(s)) = s
       /\ _to_canonical_state(s) = s
  /\ \A s \in StorageStates : _to_canonical_state(s) \in CanonicalStates
  /\ \A s \in Requested :
       _to_canonical_state(s) \in CanonicalStates \cup {"unknown"}
BY DEF CanonicalStates, StorageStates, Requested, _VALID_TRANSITIONS,
       _to_storage_state, _to_canonical_state

\* "none" is no stored token, so a row that has a token is a real row.
LEMMA RealRow ==
  /\ "none" \notin StorageStates
  /\ "none" \notin CanonicalStates
  /\ "unknown" \notin CanonicalStates
  /\ "closed" \in CanonicalStates /\ "open" \in StorageStates
BY DEF CanonicalStates, StorageStates, _VALID_TRANSITIONS, _to_storage_state

\* The successors of a state are states.
LEMMA SuccessorsAreStates ==
  \A s \in CanonicalStates : _VALID_TRANSITIONS[s] \subseteq CanonicalStates
BY DEF CanonicalStates, _VALID_TRANSITIONS

\* A legal path stays legal when it is extended by a step its end allows.
LEMMA PathExtends ==
  ASSUME NEW comments \in Seq(Steps), NEW state \in CanonicalStates,
         NEW to \in _VALID_TRANSITIONS[state], LegalPath(comments, state)
  PROVE  LegalPath(Append(comments, [from |-> state, to |-> to]), to)
<1> DEFINE entry == [from |-> state, to |-> to]
           longer == Append(comments, entry)
<1>1. Len(longer) = Len(comments) + 1 /\ Len(comments) \in Nat
  BY AppendProperties
<1>2. /\ longer[Len(comments) + 1] = entry
      /\ \A i \in 1 .. Len(comments) : longer[i] = comments[i]
  BY AppendProperties
<1>3. DOMAIN longer = 1 .. Len(comments) + 1 /\ DOMAIN comments = 1 .. Len(comments)
  BY <1>1, LenProperties, AppendProperties
<1>4. longer # <<>>
  BY <1>1, EmptySeq
<1>5. to = longer[Len(longer)].to
  BY <1>1, <1>2
<1>6. ASSUME NEW i \in DOMAIN longer
      PROVE  /\ longer[i].to \in _VALID_TRANSITIONS[longer[i].from]
             /\ longer[i].from = IF i = 1 THEN "open" ELSE longer[i - 1].to
  <2>1. CASE i = Len(comments) + 1
    <3>1. longer[i].to \in _VALID_TRANSITIONS[longer[i].from]
      BY <2>1, <1>2
    <3>2. CASE comments = <<>>
      BY <3>1, <3>2, <2>1, <1>2 DEF LegalPath
    <3>3. CASE comments # <<>>
      <4>1. Len(comments) \in 1 .. Len(comments) /\ i # 1 /\ i - 1 = Len(comments)
        BY <3>3, <2>1, <1>1, EmptySeq
      <4>2. longer[i - 1] = comments[Len(comments)]
        BY <4>1, <1>2
      <4> QED
        BY <3>1, <3>3, <4>1, <4>2, <2>1, <1>2 DEF LegalPath
    <3> QED
      BY <3>2, <3>3
  <2>2. CASE i # Len(comments) + 1
    <3>1. i \in 1 .. Len(comments) /\ (i # 1 => i - 1 \in 1 .. Len(comments))
      BY <2>2, <1>1, <1>3
    <3> QED
      BY <3>1, <1>2, <1>3 DEF LegalPath
  <2> QED
    BY <2>1, <2>2
<1> QED
  BY <1>4, <1>5, <1>6 DEF LegalPath

-------------------------------------------------------------------------------
\* Before the exception is created the invariant holds: there is no row to misread.
LEMMA InitInv == Init => IInv
<1> SUFFICES ASSUME Init PROVE IInv
  OBVIOUS
<1>1. NoRecord \in Rows
  BY DEF NoRecord, Rows
<1>2. TypeOK
  BY <1>1 DEF Init, TypeOK, NoSession
<1> QED
  BY <1>2 DEF Init, IInv, Consistent, SessionsChecked, InFlight

\* The row a checked request holds has a state the lifecycle knows.
LEMMA CheckedRowHasState ==
  ASSUME IInv, NEW c \in InFlight
  PROVE  _to_canonical_state(session[c].row.state) \in CanonicalStates
<1> DEFINE row == session[c].row
           from == _to_canonical_state(row.state)
<1>1. row \in Rows /\ LegalPath(row.comments, from)
  BY DEF IInv, TypeOK, SessionsChecked, Consistent, InFlight
<1>2. row.state \in StorageStates \cup {"none"} /\ row.comments \in Seq(Steps)
  BY <1>1 DEF Rows
<1>3. CASE row.state = "none"
  <2>1. from = "none"
    BY <1>3 DEF _to_canonical_state
  <2>2. row.comments = <<>> => from = "open"
    BY <1>1 DEF LegalPath
  <2>3. row.comments # <<>> => row.comments[Len(row.comments)] \in Steps
    BY <1>2, EmptySeq, ElementOfSeq, LenProperties
  <2>4. row.comments # <<>> => from \in CanonicalStates
    BY <1>1, <2>3 DEF LegalPath, Steps
  <2> QED
    BY <2>1, <2>2, <2>4, RealRow
<1> QED
  BY <1>2, <1>3, Translations

\* The row a commit writes is a row, and consistent.
LEMMA CommittedRow ==
  ASSUME IInv, NEW c \in Clients, pc[c] = "written"
  PROVE  /\ Row(c) \in Rows
         /\ Consistent(Row(c))
         /\ Step(c) \in Steps
<1> DEFINE row == session[c].row
           from == _to_canonical_state(row.state)
           to == session[c].to
<1>1. c \in InFlight
  BY DEF InFlight
<1>2. row \in Rows /\ row # NoRecord /\ to \in CanonicalStates
  BY <1>1 DEF IInv, TypeOK, SessionsChecked
<1>3. to \in _VALID_TRANSITIONS[from]
  BY <1>1 DEF IInv, SessionsChecked, Allowed
<1>4. LegalPath(row.comments, from)
  BY <1>1 DEF IInv, SessionsChecked, Consistent
<1>5. from \in CanonicalStates
  BY <1>1, CheckedRowHasState
<1>6. Step(c) = [from |-> from, to |-> to]
  BY DEF Step
<1>7. Step(c) \in Steps
  BY <1>6, <1>5, <1>2 DEF Steps
<1>8. Row(c).state = _to_storage_state(to)
      /\ Row(c).comments = Append(row.comments, Step(c))
  BY DEF Row
<1>9. Row(c) \in Rows
  <2>1. row.comments \in Seq(Steps)
    BY <1>2 DEF Rows
  <2>2. Append(row.comments, Step(c)) \in Seq(Steps)
    BY <2>1, <1>7, AppendProperties
  <2>3. record.resolved \in BOOLEAN
    BY DEF IInv, TypeOK, Rows
  <2>4. _to_storage_state(to) \in StorageStates
    BY <1>2, Translations
  <2> QED
    BY <2>2, <2>3, <2>4 DEF Row, Rows
<1>10. Consistent(Row(c))
  <2>1. LegalPath(Append(row.comments, [from |-> from, to |-> to]), to)
    BY <1>2, <1>3, <1>4, <1>5, PathExtends DEF Rows
  <2>2. _to_canonical_state(Row(c).state) = to
    BY <1>2, <1>8, Translations
  <2> QED
    BY <2>1, <2>2, <1>6, <1>8 DEF Consistent
<1> QED
  BY <1>7, <1>9, <1>10

\* Every step of a client, a crash included, keeps the invariant.
LEMMA InvStep == IInv /\ [Next]_vars => IInv'
<1> SUFFICES ASSUME IInv, [Next]_vars PROVE IInv'
  OBVIOUS
<1> USE DEF IInv
<1>1. ASSUME NEW c \in Clients, CreateException(c) PROVE IInv'
  <2>1. record' \in Rows /\ record'.comments = <<>> /\ record'.state = "open"
    <3>1. record' = [state |-> "open", comments |-> <<>>, resolved |-> FALSE]
      BY <1>1 DEF CreateException, NoRecord
    <3>2. <<>> \in Seq(Steps)
      OBVIOUS
    <3> QED
      BY <3>1, <3>2, RealRow DEF Rows
  <2>2. "open" \in CanonicalStates
    BY DEF CanonicalStates, _VALID_TRANSITIONS
  <2>3. TypeOK'
    BY <1>1, <2>1, <2>2 DEF CreateException, TypeOK
  <2>4. Consistent(record)'
    BY <2>1 DEF Consistent, LegalPath, _to_canonical_state
  <2>5. SessionsChecked'
    BY <1>1 DEF CreateException, SessionsChecked, InFlight
  <2> QED
    BY <2>3, <2>4, <2>5
<1>2. ASSUME NEW c \in Clients, LoadAndCheck(c) PROVE IInv'
  <2>1. PICK new_state \in Requested :
          LET to == _to_canonical_state(new_state)
          IN /\ Allowed(record, to)
             /\ session' = [session EXCEPT ![c] = [row |-> record, to |-> to]]
    BY <1>2 DEF LoadAndCheck
  <2> DEFINE to == _to_canonical_state(new_state)
  <2>2. record # NoRecord /\ record \in Rows
    BY <1>2 DEF LoadAndCheck, TypeOK
  <2>3. _to_canonical_state(record.state) \in CanonicalStates
    <3>1. record.state \in StorageStates \cup {"none"}
      BY <2>2 DEF Rows
    <3>2. CASE record.state = "none"
      <4>1. _to_canonical_state(record.state) = "none"
        BY <3>2 DEF _to_canonical_state
      <4>2. LegalPath(record.comments, _to_canonical_state(record.state))
        BY <2>2 DEF Consistent
      <4>3. record.comments = <<>> => "none" = "open"
        BY <4>1, <4>2 DEF LegalPath
      <4>4. record.comments # <<>> => record.comments[Len(record.comments)] \in Steps
        BY <2>2, EmptySeq, ElementOfSeq, LenProperties DEF Rows
      <4> QED
        BY <4>1, <4>2, <4>3, <4>4 DEF LegalPath, Steps
    <3> QED
      BY <3>1, <3>2, Translations
  <2>4. to \in CanonicalStates
    BY <2>1, <2>3, SuccessorsAreStates DEF Allowed
  <2>5. TypeOK'
    <3>1. [row |-> record, to |-> to]
            \in [row : Rows, to : CanonicalStates \cup {"none"}]
      BY <2>2, <2>4
    <3> HIDE DEF to
    <3> QED
      BY <1>2, <2>1, <3>1 DEF LoadAndCheck, TypeOK, to
  <2>6. SessionsChecked'
    <3> SUFFICES ASSUME NEW d \in InFlight'
                 PROVE  /\ session'[d].row # NoRecord
                        /\ Consistent(session'[d].row)
                        /\ session'[d].to \in CanonicalStates
                        /\ Allowed(session'[d].row, session'[d].to)
      BY DEF SessionsChecked, Consistent, Allowed
    <3>1. CASE d = c
      <4>1. session'[d] = [row |-> record, to |-> to]
        BY <3>1, <2>1 DEF TypeOK
      <4> QED
        BY <4>1, <2>1, <2>2, <2>4
    <3>2. CASE d # c
      <4>1. d \in InFlight /\ session'[d] = session[d]
        BY <3>2, <1>2, <2>1 DEF LoadAndCheck, InFlight, TypeOK
      <4> QED
        BY <4>1 DEF SessionsChecked
    <3> QED
      BY <3>1, <3>2
  <2>7. Consistent(record)'
    BY <1>2 DEF LoadAndCheck, Consistent
  <2> QED
    BY <2>5, <2>6, <2>7
<1>3. ASSUME NEW c \in Clients, Write(c) PROVE IInv'
  <2>1. TypeOK'
    BY <1>3 DEF Write, TypeOK
  <2>2. InFlight' = InFlight
    BY <1>3 DEF Write, InFlight, TypeOK
  <2> QED
    BY <1>3, <2>1, <2>2 DEF Write, SessionsChecked, Consistent
<1>4. ASSUME NEW c \in Clients, Commit(c) PROVE IInv'
  <2>1. Row(c) \in Rows /\ Consistent(Row(c)) /\ Step(c) \in Steps
    BY <1>4, CommittedRow DEF Commit
  <2>2. Append(workflow_logs, Step(c)) \in Seq(Steps)
    BY <2>1, AppendProperties DEF TypeOK
  <2>3. TypeOK'
    BY <1>4, <2>1, <2>2 DEF Commit, TypeOK
  <2>4. Consistent(record)'
    BY <1>4, <2>1 DEF Commit, Consistent
  <2>5. InFlight' \subseteq InFlight
    BY <1>4 DEF Commit, InFlight, TypeOK
  <2>6. SessionsChecked'
    BY <1>4, <2>5 DEF Commit, SessionsChecked
  <2> QED
    BY <2>3, <2>4, <2>6
<1>5. ASSUME NEW c \in Clients, RollBack(c) PROVE IInv'
  <2>1. NoSession \in [row : Rows, to : CanonicalStates \cup {"none"}]
    BY DEF NoSession, NoRecord, Rows
  <2>2. TypeOK'
    BY <1>5, <2>1 DEF RollBack, TypeOK
  <2>3. InFlight' = InFlight \ {c}
    BY <1>5 DEF RollBack, InFlight, TypeOK
  <2>4. \A d \in InFlight' : session'[d] = session[d]
    BY <1>5, <2>3 DEF RollBack, InFlight, TypeOK
  <2> QED
    BY <1>5, <2>2, <2>3, <2>4 DEF RollBack, SessionsChecked, Consistent
<1>6. ASSUME NEW c \in Clients, Answer(c) PROVE IInv'
  <2>1. NoSession \in [row : Rows, to : CanonicalStates \cup {"none"}]
    BY DEF NoSession, NoRecord, Rows
  <2>2. _to_canonical_state(record.state) \in CanonicalStates \cup {"none"}
    BY Translations DEF TypeOK, Rows, _to_canonical_state
  <2>3. TypeOK'
    BY <1>6, <2>1, <2>2 DEF Answer, TypeOK
  <2>4. InFlight' = InFlight /\ c \notin InFlight
    BY <1>6 DEF Answer, InFlight, TypeOK
  <2>5. \A d \in InFlight' : session'[d] = session[d]
    BY <1>6, <2>4 DEF Answer, InFlight, TypeOK
  <2> QED
    BY <1>6, <2>3, <2>4, <2>5 DEF Answer, SessionsChecked, Consistent
<1>7. ASSUME UNCHANGED vars PROVE IInv'
  BY <1>7 DEF vars, TypeOK, Consistent, SessionsChecked, InFlight
<1> QED
  BY <1>1, <1>2, <1>3, <1>4, <1>5, <1>6, <1>7 DEF Next

\* The inductive invariant holds in every reachable state: every row a transition
\* loaded is one that create_exception or transition_exception could have left.
THEOREM Invariance == Spec => []IInv
BY InitInv, InvStep, PTL DEF Spec

\* Type correctness: the column never holds a name that is not a stored token.
THEOREM TypeCorrect == Spec => []TypeOK
<1>1. IInv => TypeOK
  BY DEF IInv
<1> QED
  BY Invariance, <1>1, PTL

\* However many requests race, the row transition_exception leaves is one that
\* a serial history could have left.
THEOREM RecordAlwaysConsistent == Spec => []RecordIsConsistent
<1>1. IInv => RecordIsConsistent
  BY DEF IInv, RecordIsConsistent, Consistent
<1> QED
  BY Invariance, <1>1, PTL

-------------------------------------------------------------------------------
(* The workflow log covers the comments of the committed row and of every  *)
(* loaded one, since both only ever grow together.                         *)

\* The comments of a new exception, none, are part of any log.
LEMMA EmptyIsSubSeq == ASSUME NEW t PROVE IsSubSeqOf(<<>>, t)
<1>1. DOMAIN <<>> = {}
  OBVIOUS
<1>2. [i \in {} |-> i] \in [{} -> DOMAIN t]
  OBVIOUS
<1> QED
  BY <1>1, <1>2 DEF IsSubSeqOf

\* An entry that only the log receives leaves the comments part of it.
LEMMA SubSeqOfLonger ==
  ASSUME NEW s \in Seq(Steps), NEW t \in Seq(Steps), NEW e \in Steps,
         IsSubSeqOf(s, t)
  PROVE  IsSubSeqOf(s, Append(t, e))
<1>1. PICK place \in [DOMAIN s -> DOMAIN t] :
        /\ \A i, j \in DOMAIN s : i < j => place[i] < place[j]
        /\ \A i \in DOMAIN s : s[i] = t[place[i]]
  BY DEF IsSubSeqOf
<1>2. DOMAIN t = 1 .. Len(t) /\ DOMAIN Append(t, e) = 1 .. Len(t) + 1
      /\ Len(t) \in Nat
  BY AppendProperties, LenProperties
<1>3. \A k \in DOMAIN t : k \in DOMAIN Append(t, e) /\ Append(t, e)[k] = t[k]
  BY <1>2, AppendProperties
<1>4. place \in [DOMAIN s -> DOMAIN Append(t, e)]
  BY <1>3
<1>5. \A i \in DOMAIN s : s[i] = Append(t, e)[place[i]]
  BY <1>1, <1>3
<1> QED
  BY <1>1, <1>4, <1>5 DEF IsSubSeqOf

\* An entry both receive leaves the comments part of the log.
LEMMA BothExtended ==
  ASSUME NEW s \in Seq(Steps), NEW t \in Seq(Steps), NEW e \in Steps,
         IsSubSeqOf(s, t)
  PROVE  IsSubSeqOf(Append(s, e), Append(t, e))
<1>1. PICK place \in [DOMAIN s -> DOMAIN t] :
        /\ \A i, j \in DOMAIN s : i < j => place[i] < place[j]
        /\ \A i \in DOMAIN s : s[i] = t[place[i]]
  BY DEF IsSubSeqOf
<1> DEFINE m == Len(s)
           n == Len(t)
           further == [i \in 1 .. m + 1 |-> IF i = m + 1 THEN n + 1 ELSE place[i]]
<1>2. /\ m \in Nat /\ DOMAIN s = 1 .. m /\ DOMAIN Append(s, e) = 1 .. m + 1
      /\ n \in Nat /\ DOMAIN t = 1 .. n /\ DOMAIN Append(t, e) = 1 .. n + 1
  BY AppendProperties, LenProperties
<1>3. /\ \A i \in 1 .. m : Append(s, e)[i] = s[i]
      /\ \A i \in 1 .. n : Append(t, e)[i] = t[i]
      /\ Append(s, e)[m + 1] = e /\ Append(t, e)[n + 1] = e
  BY AppendProperties
<1> HIDE DEF m, n
<1>4. \A i \in 1 .. m : place[i] \in 1 .. n
  BY <1>1, <1>2
<1>5. further \in [1 .. m + 1 -> 1 .. n + 1]
  BY <1>2, <1>4
<1>6. \A i \in 1 .. m : further[i] = place[i]
  BY <1>2
<1>7. further[m + 1] = n + 1
  BY <1>2
<1>8. ASSUME NEW i \in 1 .. m + 1, NEW j \in 1 .. m + 1, i < j
      PROVE  further[i] < further[j]
  <2>1. i \in 1 .. m
    BY <1>2, <1>8
  <2>2. CASE j = m + 1
    BY <2>1, <2>2, <1>2, <1>4, <1>6, <1>7
  <2>3. CASE j \in 1 .. m
    BY <2>1, <2>3, <1>1, <1>2, <1>6, <1>8
  <2> QED
    BY <2>2, <2>3, <1>2
<1> HIDE DEF further
<1>9. \A i \in 1 .. m + 1 : Append(s, e)[i] = Append(t, e)[further[i]]
  <2>1. ASSUME NEW i \in 1 .. m PROVE Append(s, e)[i] = Append(t, e)[further[i]]
    <3>1. Append(s, e)[i] = s[i] /\ s[i] = t[place[i]]
      BY <1>1, <1>2, <1>3
    <3>2. Append(t, e)[place[i]] = t[place[i]]
      BY <1>3, <1>4
    <3> QED BY <1>6, <3>1, <3>2
  <2>2. Append(s, e)[m + 1] = Append(t, e)[further[m + 1]]
    BY <1>3, <1>7
  <2>3. \A i \in 1 .. m + 1 : i \in 1 .. m \/ i = m + 1
    BY <1>2
  <2> QED
    BY <2>1, <2>2, <2>3
<1> QED
  BY <1>2, <1>5, <1>8, <1>9 DEF IsSubSeqOf

\* The comments of every row in the system are covered by the workflow log, and
\* resolved_at tells of a logged closing.
Covered ==
  /\ CommentsAreLogged
  /\ \A c \in InFlight : IsSubSeqOf(session[c].row.comments, workflow_logs)

\* At first neither comments nor a resolution are recorded.
LEMMA CoveredInit == Init => Covered /\ ResolvedMeansClosed
BY EmptyIsSubSeq
   DEF Init, Covered, CommentsAreLogged, ResolvedMeansClosed, NoRecord, InFlight

\* Every step keeps the comments of the row, and of every loaded row, in the log.
LEMMA CoveredStep == IInv /\ Covered /\ [Next]_vars => Covered'
<1> SUFFICES ASSUME IInv, Covered, [Next]_vars PROVE Covered'
  OBVIOUS
<1> USE DEF IInv
<1>1. ASSUME NEW c \in Clients, CreateException(c) PROVE Covered'
  <2>1. record'.comments = <<>>
    BY <1>1 DEF CreateException, NoRecord
  <2> QED
    BY <1>1, <2>1, EmptyIsSubSeq
       DEF CreateException, Covered, CommentsAreLogged, InFlight
<1>2. ASSUME NEW c \in Clients, LoadAndCheck(c) PROVE Covered'
  <2>1. session'[c].row = record
    BY <1>2 DEF LoadAndCheck, TypeOK
  <2>2. \A d \in InFlight' \ {c} : d \in InFlight /\ session'[d] = session[d]
    BY <1>2 DEF LoadAndCheck, InFlight, TypeOK
  <2>3. record' = record /\ workflow_logs' = workflow_logs
    BY <1>2 DEF LoadAndCheck
  <2> QED
    BY <2>1, <2>2, <2>3 DEF Covered, CommentsAreLogged
<1>3. ASSUME NEW c \in Clients, Commit(c) PROVE Covered'
  <2> DEFINE row == session[c].row
             e == Step(c)
  <2>1. e \in Steps /\ c \in InFlight
    BY <1>3, CommittedRow DEF Commit, InFlight
  <2>2. workflow_logs \in Seq(Steps) /\ row.comments \in Seq(Steps)
    BY <2>1 DEF TypeOK, Rows, InFlight
  <2>3. workflow_logs' = Append(workflow_logs, e)
        /\ record'.comments = Append(row.comments, e)
    BY <1>3 DEF Commit, Row
  <2>4. CommentsAreLogged'
    <3>1. IsSubSeqOf(Append(row.comments, e), Append(workflow_logs, e))
      BY <2>1, <2>2, BothExtended DEF Covered
    <3> QED
      BY <2>3, <3>1 DEF CommentsAreLogged
  <2>5. ASSUME NEW d \in InFlight'
        PROVE  IsSubSeqOf(session'[d].row.comments, workflow_logs')
    <3>1. d \in InFlight /\ session'[d] = session[d]
      BY <1>3, <2>5 DEF Commit, InFlight, TypeOK
    <3>2. session[d].row.comments \in Seq(Steps)
      BY <3>1 DEF TypeOK, Rows, InFlight
    <3> QED
      BY <2>1, <2>2, <2>3, <3>1, <3>2, SubSeqOfLonger DEF Covered
  <2> QED
    BY <2>4, <2>5 DEF Covered
<1>4. ASSUME NEW c \in Clients, Write(c) \/ RollBack(c) \/ Answer(c)
      PROVE  Covered'
  <2>1. record' = record /\ workflow_logs' = workflow_logs
    BY <1>4 DEF Write, RollBack, Answer
  <2>2. \A d \in InFlight' : d \in InFlight /\ session'[d] = session[d]
    BY <1>4 DEF Write, RollBack, Answer, InFlight, TypeOK
  <2> QED
    BY <2>1, <2>2 DEF Covered, CommentsAreLogged
<1>5. ASSUME UNCHANGED vars PROVE Covered'
  BY <1>5 DEF vars, Covered, CommentsAreLogged, InFlight
<1> QED
  BY <1>1, <1>2, <1>3, <1>4, <1>5 DEF Next

\* Every step sets resolved_at exactly if it commits a closing transition.
LEMMA ResolvedStep ==
  IInv /\ ResolvedMeansClosed /\ [Next]_vars => ResolvedMeansClosed'
<1> SUFFICES ASSUME IInv, ResolvedMeansClosed, [Next]_vars
             PROVE  ResolvedMeansClosed'
  OBVIOUS
<1>1. ASSUME NEW c \in Clients, Commit(c) PROVE ResolvedMeansClosed'
  <2> DEFINE e == Step(c)
             n == Len(workflow_logs)
  <2>1. e \in Steps /\ workflow_logs \in Seq(Steps)
    BY <1>1, CommittedRow DEF Commit, IInv, TypeOK
  <2>2. workflow_logs' = Append(workflow_logs, e)
        /\ (record'.resolved <=> record.resolved \/ e.to = "closed")
    BY <1>1 DEF Commit, Row, Step
  <2> HIDE DEF e
  <2>3. /\ n \in Nat /\ DOMAIN workflow_logs = 1 .. n
        /\ DOMAIN workflow_logs' = 1 .. n + 1
        /\ \A i \in 1 .. n : workflow_logs'[i] = workflow_logs[i]
        /\ workflow_logs'[n + 1] = e
    BY <2>1, <2>2, AppendProperties, LenProperties
  <2> HIDE DEF n
  <2>4. (\E i \in 1 .. n + 1 : workflow_logs'[i].to = "closed")
          <=> (\E i \in 1 .. n : workflow_logs[i].to = "closed")
                \/ e.to = "closed"
    BY <2>3
  <2> QED
    BY <2>2, <2>3, <2>4 DEF ResolvedMeansClosed
<1>2. ASSUME NEW c \in Clients, CreateException(c) PROVE ResolvedMeansClosed'
  <2>1. record'.resolved = record.resolved /\ workflow_logs' = workflow_logs
    BY <1>2 DEF CreateException, NoRecord
  <2> QED
    BY <2>1 DEF ResolvedMeansClosed
<1>3. ASSUME record' = record, workflow_logs' = workflow_logs
      PROVE  ResolvedMeansClosed'
  BY <1>3 DEF ResolvedMeansClosed
<1> QED
  BY <1>1, <1>2, <1>3
     DEF Next, vars, LoadAndCheck, Write, RollBack, Answer

\* The audit trail on the row never shows a step that the workflow log does not
\* have: what a lost update loses, it loses from the comments only.
THEOREM CommentsAlwaysLogged == Spec => []CommentsAreLogged
<1>1. Covered => CommentsAreLogged
  BY DEF Covered
<1> QED
  BY Invariance, CoveredInit, CoveredStep, <1>1, PTL DEF Spec

\* resolved_at is set exactly when some committed transition closed it.
THEOREM ResolvedAlwaysMeansClosed == Spec => []ResolvedMeansClosed
BY Invariance, CoveredInit, ResolvedStep, PTL DEF Spec

-------------------------------------------------------------------------------
\* The check of transition_exception draws the same arrows as the lifecycle.
LEMMA SameArrows ==
  \A s \in CanonicalStates : Lifecycle!Successors[s] = _VALID_TRANSITIONS[s]
BY DEF CanonicalStates, _VALID_TRANSITIONS, Lifecycle!Successors

\* A commit of a transition nobody overtook is a step of the documented lifecycle.
LEMMA FreshStep ==
  IInv /\ [Next]_vars
    => [(\A c \in Clients : pc[c] = "written" /\ pc'[c] = "committed"
                              => session[c].row.state = record.state)
        => Lifecycle!Next \/ UNCHANGED record]_vars
<1> SUFFICES ASSUME IInv, [Next]_vars,
                    \A c \in Clients : pc[c] = "written" /\ pc'[c] = "committed"
                                         => session[c].row.state = record.state
             PROVE  Lifecycle!Next \/ UNCHANGED record
  OBVIOUS
<1>1. ASSUME NEW c \in Clients, CreateException(c) PROVE Lifecycle!Next
  <2>1. record.state = "none" /\ record'.state = "open"
    BY <1>1 DEF CreateException, NoRecord
  <2> QED
    BY <2>1 DEF Lifecycle!Next, Lifecycle!Successors, _to_canonical_state
<1>2. ASSUME NEW c \in Clients, Commit(c) PROVE Lifecycle!Next
  <2> DEFINE from == _to_canonical_state(record.state)
             to == session[c].to
  <2>1. pc[c] = "written" /\ pc'[c] = "committed" /\ c \in InFlight
    BY <1>2 DEF Commit, InFlight, IInv, TypeOK
  <2>2. session[c].row.state = record.state
    BY <2>1
  <2>3. to \in CanonicalStates /\ to \in _VALID_TRANSITIONS[from]
    BY <2>1, <2>2 DEF IInv, SessionsChecked, Allowed
  <2>4. from \in CanonicalStates
    BY <2>1, <2>2, CheckedRowHasState
  <2>5. _to_canonical_state(record'.state) = to
    BY <1>2, <2>3, Translations DEF Commit, Row
  <2> QED
    BY <2>3, <2>4, <2>5, SameArrows DEF Lifecycle!Next
<1> QED
  BY <1>1, <1>2 DEF Next, vars, LoadAndCheck, Write, RollBack, Answer

\* A transition that nobody overtook between its check and its UPDATE moves the
\* exception as the documented lifecycle allows.
THEOREM StepsAlwaysFollowLifecycle == Spec => StepsFollowLifecycle
BY Invariance, FreshStep, PTL DEF Spec, StepsFollowLifecycle

-------------------------------------------------------------------------------
(* With one connection no transition is overtaken.                         *)

\* Whoever has a session open is alone and holds the committed row.
SerialInv ==
  /\ \A c, d \in Clients : pc[c] # "idle" /\ pc[d] # "idle" => c = d
  /\ \A c \in InFlight : session[c].row = record

\* A client that takes the only connection finds every other client idle.
LEMMA AloneAtTheTable ==
  ASSUME MaxInFlight = 1, SerialInv, ConnectionFree
  PROVE  \A c \in Clients : pc[c] = "idle"
<1> SUFFICES ASSUME NEW c \in Clients, pc[c] # "idle" PROVE FALSE
  OBVIOUS
<1>1. {d \in Clients : pc[d] # "idle"} = {c}
  BY DEF SerialInv
<1>2. Cardinality({c}) = 1
  BY FS_Singleton
<1> QED
  BY <1>1, <1>2 DEF ConnectionFree

\* Every step of a client that is alone leaves it alone with the row.
LEMMA SerialStep ==
  ASSUME MaxInFlight = 1, IInv, SerialInv, [Next]_vars PROVE SerialInv'
<1>1. ASSUME NEW c \in Clients, CreateException(c) PROVE SerialInv'
  <2>1. InFlight' = {}
    BY <1>1, AloneAtTheTable DEF CreateException, InFlight
  <2> QED
    BY <1>1, <2>1 DEF CreateException, SerialInv
<1>2. ASSUME NEW c \in Clients, LoadAndCheck(c) PROVE SerialInv'
  <2>1. \A d \in Clients : pc[d] = "idle"
    BY <1>2, AloneAtTheTable DEF LoadAndCheck
  <2>2. \A d \in Clients : d # c => pc'[d] = "idle"
    BY <1>2, <2>1 DEF LoadAndCheck, IInv, TypeOK
  <2>3. session'[c].row = record' /\ InFlight' \subseteq {c}
    BY <1>2, <2>2 DEF LoadAndCheck, IInv, TypeOK, InFlight
  <2> QED
    BY <2>2, <2>3 DEF SerialInv
<1>3. ASSUME NEW c \in Clients, Commit(c) PROVE SerialInv'
  <2>1. \A d \in Clients : d # c => pc[d] = "idle" /\ pc'[d] = "idle"
    BY <1>3 DEF Commit, SerialInv, IInv, TypeOK
  <2>2. pc'[c] = "committed"
    BY <1>3 DEF Commit, IInv, TypeOK
  <2>3. InFlight' = {}
    BY <2>1, <2>2 DEF InFlight
  <2> QED
    BY <2>1, <2>3 DEF SerialInv
<1>4. ASSUME NEW c \in Clients, Write(c) \/ RollBack(c) \/ Answer(c) PROVE SerialInv'
  <2>1. \A d \in Clients : pc'[d] # "idle" => pc[d] # "idle"
    BY <1>4 DEF Write, RollBack, Answer, InFlight, IInv, TypeOK
  <2>2. \A d \in InFlight' : d \in InFlight /\ session'[d] = session[d]
    BY <1>4 DEF Write, RollBack, Answer, InFlight, IInv, TypeOK
  <2>3. record' = record
    BY <1>4 DEF Write, RollBack, Answer
  <2> QED
    BY <2>1, <2>2, <2>3 DEF SerialInv
<1>5. ASSUME UNCHANGED vars PROVE SerialInv'
  BY <1>5 DEF vars, SerialInv, InFlight
<1> QED
  BY <1>1, <1>2, <1>3, <1>4, <1>5 DEF Next

\* A commit then checks and writes the same row.
LEMMA SerialLifecycleStep ==
  IInv /\ SerialInv /\ [Next]_vars => Lifecycle!Next \/ UNCHANGED record
<1> SUFFICES ASSUME IInv, SerialInv, [Next]_vars PROVE Lifecycle!Next \/ UNCHANGED record
  OBVIOUS
<1>1. ASSUME NEW c \in Clients, pc[c] = "written" PROVE session[c].row.state = record.state
  BY <1>1 DEF SerialInv, InFlight
<1>2. CASE UNCHANGED vars
  BY <1>2 DEF vars
<1>3. CASE ~UNCHANGED vars
  BY <1>1, <1>3, FreshStep
<1> QED
  BY <1>2, <1>3

\* With one connection in the pool every run is a life as the docstring of
\* transition_exception draws it.
THEOREM SerialImplementsLifecycle ==
  ASSUME MaxInFlight = 1 PROVE Spec => Lifecycle!Spec
<1>1. Init => Lifecycle!Init
  BY DEF Init, NoRecord, Lifecycle!Init, _to_canonical_state
<1>2. Init => SerialInv
  BY DEF Init, SerialInv, InFlight
<1>3. IInv /\ SerialInv /\ [Next]_vars => SerialInv'
  BY SerialStep
<1>4. IInv /\ SerialInv /\ [Next]_vars
        => [Lifecycle!Next]_(_to_canonical_state(record.state))
  BY SerialLifecycleStep
<1> QED
  BY Invariance, <1>1, <1>2, <1>3, <1>4, PTL DEF Spec, Lifecycle!Spec

\* ... so that a closed exception stays closed: what reopens one is a second
\* transition between the check and the commit of the first.
THEOREM SerialClosedIsFinal ==
  ASSUME MaxInFlight = 1 PROVE Spec => ClosedIsFinal
<1>1. Init => SerialInv
  BY DEF Init, SerialInv, InFlight
<1>2. IInv /\ SerialInv /\ [Next]_vars => SerialInv'
  BY SerialStep
<1>3. IInv /\ SerialInv /\ [Next]_vars
        => [record.state = "closed" => record'.state = "closed"]_record
  <2> SUFFICES ASSUME IInv, SerialInv, [Next]_vars, record.state = "closed"
               PROVE  UNCHANGED record
    OBVIOUS
  <2>1. _to_canonical_state(record.state) = "closed"
    BY DEF _to_canonical_state
  <2>2. Lifecycle!Successors["closed"] = {}
    BY DEF Lifecycle!Successors
  <2>3. ~Lifecycle!Next
    BY <2>1, <2>2 DEF Lifecycle!Next
  <2> QED
    BY <2>3, SerialLifecycleStep
<1> QED
  BY Invariance, <1>1, <1>2, <1>3, PTL DEF Spec, ClosedIsFinal

\* The comments show every transition of the log.
NothingLost == record.comments = workflow_logs

\* With one connection no entry is lost from the comments, either: they are
\* rebuilt from the loaded list, which nobody has extended since.
THEOREM SerialCommentsComplete ==
  ASSUME MaxInFlight = 1 PROVE Spec => []NothingLost
<1>1. Init => SerialInv /\ NothingLost
  BY DEF Init, SerialInv, InFlight, NothingLost, NoRecord
<1>2. IInv /\ SerialInv /\ [Next]_vars => SerialInv'
  BY SerialStep
<1>3. IInv /\ SerialInv /\ NothingLost /\ [Next]_vars => NothingLost'
  <2> SUFFICES ASSUME IInv, SerialInv, NothingLost, [Next]_vars PROVE NothingLost'
    OBVIOUS
  <2>1. ASSUME NEW c \in Clients, CreateException(c) PROVE NothingLost'
    BY <2>1 DEF CreateException, NothingLost, NoRecord
  <2>2. ASSUME NEW c \in Clients, Commit(c) PROVE NothingLost'
    <3>1. session[c].row = record
      BY <2>2 DEF Commit, SerialInv, InFlight
    <3>2. record'.comments = Append(record.comments, Step(c))
      BY <2>2, <3>1 DEF Commit, Row
    <3> QED
      BY <2>2, <3>2 DEF Commit, NothingLost
  <2> QED
    BY <2>1, <2>2 DEF Next, vars, LoadAndCheck, Write, RollBack, Answer, NothingLost
<1> QED
  BY Invariance, <1>1, <1>2, <1>3, PTL DEF Spec

===============================================================================
