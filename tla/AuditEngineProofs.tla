---------------------------- MODULE AuditEngineProofs ----------------------------
(***************************************************************************)
(* For any files, rules and planning constants: an analysis depends on the *)
(* rows of its sheets only, reports exactly the conflicts of duties its    *)
(* rows show, accuses nobody without rows that do, scores no higher when a *)
(* sheet is left out, and is stored all or not at all (proofs about        *)
(* EngineIngest); monetary-unit samples are full and fair (proofs about    *)
(* AuditSampling).                                                         *)
(*                                                                         *)
(* Recursive functions are unfolded where they are used: a function that   *)
(* satisfies the recursion up to a bound exists for every bound, by the    *)
(* least number without one, so that the one CHOSEN satisfies it, and what *)
(* it computes follows by the same kind of induction.                      *)
(***************************************************************************)
EXTENDS EngineIngest, AuditSampling, SequenceTheorems, FiniteSetTheorems,
        WellFoundedInduction, TLAPS

\* A set of numbers that holds any has a least one.
LEMMA LeastNat ==
  ASSUME NEW T \in SUBSET Nat, T # {} PROVE \E x \in T : \A y \in T : x <= y
<1>1. PICK x \in T : \A y \in T : ~(<<y, x>> \in OpToRel(<, Nat))
  BY NatLessThanWellFounded, WFMin
<1>2. \A y \in T : ~(y < x)
  BY <1>1 DEF OpToRel
<1> QED BY <1>2

\* ... and, when it is bounded, a greatest one.
LEMMA GreatestNat ==
  ASSUME NEW n \in Nat, NEW T \in SUBSET (0..n), T # {} PROVE \E x \in T : \A y \in T : y <= x
<1> DEFINE U == {n - x : x \in T}
<1>1. U \in SUBSET Nat /\ U # {}
  <2>1. \A x \in T : n - x \in Nat
    OBVIOUS
  <2>2. PICK x \in T : TRUE
    OBVIOUS
  <2>3. n - x \in U
    BY <2>2
  <2> QED BY <2>1, <2>3
<1>2. PICK u \in U : \A v \in U : u <= v
  BY <1>1, LeastNat
<1>3. PICK x \in T : u = n - x
  OBVIOUS
<1>4. ASSUME NEW y \in T PROVE y <= x
  <2>1. n - x <= n - y
    BY <1>2, <1>3
  <2> QED BY <2>1
<1> QED BY <1>4

\* A set that holds zero and every successor of its members holds all numbers.
LEMMA Inductive ==
  ASSUME NEW T \in SUBSET Nat, 0 \in T, \A n \in T : n + 1 \in T
  PROVE  T = Nat
<1> SUFFICES ASSUME Nat \ T # {} PROVE FALSE
  OBVIOUS
<1>1. PICK x \in Nat \ T : \A y \in Nat \ T : x <= y
  BY LeastNat
<1>2. x # 0 /\ x - 1 \in Nat
  BY <1>1
<1>3. x - 1 \in T
  BY <1>1, <1>2
<1> QED BY <1>1, <1>2, <1>3

\* ... or all numbers up to a bound.
LEMMA InductiveTo ==
  ASSUME NEW m \in Nat, NEW T \in SUBSET Nat, 0 \in T, \A n \in T : n < m => n + 1 \in T
  PROVE  0..m \subseteq T
<1> DEFINE U == T \cup {n \in Nat : n > m}
<1>1. U = Nat
  <2>1. U \in SUBSET Nat /\ 0 \in U
    OBVIOUS
  <2>2. \A n \in U : n + 1 \in U
    OBVIOUS
  <2> HIDE DEF U
  <2> QED BY <2>1, <2>2, Inductive
<1> QED BY <1>1
-----------------------------------------------------------------------------
\* The rows of a type among the first sheets of a file.
Gathered(parsed, type, n, g) ==
  g = [k \in 0..n |->
         IF k = 0 THEN <<>>
         ELSE g[k - 1] \o IF parsed[k].data_type = type THEN parsed[k].records ELSE <<>>]

\* The recursion is well defined.
LEMMA GatheredExists ==
  ASSUME NEW parsed, NEW type, NEW m \in Nat
  PROVE  \E g : Gathered(parsed, type, m, g)
<1> DEFINE T == {n \in Nat : \E g : Gathered(parsed, type, n, g)}
<1>1. 0 \in T
  <2> DEFINE g == [k \in 0..0 |-> <<>>]
  <2>1. Gathered(parsed, type, 0, g)
    BY DEF Gathered
  <2> QED BY <2>1
<1>2. ASSUME NEW n \in T PROVE n + 1 \in T
  <2>1. PICK g : Gathered(parsed, type, n, g)
    OBVIOUS
  <2> DEFINE more == g[n] \o IF parsed[n + 1].data_type = type THEN parsed[n + 1].records ELSE <<>>
             h == [k \in 0..(n + 1) |-> IF k = n + 1 THEN more ELSE g[k]]
  <2>2. n \in Nat
    OBVIOUS
  <2>3. ASSUME NEW k \in 0..(n + 1)
        PROVE  h[k] = IF k = 0 THEN <<>>
                      ELSE h[k - 1] \o IF parsed[k].data_type = type THEN parsed[k].records ELSE <<>>
    <3>1. CASE k = n + 1
      <4>1. h[k] = more /\ h[k - 1] = g[n] /\ k # 0
        BY <2>2, <3>1
      <4> QED BY <3>1, <4>1
    <3>2. CASE k # n + 1
      <4>1. k \in 0..n /\ h[k] = g[k] /\ (k # 0 => k - 1 \in 0..(n+1) /\ k - 1 # n + 1 /\ h[k - 1] = g[k - 1])
        BY <2>2, <3>2
      <4>2. g[k] = IF k = 0 THEN <<>>
                   ELSE g[k - 1] \o IF parsed[k].data_type = type THEN parsed[k].records ELSE <<>>
        BY <2>1, <4>1 DEF Gathered
      <4> QED BY <4>1, <4>2
    <3> QED BY <3>1, <3>2
  <2>4. h = [k \in 0..(n + 1) |-> h[k]]
    OBVIOUS
  <2> HIDE DEF h
  <2>5. Gathered(parsed, type, n + 1, h)
    BY <2>3, <2>4 DEF Gathered
  <2> QED BY <2>2, <2>5
<1> HIDE DEF T
<1>3. T = Nat
  BY <1>1, <1>2, Inductive DEF T
<1> QED BY <1>3 DEF T

\* The rows a sheet adds to those of a type.
Added(parsed, type, k) == IF parsed[k].data_type = type THEN parsed[k].records ELSE <<>>

\* The rows gathered up to a sheet: g[k] for the first k of them.
GatheredBy(parsed, type, g) ==
  g[0] = <<>> /\ \A k \in 1..Len(parsed) : g[k] = g[k - 1] \o Added(parsed, type, k)

\* ... and computes what its equation says.
LEMMA Gathers ==
  ASSUME NEW parsed, NEW type, Len(parsed) \in Nat
  PROVE  \E g : RecordsOfType(parsed, type) = g[Len(parsed)] /\ GatheredBy(parsed, type, g)
<1> DEFINE g == CHOOSE f : Gathered(parsed, type, Len(parsed), f)
<1>1. Gathered(parsed, type, Len(parsed), g)
  <2>1. \E f : Gathered(parsed, type, Len(parsed), f)
    BY GatheredExists
  <2> QED BY <2>1, Zenon
<1>2. RecordsOfType(parsed, type) = g[Len(parsed)]
  BY ZenonT(60) DEF RecordsOfType, Gathered
<1> HIDE DEF g
<1>3. g[0] = <<>>
  BY <1>1 DEF Gathered
<1>4. ASSUME NEW k \in 1..Len(parsed) PROVE g[k] = g[k - 1] \o Added(parsed, type, k)
  <2>1. k \in 0..Len(parsed) /\ k # 0
    OBVIOUS
  <2> QED BY <1>1, <2>1 DEF Gathered, Added
<1> QED BY <1>2, <1>3, <1>4 DEF GatheredBy

-----------------------------------------------------------------------------
\* The lists of a file.
IsParsed(parsed) == IsList(parsed) /\ \A s \in DOMAIN parsed : IsList(parsed[s].records)

\* The rows of the first n sheets that are of a type.
RowsUpTo(parsed, type, n) ==
  UNION {{parsed[s].records[r] : r \in DOMAIN parsed[s].records} :
         s \in {s \in 1..n : parsed[s].data_type = type}}

\* A function on 1..n is a list.
LEMMA Listed == ASSUME NEW n \in Nat, NEW f, f = [k \in 1..n |-> f[k]] PROVE IsList(f)
<1> DEFINE S == {f[k] : k \in 1..n}
<1>1. DOMAIN f = 1..n
  OBVIOUS
<1>2. f \in [1..n -> S]
  OBVIOUS
<1>3. f \in Seq(S)
  BY <1>2, SeqDef
<1> QED BY <1>1, <1>3 DEF IsList

\* ... and a list one of some length.
LEMMA ListProperties ==
  ASSUME NEW list, IsList(list)
  PROVE  /\ Len(list) \in Nat /\ DOMAIN list = 1..Len(list)
         /\ list \in Seq({list[k] : k \in DOMAIN list})
         /\ list = [k \in 1..Len(list) |-> list[k]]
<1>1. list \in Seq({list[k] : k \in DOMAIN list})
  BY DEF IsList
<1>2. Len(list) \in Nat /\ DOMAIN list = 1..Len(list) /\ list \in [1..Len(list) -> {list[k] : k \in DOMAIN list}]
  BY <1>1, LenProperties
<1> QED BY <1>1, <1>2

\* The sheets of a file, however they came about.
IsFile(file) ==
  /\ IsList(file)
  /\ \A s \in DOMAIN file : {"columns", "rows"} \subseteq DOMAIN file[s] /\ IsList(file[s].rows)

\* Parsing a file parses its sheets.
LEMMA FileParsed ==
  ASSUME NEW file, IsFile(file)
  PROVE  /\ IsParsed(ParseFile(file)) /\ Len(ParseFile(file)) = Len(file) /\ Len(file) \in Nat
         /\ DOMAIN file = 1..Len(file)
         /\ \A s \in 1..Len(file) : ParseFile(file)[s] = ParseSheet(file[s])
<1>1. Len(file) \in Nat /\ DOMAIN file = 1..Len(file)
  BY ListProperties DEF IsFile
<1>2. DOMAIN ParseFile(file) = 1..Len(file)
      /\ \A s \in 1..Len(file) : ParseFile(file)[s] = ParseSheet(file[s])
  BY <1>1 DEF ParseFile
<1>3. IsList(ParseFile(file))
  <2>1. ParseFile(file) = [k \in 1..Len(file) |-> ParseFile(file)[k]]
    BY <1>1, <1>2 DEF ParseFile
  <2> QED BY <1>1, <2>1, Listed
<1>4. Len(ParseFile(file)) = Len(file)
  <2>1. Len(ParseFile(file)) \in Nat /\ DOMAIN ParseFile(file) = 1..Len(ParseFile(file))
    BY <1>3, ListProperties
  <2> QED BY <1>1, <1>2, <2>1
<1>5. ASSUME NEW s \in 1..Len(file) PROVE IsList(ParseSheet(file[s]).records)
  <2> DEFINE rows == file[s].rows
             f == [k \in DOMAIN rows |-> NormalizeValues(rows[k])]
  <2>1. Len(rows) \in Nat /\ DOMAIN rows = 1..Len(rows)
    BY <1>1, ListProperties DEF IsFile
  <2>2. f = [k \in 1..Len(rows) |-> f[k]]
    BY <2>1
  <2>3. ParseSheet(file[s]).records = f
    BY DEF ParseSheet
  <2> HIDE DEF f
  <2> QED BY <2>1, <2>2, <2>3, Listed
<1> QED BY <1>1, <1>2, <1>3, <1>4, <1>5 DEF IsParsed

\* Parsing keeps the lists.
LEMMA ParsedLists ==
  ASSUME UploadsAssumption, NEW file \in Uploads
  PROVE  /\ IsFile(file)
         /\ IsParsed(ParseFile(file)) /\ DOMAIN ParseFile(file) = DOMAIN file
         /\ \A s \in DOMAIN file : ParseFile(file)[s] = ParseSheet(file[s])
<1>1. IsFile(file)
  BY DEF UploadsAssumption, IsFile, IsSheet
<1>2. DOMAIN ParseFile(file) = DOMAIN file
  BY DEF ParseFile
<1> QED BY <1>1, <1>2, FileParsed

\* The rows of a type are a list of exactly the rows of the sheets of the type.
LEMMA RowsOfSheets ==
  ASSUME NEW parsed, IsParsed(parsed), NEW type
  PROVE  /\ IsList(RecordsOfType(parsed, type))
         /\ {RecordsOfType(parsed, type)[n] : n \in DOMAIN RecordsOfType(parsed, type)}
              = SheetRows(parsed, type)
<1> DEFINE N == Len(parsed)
           U(n) == RowsUpTo(parsed, type, n)
<1>1. N \in Nat /\ DOMAIN parsed = 1..N
  BY ListProperties DEF IsParsed
<1>2. PICK g : /\ RecordsOfType(parsed, type) = g[N]
               /\ g[0] = <<>>
               /\ \A k \in 1..N : g[k] = g[k - 1] \o Added(parsed, type, k)
  BY <1>1, Gathers DEF GatheredBy
<1> DEFINE Done(n) == g[n] \in Seq(U(n)) /\ {g[n][k] : k \in DOMAIN g[n]} = U(n)
           T == {n \in Nat : n <= N => Done(n)}
<1>3. 0 \in T
  <2>1. U(0) = {}
    BY DEF RowsUpTo
  <2>2. g[0] \in Seq(U(0)) /\ DOMAIN g[0] = {}
    BY <1>2, EmptySeq, LenProperties
  <2> QED BY <2>1, <2>2
<1>4. ASSUME NEW n \in T, n < N PROVE n + 1 \in T
  <2>1. n \in Nat /\ n + 1 \in 1..N /\ g[n + 1] = g[n] \o Added(parsed, type, n + 1) /\ Done(n)
    <3>1. n \in Nat /\ Done(n)
      BY <1>1, <1>4
    <3> HIDE DEF Done
    <3>2. n + 1 \in 1..N /\ (n + 1) - 1 = n
      BY <1>1, <1>4, <3>1
    <3> QED BY <1>2, <3>1, <3>2
  <2> DEFINE a == g[n]
             b == Added(parsed, type, n + 1)
             new == {b[k] : k \in DOMAIN b}
  <2>2. b \in Seq(new)
    <3>1. IsList(parsed[n + 1].records)
      BY <1>1, <2>1 DEF IsParsed
    <3>2. <<>> \in Seq({})
      BY EmptySeq
    <3>3. CASE parsed[n + 1].data_type = type
      BY <3>1, <3>3 DEF IsList, Added
    <3>4. CASE parsed[n + 1].data_type # type
      <4>1. b = <<>>
        BY <3>4 DEF Added
      <4> HIDE DEF b
      <4> QED BY <4>1, EmptySeq
    <3> QED BY <3>3, <3>4
  <2>3. U(n + 1) = U(n) \cup new
    <3>1. {s \in 1..(n + 1) : parsed[s].data_type = type}
            = {s \in 1..n : parsed[s].data_type = type}
                \cup {s \in {n + 1} : parsed[s].data_type = type}
      BY <2>1
    <3>2. new = IF parsed[n + 1].data_type = type
                THEN {parsed[n + 1].records[k] : k \in DOMAIN parsed[n + 1].records} ELSE {}
      <4>1. CASE parsed[n + 1].data_type = type
        BY <4>1 DEF Added
      <4>2. CASE parsed[n + 1].data_type # type
        <5>1. b = <<>>
          BY <4>2 DEF Added
        <5>2. DOMAIN <<>> = {}
          OBVIOUS
        <5> HIDE DEF b
        <5>3. new = {}
          BY <5>1, <5>2
        <5> QED BY <4>2, <5>3
      <4> QED BY <4>1, <4>2
    <3> DEFINE Rows(s) == {parsed[s].records[r] : r \in DOMAIN parsed[s].records}
    <3>3. CASE parsed[n + 1].data_type = type
      <4>1. {s \in 1..(n + 1) : parsed[s].data_type = type}
              = {s \in 1..n : parsed[s].data_type = type} \cup {n + 1}
        BY <3>1, <3>3
      <4>2. new = Rows(n + 1)
        BY <3>2, <3>3
      <4> HIDE DEF Rows, new
      <4> QED BY <4>1, <4>2 DEF RowsUpTo, Rows
    <3>4. CASE parsed[n + 1].data_type # type
      <4>1. {s \in 1..(n + 1) : parsed[s].data_type = type} = {s \in 1..n : parsed[s].data_type = type}
        BY <3>1, <3>4
      <4>2. new = {}
        BY <3>2, <3>4
      <4> QED BY <4>1, <4>2 DEF RowsUpTo
    <3> QED BY <3>3, <3>4
  <2> HIDE DEF a, b, new, U
  <2>4. a \in Seq(U(n + 1)) /\ b \in Seq(U(n + 1))
    <3>1. a \in Seq(U(n))
      BY <2>1 DEF a
    <3> QED BY <2>2, <2>3, <3>1, SeqMonotonic
  <2>5. /\ a \o b \in Seq(U(n + 1)) /\ Len(a \o b) = Len(a) + Len(b)
        /\ \A k \in 1..(Len(a) + Len(b)) : (a \o b)[k] = IF k <= Len(a) THEN a[k] ELSE b[k - Len(a)]
    BY <2>4, ConcatProperties
  <2>6. /\ Len(a) \in Nat /\ Len(b) \in Nat /\ DOMAIN a = 1..Len(a) /\ DOMAIN b = 1..Len(b)
        /\ DOMAIN (a \o b) = 1..(Len(a) + Len(b))
    BY <2>4, <2>5, LenProperties
  <2>7. {(a \o b)[k] : k \in DOMAIN (a \o b)} = {a[k] : k \in DOMAIN a} \cup {b[k] : k \in DOMAIN b}
    <3>1. ASSUME NEW k \in DOMAIN (a \o b)
          PROVE  (a \o b)[k] \in {a[j] : j \in DOMAIN a} \cup {b[j] : j \in DOMAIN b}
      BY <2>5, <2>6
    <3>2. ASSUME NEW k \in DOMAIN a PROVE \E j \in DOMAIN (a \o b) : (a \o b)[j] = a[k]
      BY <2>5, <2>6
    <3>3. ASSUME NEW k \in DOMAIN b PROVE \E j \in DOMAIN (a \o b) : (a \o b)[j] = b[k]
      <4>1. k + Len(a) \in DOMAIN (a \o b) /\ (a \o b)[k + Len(a)] = b[k]
        BY <2>5, <2>6
      <4> QED BY <4>1
    <3> QED BY <3>1, <3>2, <3>3
  <2>8. {a[k] : k \in DOMAIN a} = U(n) /\ {b[k] : k \in DOMAIN b} = new
    BY <2>1 DEF a, new
  <2>9. g[n + 1] = a \o b
    BY <2>1 DEF a, b
  <2>10. Done(n + 1)
    <3>1. {(a \o b)[k] : k \in DOMAIN (a \o b)} = U(n + 1)
      BY <2>3, <2>7, <2>8
    <3> QED BY <2>5, <2>9, <3>1
  <2> HIDE DEF Done
  <2> QED BY <2>1, <2>10
<1> HIDE DEF T
<1>5. 0..N \subseteq T
  <2>1. T \in SUBSET Nat
    BY DEF T
  <2> QED BY <1>1, <1>3, <1>4, <2>1, InductiveTo
<1>6. Done(N)
  BY <1>1, <1>5 DEF T
<1>7. U(N) = SheetRows(parsed, type)
  BY <1>1 DEF RowsUpTo, SheetRows
<1> QED BY <1>2, <1>6, <1>7 DEF IsList

-----------------------------------------------------------------------------
\* What every test raises: finitely many findings with the fields of a finding.
IsFinding(f) == f = Finding(f.area, f.row, f.subject, f.type, f.risk_level)
Raised(S, areas) == IsFiniteSet(S) /\ \A f \in S : IsFinding(f) /\ f.area \in areas

Itac == {"ITAC-AP", "ITAC-INT"}
Areas == Itac \cup {"ITGC-SOD", "ITGC-LA", "ITGC-CM", "ITGC-OPS"}
USE DEF Itac

\* A function has finitely many values on a finite set.
LEMMA FiniteImage ==
  ASSUME NEW S, IsFiniteSet(S), NEW f PROVE IsFiniteSet({f[x] : x \in S})
<1> DEFINE g == [x \in S |-> f[x]]
           T == {f[x] : x \in S}
<1>1. g \in Surjection(S, T)
  BY DEF Surjection
<1> HIDE DEF g, T
<1>2. IsFiniteSet(T)
  BY <1>1, FS_Surjection
<1> QED BY <1>2 DEF T

\* The fields of a finding are those of its constructor.
LEMMA FindingFields ==
  ASSUME NEW area, NEW row, NEW subject, NEW type, NEW risk
  PROVE  /\ IsFinding(Finding(area, row, subject, type, risk))
         /\ Finding(area, row, subject, type, risk).area = area
BY DEF IsFinding, Finding

\* A test of one row raises one finding or none.
LEMMA RaisedIf ==
  ASSUME NEW areas, NEW area \in areas, NEW fails, NEW row, NEW subject, NEW type, NEW risk
  PROVE  Raised(RaiseIf(fails, Finding(area, row, subject, type, risk)), areas)
<1> DEFINE f == Finding(area, row, subject, type, risk)
<1>1. IsFinding(f) /\ f.area \in areas
  BY FindingFields
<1> HIDE DEF f
<1>2. Raised(RaiseIf(fails, f), areas)
  BY <1>1, FS_EmptySet, FS_Singleton DEF Raised, RaiseIf
<1> QED BY <1>2 DEF f

\* ... two tests raise what each of them raises
LEMMA RaisedUnion ==
  ASSUME NEW S, NEW T, NEW areas, Raised(S, areas), Raised(T, areas) PROVE Raised(S \cup T, areas)
BY FS_Union DEF Raised

\* ... and a test of all rows what it raises for each.
LEMMA RaisedByRows ==
  ASSUME NEW rows, IsList(rows), NEW f, NEW areas, \A k \in DOMAIN rows : Raised(f[k], areas)
  PROVE  Raised(UNION {f[k] : k \in DOMAIN rows}, areas)
<1>1. IsFiniteSet(DOMAIN rows)
  <2>1. Len(rows) \in Nat /\ DOMAIN rows = 1..Len(rows)
    BY ListProperties
  <2> QED BY <2>1, FS_Interval
<1> DEFINE T == {f[k] : k \in DOMAIN rows}
<1>2. IsFiniteSet(T)
  BY <1>1, FiniteImage
<1>3. \A t \in T : Raised(t, areas)
  OBVIOUS
<1> HIDE DEF T
<1>4. IsFiniteSet(UNION T)
  BY <1>2, <1>3, FS_UNION DEF Raised
<1>5. \A g \in UNION T : IsFinding(g) /\ g.area \in areas
  BY <1>3 DEF Raised
<1>6. Raised(UNION T, areas)
  BY <1>4, <1>5 DEF Raised
<1> QED BY <1>6 DEF T

\* The access tests.
LEMMA AccessRaised == ASSUME NEW rows, IsList(rows) PROVE Raised(TestAccessControls(rows), {"ITGC-LA"})
<1>1. ASSUME NEW row, NEW user PROVE Raised(AccessFindings(row, user), {"ITGC-LA"})
  <2> DEFINE Raise(type, risk) == Finding("ITGC-LA", row, user.user_id, type, risk)
             terminated == \/ user.status \in {"terminated", "inactive", "disabled"}
                           \/ Older(user.termination_date, 0)
             out == user.status \in {"terminated", "inactive", "disabled"}
             a == RaiseIf(terminated /\ user.status \notin {"disabled", "inactive", "locked"},
                          Raise("TERMINATED_USER_ACTIVE", "CRITICAL"))
             b == RaiseIf(~out /\ Older(user.last_login_date, DormantThresholdDays),
                          Raise("DORMANT_ACCOUNT", IF IsPrivileged(user.roles) THEN "HIGH" ELSE "MEDIUM"))
             c == RaiseIf(IsPrivileged(user.roles) /\ user.mfa_enabled # "yes",
                          Raise("PRIVILEGED_NO_MFA", "CRITICAL"))
             d == RaiseIf(/\ user.user_id \in GenericAccounts /\ user.roles # {}
                          /\ user.status \notin {"disabled", "inactive"},
                          Raise("GENERIC_SHARED_ACCOUNT", "HIGH"))
             e == RaiseIf(Older(user.access_review_date, ReviewCycleDays),
                          Raise("ACCESS_REVIEW_OVERDUE", "MEDIUM"))
             g == RaiseIf(~Parsed(user.access_review_date) /\ user.status \notin {"terminated", "disabled"},
                          Raise("ACCESS_REVIEW_MISSING", "MEDIUM"))
             h == RaiseIf(Cardinality(user.roles \cap PrivilegedRoles) > MaxPrivileged,
                          Raise("EXCESSIVE_PRIVILEGE", "HIGH"))
  <2>1. AccessFindings(row, user) = UNION {a, b, c, d, e, g, h}
    BY Zenon DEF AccessFindings
  <2>2. Raised(a, {"ITGC-LA"}) /\ Raised(b, {"ITGC-LA"}) /\ Raised(c, {"ITGC-LA"}) /\ Raised(d, {"ITGC-LA"}) /\ Raised(e, {"ITGC-LA"}) /\ Raised(g, {"ITGC-LA"}) /\ Raised(h, {"ITGC-LA"})
    <3>1. Raised(a, {"ITGC-LA"})
      BY RaisedIf
    <3>2. Raised(b, {"ITGC-LA"})
      BY RaisedIf
    <3>3. Raised(c, {"ITGC-LA"})
      BY RaisedIf
    <3>4. Raised(d, {"ITGC-LA"})
      BY RaisedIf
    <3>5. Raised(e, {"ITGC-LA"})
      BY RaisedIf
    <3>6. Raised(g, {"ITGC-LA"})
      BY RaisedIf
    <3>7. Raised(h, {"ITGC-LA"})
      BY RaisedIf
    <3> HIDE DEF a, b, c, d, e, g, h
    <3> QED BY <3>1, <3>2, <3>3, <3>4, <3>5, <3>6, <3>7
  <2> HIDE DEF a, b, c, d, e, g, h
  <2>3. UNION {a, b, c, d, e, g, h} = (((((a \cup b) \cup c) \cup d) \cup e) \cup g) \cup h
    OBVIOUS
  <2>4. Raised(((((a \cup b) \cup c) \cup d) \cup e) \cup g, {"ITGC-LA"})
    BY <2>2, RaisedUnion
  <2> QED BY <2>1, <2>2, <2>3, <2>4, RaisedUnion
<1> DEFINE f == [k \in DOMAIN rows |-> AccessFindings(Row(k), rows[k])]
<1>2. \A k \in DOMAIN rows : Raised(f[k], {"ITGC-LA"})
  BY <1>1
<1>3. TestAccessControls(rows) = UNION {f[k] : k \in DOMAIN rows}
  BY DEF TestAccessControls
<1> HIDE DEF f
<1> QED BY <1>2, <1>3, RaisedByRows

\* The rows of a list that pass a filter are finitely many.
LEMMA FiniteRows ==
  ASSUME NEW rows, IsList(rows), NEW T \in SUBSET DOMAIN rows PROVE IsFiniteSet(T)
<1>1. Len(rows) \in Nat /\ DOMAIN rows = 1..Len(rows)
  BY ListProperties
<1>2. IsFiniteSet(DOMAIN rows)
  BY <1>1, FS_Interval
<1> QED BY <1>2, FS_Subset

\* The change tests.
LEMMA ChangesRaised == ASSUME NEW rows, IsList(rows) PROVE Raised(TestChangeManagement(rows), {"ITGC-CM"})
<1>1. ASSUME NEW row, NEW change PROVE Raised(ChangeFindings(row, change), {"ITGC-CM"})
  <2> DEFINE Raise(type, risk) == Finding("ITGC-CM", row, change.ticket_id, type, risk)
             a == RaiseIf(change.approver = "",
                          Raise("NO_APPROVAL", IF IsProd(change) THEN "CRITICAL" ELSE "HIGH"))
             b == RaiseIf(change.approver # "" /\ change.initiator = change.approver,
                          Raise("SELF_APPROVED", "CRITICAL"))
             c == RaiseIf(change.change_type = "emergency" /\ change.post_impl_review # "yes",
                          Raise("EMERGENCY_NO_PIR", "HIGH"))
             d == RaiseIf(/\ IsProd(change) /\ change.test_evidence # "yes"
                          /\ change.change_type # "standard",
                          Raise("NO_TEST_EVIDENCE", "HIGH"))
             e == RaiseIf(/\ IsProd(change) /\ change.implementation_hour # NoHour
                          /\ change.implementation_hour \notin ChangeWindowHours,
                          Raise("OUTSIDE_CHANGE_WINDOW", "MEDIUM"))
  <2>1. ChangeFindings(row, change) = UNION {a, b, c, d, e}
    BY Zenon DEF ChangeFindings
  <2>2. Raised(a, {"ITGC-CM"}) /\ Raised(b, {"ITGC-CM"}) /\ Raised(c, {"ITGC-CM"}) /\ Raised(d, {"ITGC-CM"}) /\ Raised(e, {"ITGC-CM"})
    <3>1. Raised(a, {"ITGC-CM"})
      BY RaisedIf
    <3>2. Raised(b, {"ITGC-CM"})
      BY RaisedIf
    <3>3. Raised(c, {"ITGC-CM"})
      BY RaisedIf
    <3>4. Raised(d, {"ITGC-CM"})
      BY RaisedIf
    <3>5. Raised(e, {"ITGC-CM"})
      BY RaisedIf
    <3> HIDE DEF a, b, c, d, e
    <3> QED BY <3>1, <3>2, <3>3, <3>4, <3>5
  <2> HIDE DEF a, b, c, d, e
  <2>3. UNION {a, b, c, d, e} = (((a \cup b) \cup c) \cup d) \cup e
    OBVIOUS
  <2>4. Raised(((a \cup b) \cup c) \cup d, {"ITGC-CM"})
    BY <2>2, RaisedUnion
  <2> QED BY <2>1, <2>2, <2>3, <2>4, RaisedUnion
<1> DEFINE f == [k \in DOMAIN rows |-> ChangeFindings(Row(k), rows[k])]
           byRow == UNION {f[k] : k \in DOMAIN rows}
           byWeek == {Finding("ITGC-CM", <<"week", week>>, "", "HIGH_CHANGE_VELOCITY", "MEDIUM") :
                        week \in BusyWeeks(rows)}
<1>2. Raised(byRow, {"ITGC-CM"})
  <2>1. \A k \in DOMAIN rows : Raised(f[k], {"ITGC-CM"})
    BY <1>1
  <2> HIDE DEF f
  <2> QED BY <2>1, RaisedByRows
<1>3. Raised(byWeek, {"ITGC-CM"})
  <2> DEFINE dated == {k \in DOMAIN rows : rows[k].implementation_date.form # "none"}
             w == [k \in dated |-> WeekOf(rows[k].implementation_date)]
             weeks == {w[k] : k \in dated}
             h == [week \in weeks |->
                     Finding("ITGC-CM", <<"week", week>>, "", "HIGH_CHANGE_VELOCITY", "MEDIUM")]
  <2>1. IsFiniteSet(dated)
    BY FiniteRows
  <2>2. IsFiniteSet(weeks)
    <3> HIDE DEF dated, w
    <3> QED BY <2>1, FiniteImage
  <2>3. BusyWeeks(rows) \subseteq weeks
    BY DEF BusyWeeks
  <2>4. byWeek = {h[week] : week \in BusyWeeks(rows)}
    <3> HIDE DEF weeks
    <3> QED BY <2>3
  <2>5. IsFiniteSet(BusyWeeks(rows))
    <3> HIDE DEF weeks
    <3> QED BY <2>2, <2>3, FS_Subset
  <2>6. IsFiniteSet(byWeek)
    <3> HIDE DEF h, byWeek
    <3> QED BY <2>4, <2>5, FiniteImage
  <2>7. \A f0 \in byWeek : IsFinding(f0) /\ f0.area = "ITGC-CM"
    <3> SUFFICES ASSUME NEW week \in BusyWeeks(rows)
                 PROVE  LET f0 == Finding("ITGC-CM", <<"week", week>>, "", "HIGH_CHANGE_VELOCITY", "MEDIUM")
                        IN IsFinding(f0) /\ f0.area = "ITGC-CM"
      BY Zenon
    <3> DEFINE row == <<"week", week>>
    <3>1. IsFinding(Finding("ITGC-CM", row, "", "HIGH_CHANGE_VELOCITY", "MEDIUM"))
      BY FindingFields
    <3>2. Finding("ITGC-CM", row, "", "HIGH_CHANGE_VELOCITY", "MEDIUM").area = "ITGC-CM"
      BY DEF Finding
    <3> QED BY <3>1, <3>2
  <2> HIDE DEF byWeek
  <2> QED BY <2>6, <2>7 DEF Raised
<1>4. TestChangeManagement(rows) = byRow \cup byWeek
  <2>1. byRow = UNION {ChangeFindings(Row(k), rows[k]) : k \in DOMAIN rows}
    OBVIOUS
  <2>2. TestChangeManagement(rows)
          = (UNION {ChangeFindings(Row(k), rows[k]) : k \in DOMAIN rows}) \cup byWeek
    BY Zenon DEF TestChangeManagement
  <2> HIDE DEF byRow, byWeek
  <2> QED BY Zenon, <2>1, <2>2
<1> HIDE DEF byRow, byWeek
<1> QED BY <1>2, <1>3, <1>4, RaisedUnion

\* The operations tests, of the three types the runner passes.
LEMMA OperationsRaised ==
  ASSUME NEW rows, IsList(rows), NEW type \in {"backup", "incident", "dr"}
  PROVE  Raised(TestOperationsControls(rows, type), {"ITGC-OPS"})
<1>1. ASSUME NEW row, NEW record PROVE Raised(BackupFindings(row, record), {"ITGC-OPS"})
  <2> DEFINE Raise(kind, risk) == Finding("ITGC-OPS", row, record.id, kind, risk)
             a == RaiseIf(record.status = "failed", Raise("BACKUP_FAILURE", "CRITICAL"))
             b == RaiseIf(Dates(record.backup_date) /\ record.backup_date.age > BackupFrequencyDays,
                          Raise("BACKUP_OVERDUE", "HIGH"))
             c == RaiseIf(record.restore_tested # "yes", Raise("BACKUP_NOT_VERIFIED", "MEDIUM"))
  <2>1. BackupFindings(row, record) = UNION {a, b, c}
    BY DEF BackupFindings
  <2>2. Raised(a, {"ITGC-OPS"}) /\ Raised(b, {"ITGC-OPS"}) /\ Raised(c, {"ITGC-OPS"})
    <3>1. Raised(a, {"ITGC-OPS"})
      BY RaisedIf
    <3>2. Raised(b, {"ITGC-OPS"})
      BY RaisedIf
    <3>3. Raised(c, {"ITGC-OPS"})
      BY RaisedIf
    <3> HIDE DEF a, b, c
    <3> QED BY <3>1, <3>2, <3>3
  <2> HIDE DEF a, b, c
  <2>3. UNION {a, b, c} = (a \cup b) \cup c
    OBVIOUS
  <2>4. Raised(a \cup b, {"ITGC-OPS"})
    BY <2>2, RaisedUnion
  <2> QED BY <2>1, <2>2, <2>3, <2>4, RaisedUnion
<1>2. ASSUME NEW row, NEW record PROVE Raised(IncidentFindings(row, record), {"ITGC-OPS"})
  <2> DEFINE Raise(kind, risk) == Finding("ITGC-OPS", row, record.id, kind, risk)
             urgent == record.priority = "p1" /\ record.created_at # NoTime
             resolved == record.resolved_at # NoTime
             a == RaiseIf(/\ urgent /\ resolved
                          /\ record.resolved_at - record.created_at > IncidentResponseHours,
                          Raise("P1_RESPONSE_BREACH", "HIGH"))
             b == RaiseIf(urgent /\ ~resolved /\ record.status \notin {"resolved", "closed", "fixed"},
                          Raise("P1_UNRESOLVED", "CRITICAL"))
  <2>1. IncidentFindings(row, record) = UNION {a, b}
    BY Zenon DEF IncidentFindings
  <2>2. Raised(a, {"ITGC-OPS"}) /\ Raised(b, {"ITGC-OPS"})
    <3>1. Raised(a, {"ITGC-OPS"})
      BY RaisedIf
    <3>2. Raised(b, {"ITGC-OPS"})
      BY RaisedIf
    <3> HIDE DEF a, b
    <3> QED BY <3>1, <3>2
  <2> HIDE DEF a, b
  <2>3. UNION {a, b} = a \cup b
    OBVIOUS
  <2> QED BY <2>1, <2>2, <2>3, RaisedUnion
<1>3. ASSUME NEW row, NEW record PROVE Raised(DrFindings(row, record), {"ITGC-OPS"})
  BY RaisedIf, RaisedUnion DEF DrFindings
<1>4. Raised(DrOverdue(rows), {"ITGC-OPS"})
  BY RaisedIf DEF DrOverdue
<1> DEFINE b == [k \in DOMAIN rows |-> BackupFindings(Row(k), rows[k])]
           c == [k \in DOMAIN rows |-> IncidentFindings(Row(k), rows[k])]
           d == [k \in DOMAIN rows |-> DrFindings(Row(k), rows[k])]
<1>5. /\ \A k \in DOMAIN rows : Raised(b[k], {"ITGC-OPS"})
      /\ \A k \in DOMAIN rows : Raised(c[k], {"ITGC-OPS"})
      /\ \A k \in DOMAIN rows : Raised(d[k], {"ITGC-OPS"})
  BY <1>1, <1>2, <1>3
<1>6. TestOperationsControls(rows, type)
        = CASE type = "backup" -> UNION {b[k] : k \in DOMAIN rows}
            [] type = "incident" -> UNION {c[k] : k \in DOMAIN rows}
            [] type = "dr" -> (UNION {d[k] : k \in DOMAIN rows}) \cup DrOverdue(rows)
  BY Zenon DEF TestOperationsControls
<1> HIDE DEF b, c, d
<1>7. /\ Raised(UNION {b[k] : k \in DOMAIN rows}, {"ITGC-OPS"})
      /\ Raised(UNION {c[k] : k \in DOMAIN rows}, {"ITGC-OPS"})
      /\ Raised((UNION {d[k] : k \in DOMAIN rows}) \cup DrOverdue(rows), {"ITGC-OPS"})
  <2>1. Raised(UNION {b[k] : k \in DOMAIN rows}, {"ITGC-OPS"})
    BY <1>5, RaisedByRows
  <2>2. Raised(UNION {c[k] : k \in DOMAIN rows}, {"ITGC-OPS"})
    BY <1>5, RaisedByRows
  <2>3. Raised(UNION {d[k] : k \in DOMAIN rows}, {"ITGC-OPS"})
    BY <1>5, RaisedByRows
  <2>4. Raised((UNION {d[k] : k \in DOMAIN rows}) \cup DrOverdue(rows), {"ITGC-OPS"})
    BY <1>4, <2>3, RaisedUnion
  <2> QED BY <2>1, <2>2, <2>4
<1>8. CASE type = "backup"
  BY <1>6, <1>7, <1>8
<1>9. CASE type = "incident"
  BY <1>6, <1>7, <1>9
<1>10. CASE type = "dr"
  BY <1>6, <1>7, <1>10
<1> QED BY <1>8, <1>9, <1>10

\* The application control tests.
LEMMA TransactionsRaised ==
  ASSUME NEW rows, IsList(rows), NEW interfaces, IsList(interfaces)
  PROVE  Raised(RunAllItacTests(rows, interfaces), Itac)
<1>1. ASSUME NEW row, NEW invoice PROVE Raised(ThreeWayMatch(row, invoice), Itac)
  <2> DEFINE Raise(type, risk) == Finding("ITAC-AP", row, invoice.invoice_id, type, risk)
             z == {Raise("THREE_WAY_MATCH_BYPASS", "CRITICAL")}
             a == RaiseIf(Disagree({invoice.po_amount, invoice.gr_amount, invoice.invoice_amount}, 5, 50),
                          Raise("THREE_WAY_MATCH_VARIANCE", "HIGH"))
             b == RaiseIf(Disagree({invoice.po_qty, invoice.gr_qty, invoice.invoice_qty}, 2, 1),
                          Raise("THREE_WAY_QUANTITY_MISMATCH", "HIGH"))
             c == RaiseIf(PriceVaries(invoice.po_unit_price, invoice.unit_price),
                          Raise("THREE_WAY_PRICE_VARIANCE", "HIGH"))
  <2>1. ThreeWayMatch(row, invoice)
          = IF invoice.three_way_match = "bypass" THEN z ELSE (a \cup b) \cup c
    BY Zenon DEF ThreeWayMatch
  <2>2. Raised(a, Itac) /\ Raised(b, Itac) /\ Raised(c, Itac)
    <3>1. Raised(a, Itac)
      BY RaisedIf
    <3>2. Raised(b, Itac)
      BY RaisedIf
    <3>3. Raised(c, Itac)
      BY RaisedIf
    <3> HIDE DEF a, b, c
    <3> QED BY <3>1, <3>2, <3>3
  <2>3. Raised(z, Itac)
    <3> DEFINE f == Raise("THREE_WAY_MATCH_BYPASS", "CRITICAL")
    <3>1. IsFinding(f) /\ f.area \in Itac
      BY FindingFields
    <3> HIDE DEF f
    <3>2. Raised({f}, Itac)
      BY <3>1, FS_Singleton DEF Raised
    <3> QED BY <3>2 DEF f
  <2> HIDE DEF a, b, c, z
  <2>4. Raised(a \cup b, Itac)
    BY <2>2, RaisedUnion
  <2>5. Raised((a \cup b) \cup c, Itac)
    BY <2>2, <2>4, RaisedUnion
  <2> QED BY <2>1, <2>3, <2>5
<1>2. ASSUME NEW row, NEW invoice PROVE Raised(ApprovalLimits(row, invoice), Itac)
  <2> DEFINE Raise(type, risk) == Finding("ITAC-AP", row, invoice.invoice_id, type, risk)
             a == RaiseIf(/\ invoice.invoice_amount > HighValueThreshold
                          /\ invoice.approver_level \notin {"vp", "director", "cfo"},
                          Raise("APPROVAL_LIMIT_BREACH", "CRITICAL"))
             b == RaiseIf(/\ invoice.invoice_amount > ApprovalThreshold
                          /\ invoice.invoice_amount <= HighValueThreshold
                          /\ invoice.approver_level = "",
                          Raise("APPROVAL_LEVEL_UNCLEAR", "HIGH"))
  <2>1. ApprovalLimits(row, invoice) = a \cup b
    BY Zenon DEF ApprovalLimits
  <2>2. Raised(a, Itac)
    BY RaisedIf
  <2>3. Raised(b, Itac)
    BY RaisedIf
  <2> HIDE DEF a, b
  <2> QED BY <2>1, <2>2, <2>3, RaisedUnion
<1>3. ASSUME NEW row, NEW run PROVE Raised(InterfaceControls(row, run), Itac)
  <2> DEFINE Raise(type) == Finding("ITAC-INT", row, run.id, type, "HIGH")
             Differ(u, v) == u # 0 /\ v # 0 /\ u # v
             a == RaiseIf(run.status = "failed", Raise("INTERFACE_FAILURE"))
             b == RaiseIf(Differ(run.source_count, run.target_count), Raise("INTERFACE_COUNT_MISMATCH"))
             c == RaiseIf(Differ(run.source_total, run.target_total), Raise("INTERFACE_AMOUNT_MISMATCH"))
  <2>1. InterfaceControls(row, run) = UNION {a, b, c}
    BY Zenon DEF InterfaceControls
  <2>2. Raised(a, Itac) /\ Raised(b, Itac) /\ Raised(c, Itac)
    <3>1. Raised(a, Itac)
      BY RaisedIf
    <3>2. Raised(b, Itac)
      BY RaisedIf
    <3>3. Raised(c, Itac)
      BY RaisedIf
    <3> HIDE DEF a, b, c
    <3> QED BY <3>1, <3>2, <3>3
  <2> HIDE DEF a, b, c
  <2>3. UNION {a, b, c} = (a \cup b) \cup c
    OBVIOUS
  <2>4. Raised(a \cup b, Itac)
    BY <2>2, RaisedUnion
  <2> QED BY <2>1, <2>2, <2>3, <2>4, RaisedUnion
<1>4. Raised(DuplicatePayments(rows), Itac)
  <2> DEFINE keyed == {k \in DOMAIN rows : rows[k].vendor # "" /\ rows[k].invoice_amount # 0}
             Key(k) == <<rows[k].vendor, rows[k].invoice_amount>>
             Group(key) == {k \in keyed : Key(k) = key}
             Repeated(group) == \E k, j \in group : /\ k # j /\ rows[k].invoice_number # ""
                                                    /\ rows[k].invoice_number = rows[j].invoice_number
             F(key) == Finding("ITAC-AP", key, rows[Smallest(Group(key))].invoice_id,
                               "DUPLICATE_PAYMENT_RISK",
                               IF Repeated(Group(key)) THEN "CRITICAL" ELSE "HIGH")
             several == {k \in keyed : Cardinality(Group(Key(k))) > 1}
             keys == {Key(k) : k \in several}
             raised == {F(key) : key \in keys}
             w == [k \in several |-> Key(k)]
             h == [key \in keys |-> F(key)]
  <2>1. DuplicatePayments(rows) = raised
    BY Zenon DEF DuplicatePayments
  <2>2. IsFiniteSet(several)
    BY FiniteRows
  <2>3. keys = {w[k] : k \in several}
    <3> HIDE DEF several
    <3> QED OBVIOUS
  <2>4. IsFiniteSet(keys)
    <3> HIDE DEF several, w, keys
    <3> QED BY <2>2, <2>3, FiniteImage
  <2>5. raised = {h[key] : key \in keys}
    <3> HIDE DEF keys, F
    <3> QED OBVIOUS
  <2>6. IsFiniteSet(raised)
    <3> HIDE DEF keys, raised, h
    <3> QED BY <2>4, <2>5, FiniteImage
  <2>7. \A f \in raised : IsFinding(f) /\ f.area \in Itac
    <3>1. ASSUME NEW key PROVE IsFinding(F(key)) /\ F(key).area \in Itac
      <4> DEFINE subject == rows[Smallest(Group(key))].invoice_id
                 risk == IF Repeated(Group(key)) THEN "CRITICAL" ELSE "HIGH"
      <4>1. F(key) = Finding("ITAC-AP", key, subject, "DUPLICATE_PAYMENT_RISK", risk)
        BY Zenon
      <4> HIDE DEF subject, risk, F
      <4> QED BY <4>1, FindingFields
    <3> HIDE DEF keys, F
    <3> QED BY <3>1
  <2> HIDE DEF raised
  <2> QED BY <2>1, <2>6, <2>7 DEF Raised
<1> DEFINE b == [k \in DOMAIN rows |-> ThreeWayMatch(Row(k), rows[k]) \cup ApprovalLimits(Row(k), rows[k])]
           c == [k \in DOMAIN interfaces |-> InterfaceControls(Row(k), interfaces[k])]
           invoiced == UNION {b[k] : k \in DOMAIN rows}
           passed == UNION {c[k] : k \in DOMAIN interfaces}
<1>5. /\ \A k \in DOMAIN rows : Raised(b[k], Itac)
      /\ \A k \in DOMAIN interfaces : Raised(c[k], Itac)
  BY <1>1, <1>2, <1>3, RaisedUnion
<1>6. RunAllItacTests(rows, interfaces) = (invoiced \cup DuplicatePayments(rows)) \cup passed
  <2>1. invoiced = UNION {ThreeWayMatch(Row(k), rows[k]) \cup ApprovalLimits(Row(k), rows[k]) :
                            k \in DOMAIN rows}
    OBVIOUS
  <2>2. passed = UNION {InterfaceControls(Row(k), interfaces[k]) : k \in DOMAIN interfaces}
    OBVIOUS
  <2> HIDE DEF invoiced, passed
  <2> QED BY Zenon, <2>1, <2>2 DEF RunAllItacTests
<1>7. Raised(invoiced, Itac) /\ Raised(passed, Itac)
  <2> HIDE DEF b, c
  <2>1. Raised(invoiced, Itac)
    BY <1>5, RaisedByRows
  <2>2. Raised(passed, Itac)
    BY <1>5, RaisedByRows
  <2> QED BY <2>1, <2>2
<1> HIDE DEF invoiced, passed
<1>8. Raised(invoiced \cup DuplicatePayments(rows), Itac)
  BY <1>4, <1>7, RaisedUnion
<1> QED BY <1>6, <1>7, <1>8, RaisedUnion

\* The search for conflicting duties, with finitely many rules.
LEMMA ConflictsRaised ==
  ASSUME SodMatrixAssumption, NEW rows, IsList(rows)
  PROVE  Raised(DetectSodConflicts(UserRoles(rows)), {"ITGC-SOD"})
<1> DEFINE table == UserRoles(rows)
           Of(user) == {r \in SodMatrix : \E pair \in Pairs(table[user]) : Toxic(pair, r)}
           F(user, rule) == Finding("ITGC-SOD", <<"user", user>>, user, rule.type, rule.risk)
           g == [user \in DOMAIN table |-> {F(user, rule) : rule \in Of(user)}]
           T == {g[user] : user \in DOMAIN table}
<1>1. IsFiniteSet(DOMAIN table)
  <2> DEFINE named == {k \in DOMAIN rows : rows[k].user_id # "" /\ rows[k].roles # {}}
             w == [k \in named |-> rows[k].user_id]
  <2>1. IsFiniteSet(named)
    BY FiniteRows
  <2>2. DOMAIN table = {w[k] : k \in named}
    BY DEF UserRoles
  <2> HIDE DEF named, w
  <2> QED BY <2>1, <2>2, FiniteImage
<1>2. ASSUME NEW user \in DOMAIN table PROVE Raised(g[user], {"ITGC-SOD"})
  <2> DEFINE h == [rule \in Of(user) |-> F(user, rule)]
  <2>1. IsFiniteSet(Of(user))
    BY FS_Subset DEF SodMatrixAssumption
  <2>2. g[user] = {h[rule] : rule \in Of(user)}
    <3> HIDE DEF Of, F, table
    <3> QED OBVIOUS
  <2>3. IsFiniteSet(g[user])
    <3> HIDE DEF Of, h, g
    <3> QED BY <2>1, <2>2, FiniteImage
  <2>4. \A f \in g[user] : IsFinding(f) /\ f.area = "ITGC-SOD"
    <3> HIDE DEF Of, table
    <3> QED BY FindingFields
  <2> HIDE DEF g
  <2> QED BY <2>3, <2>4 DEF Raised
<1>3. IsFiniteSet(T)
  <2> HIDE DEF g, table
  <2> QED BY <1>1, FiniteImage
<1>4. DetectSodConflicts(table) = UNION T
  BY DEF DetectSodConflicts
<1>5. \A t \in T : Raised(t, {"ITGC-SOD"})
  BY <1>2
<1> HIDE DEF T, table
<1>6. IsFiniteSet(UNION T)
  BY <1>3, <1>5, FS_UNION DEF Raised
<1>7. \A f \in UNION T : IsFinding(f) /\ f.area = "ITGC-SOD"
  BY <1>5 DEF Raised
<1> QED BY <1>4, <1>6, <1>7 DEF Raised, table

\* The areas may be given more widely.
LEMMA RaisedAmong ==
  ASSUME NEW S, NEW few, NEW many, Raised(S, few), few \subseteq many PROVE Raised(S, many)
BY DEF Raised

\* The areas of the findings of each engine.
DomainAreas ==
  [sod |-> {"ITGC-SOD"}, access |-> {"ITGC-LA"}, change_management |-> {"ITGC-CM"},
   operations_backup |-> {"ITGC-OPS"}, operations_incidents |-> {"ITGC-OPS"},
   operations_dr |-> {"ITGC-OPS"}, itac |-> Itac]

\* Every engine raises findings of its own areas, for the rows of any file.
LEMMA DomainsRaised ==
  ASSUME SodMatrixAssumption, NEW parsed, IsParsed(parsed)
  PROVE  /\ DOMAIN DomainResults(parsed) = DOMAIN DomainAreas
         /\ \A d \in DOMAIN DomainAreas : Raised(DomainResults(parsed)[d], DomainAreas[d])
<1> DEFINE Rows(type) == RecordsOfType(parsed, type)
           r == DomainResults(parsed)
<1>1. \A type : IsList(Rows(type))
  BY RowsOfSheets
<1>2. Raised({}, {"ITGC-SOD"})
  BY FS_EmptySet DEF Raised
<1> HIDE DEF Rows
<1>3. Raised(r.sod, {"ITGC-SOD"})
  BY <1>1, <1>2, ConflictsRaised DEF DomainResults, Rows
<1>4. Raised(r.access, {"ITGC-LA"})
  BY <1>1, AccessRaised DEF DomainResults, Rows
<1>5. Raised(r.change_management, {"ITGC-CM"})
  BY <1>1, ChangesRaised DEF DomainResults, Rows
<1>6. /\ Raised(r.operations_backup, {"ITGC-OPS"}) /\ Raised(r.operations_incidents, {"ITGC-OPS"})
      /\ Raised(r.operations_dr, {"ITGC-OPS"})
  BY <1>1, OperationsRaised DEF DomainResults, Rows
<1>7. Raised(r.itac, Itac)
  BY <1>1, TransactionsRaised DEF DomainResults, Rows
<1>8. DOMAIN r = DOMAIN DomainAreas
  BY DEF DomainResults, DomainAreas
<1>9. DOMAIN DomainAreas = {"sod", "access", "change_management", "operations_backup",
                            "operations_incidents", "operations_dr", "itac"}
  BY DEF DomainAreas
<1>10. ASSUME NEW d \in DOMAIN DomainAreas PROVE Raised(r[d], DomainAreas[d])
  <2> HIDE DEF r
  <2>1. CASE d = "sod"
    BY <1>3, <2>1 DEF DomainAreas
  <2>2. CASE d = "access"
    BY <1>4, <2>2 DEF DomainAreas
  <2>3. CASE d = "change_management"
    BY <1>5, <2>3 DEF DomainAreas
  <2>4. CASE d \in {"operations_backup", "operations_incidents", "operations_dr"}
    BY <1>6, <2>4 DEF DomainAreas
  <2>5. CASE d = "itac"
    BY <1>7, <2>5 DEF DomainAreas
  <2> QED BY <1>9, <2>1, <2>2, <2>3, <2>4, <2>5
<1> QED BY <1>8, <1>10

\* The findings of all engines.
LEMMA AllRaised ==
  ASSUME SodMatrixAssumption, NEW parsed, IsParsed(parsed)
  PROVE  Raised(AllFindings(DomainResults(parsed)), Areas)
<1> DEFINE r == DomainResults(parsed)
           T == {r[d] : d \in DOMAIN DomainAreas}
<1>1. AllFindings(r) = UNION T
  BY DomainsRaised DEF AllFindings
<1>2. \A d \in DOMAIN DomainAreas : Raised(r[d], DomainAreas[d]) /\ DomainAreas[d] \subseteq Areas
  BY DomainsRaised DEF DomainAreas, Areas
<1>3. IsFiniteSet(DOMAIN DomainAreas)
  <2> DEFINE order == <<"sod", "access", "change_management", "operations_backup",
                        "operations_incidents", "operations_dr", "itac">>
  <2>1. DOMAIN DomainAreas = {order[k] : k \in 1..7}
    <3>1. /\ order[1] = "sod" /\ order[2] = "access" /\ order[3] = "change_management"
          /\ order[4] = "operations_backup" /\ order[5] = "operations_incidents"
          /\ order[6] = "operations_dr" /\ order[7] = "itac"
      OBVIOUS
    <3>2. 1..7 = {1, 2, 3, 4, 5, 6, 7}
      OBVIOUS
    <3>3. DOMAIN DomainAreas = {"sod", "access", "change_management", "operations_backup",
                                "operations_incidents", "operations_dr", "itac"}
      BY DEF DomainAreas
    <3> HIDE DEF order
    <3> QED BY <3>1, <3>2, <3>3
  <2>2. IsFiniteSet(1..7)
    <3> DEFINE n == 7
    <3>1. n \in Int
      OBVIOUS
    <3> HIDE DEF n
    <3>2. IsFiniteSet(1..n)
      BY <3>1, FS_Interval
    <3> QED BY <3>2 DEF n
  <2> HIDE DEF order
  <2> QED BY <2>1, <2>2, FiniteImage
<1>4. \A t \in T : Raised(t, Areas)
  BY <1>2, RaisedAmong
<1>5. IsFiniteSet(T)
  <2> HIDE DEF r
  <2> QED BY <1>3, FiniteImage
<1> HIDE DEF T, r
<1>6. IsFiniteSet(UNION T)
  BY <1>4, <1>5, FS_UNION DEF Raised
<1>7. \A f \in UNION T : IsFinding(f) /\ f.area \in Areas
  BY <1>4 DEF Raised
<1> QED BY <1>1, <1>6, <1>7 DEF Raised, r

\* Linking findings to transactions keeps their fields.
LEMMA CorroboratedRaised ==
  ASSUME NEW S, NEW areas, Raised(S, areas), NEW descriptions
  PROVE  Raised(Corroborated(S, descriptions), areas)
<1> DEFINE F(f) == [f EXCEPT !.risk_level =
                      IF \E texts \in descriptions : Corroborates(texts, f) THEN "CRITICAL" ELSE @]
           h == [f \in S |-> F(f)]
<1>1. Corroborated(S, descriptions) = {F(f) : f \in S}
  BY DEF Corroborated
<1>2. \A f \in S : IsFinding(F(f)) /\ F(f).area \in areas
  BY DEF Raised, IsFinding, Finding
<1> HIDE DEF F
<1>3. Corroborated(S, descriptions) = {h[f] : f \in S}
  BY <1>1
<1> HIDE DEF h
<1>4. IsFiniteSet(Corroborated(S, descriptions))
  BY <1>3, FiniteImage DEF Raised
<1> QED BY <1>1, <1>2, <1>4 DEF Raised

\* No finding has an entity to replace.
LEMMA NothingToTokenize == ASSUME NEW S, NEW areas, Raised(S, areas) PROVE TokenizeIdentities(S) = S
BY DEF TokenizeIdentities, Raised, IsFinding, Finding

-----------------------------------------------------------------------------
\* The payload of an analysis, on its way (102) or sent (200).
Answer(status, file) ==
  LET result == RunAuditEngine(ParseFile(file))
  IN [status |-> status, all_findings |-> result.all_findings, file |-> file, result |-> result]
Answers == response.status \in {102, 200} =>
             \E file \in Uploads : response = Answer(response.status, file)

\* A transaction belongs to a request under way.
Transacting ==
  /\ request # NoRequest => response.status = 102
  /\ session # NoSession => request # NoRequest /\ session.rows = response.all_findings

\* The ids of stored findings name the analysis and the finding; those of the
\* latest analysis appear with its answer, none or all of them.
Stored ==
  /\ runs \in Nat
  /\ \A id \in DOMAIN findings :
       /\ id[1] \in Nat /\ id[1] <= runs /\ (response.status # 200 => id[1] < runs)
       /\ findings[id] = [severity |-> id[2].risk_level, lineage |-> <<>>,
                          verdict |-> findings[id].verdict]
  /\ Reported \cap DOMAIN findings = {} \/ Reported \subseteq DOMAIN findings

EngineIInv == Answers /\ Transacting /\ Stored

\* It holds before the first analysis.
LEMMA InitEngine == Init => EngineIInv
<1> SUFFICES ASSUME Init PROVE EngineIInv
  OBVIOUS
<1>1. response.status = 0 /\ DOMAIN findings = {} /\ runs = 0 /\ request = NoRequest /\ session = NoSession
  BY DEF Init, NoResponse
<1> QED BY <1>1 DEF EngineIInv, Answers, Transacting, Stored, Reported

\* An analysis names its file and its payload, tokens or not.
LEMMA AnalyzeKeeps ==
  ASSUME EngineIInv, SodMatrixAssumption, UploadsAssumption,
         NEW file \in Uploads, NEW anonymize \in BOOLEAN, AnalyzeFile(file, anonymize)
  PROVE  EngineIInv'
<1> DEFINE result == RunAuditEngine(ParseFile(file))
<1>1. TokenizeIdentities(result.all_findings) = result.all_findings
  <2>1. IsParsed(ParseFile(file))
    BY ParsedLists
  <2>2. Raised(AllFindings(DomainResults(ParseFile(file))), Areas)
    BY <2>1, AllRaised
  <2>3. Raised(result.all_findings, Areas)
    BY <2>2, CorroboratedRaised DEF RunAuditEngine
  <2> QED BY <2>3, NothingToTokenize
<1> HIDE DEF result
<1>2. request = NoRequest /\ session = NoSession
  BY DEF AnalyzeFile, EngineIInv, Transacting
<1>3. \/ /\ response' = [NoResponse EXCEPT !.status = 422]
         /\ request' = request /\ session' = session
      \/ response' = Answer(102, file) /\ session' = NoSession
  BY <1>1, Zenon DEF AnalyzeFile, Answer, result
<1>4. response'.status \in {422, 102}
  BY <1>3 DEF NoResponse, Answer
<1>5. Answers'
  <2>1. CASE response' = Answer(102, file)
    <3>1. response'.status = 102
      BY <2>1 DEF Answer
    <3> QED BY <2>1, <3>1 DEF Answers
  <2>2. CASE response' = [NoResponse EXCEPT !.status = 422]
    BY <2>2 DEF NoResponse, Answers
  <2> QED BY <1>3, <2>1, <2>2
<1>6. Transacting'
  BY <1>2, <1>3 DEF Transacting, NoResponse, Answer
<1>7. Stored'
  <2>1. findings' = findings /\ runs' = runs + 1
    BY DEF AnalyzeFile
  <2>2. Reported' = {}
    BY <1>4 DEF Reported
  <2>3. /\ runs \in Nat
        /\ \A id \in DOMAIN findings : id[1] \in Nat /\ id[1] <= runs /\ (response.status # 200 => id[1] < runs)
    BY DEF EngineIInv, Stored
  <2> QED BY <2>1, <2>2, <2>3 DEF EngineIInv, Stored
<1> QED BY <1>5, <1>6, <1>7 DEF EngineIInv

\* The rows of the transaction are those of the answer.
LEMMA InsertKeeps ==
  ASSUME EngineIInv, NEW failed, InsertFindings(failed) PROVE EngineIInv'
<1>1. UNCHANGED <<request, response, findings, runs>> /\ request # NoRequest
      /\ session'.rows = response.all_findings
  BY DEF InsertFindings
<1>2. Answers'
  BY <1>1 DEF EngineIInv, Answers
<1>3. Transacting'
  BY <1>1 DEF EngineIInv, Transacting
<1>4. Stored'
  BY <1>1 DEF EngineIInv, Stored, Reported
<1> QED BY <1>2, <1>3, <1>4 DEF EngineIInv

\* A stored row has a level, no lineage, and a verdict.
LEMMA StoredFields ==
  ASSUME NEW f, NEW row, row = StoredRow(f)
  PROVE  row = [severity |-> f.risk_level, lineage |-> <<>>, verdict |-> row.verdict]
BY DEF StoredRow

\* The commit stores all rows of the answer, or nothing.
LEMMA CommitKeeps == ASSUME EngineIInv, CommitFindings PROVE EngineIInv'
<1>1. /\ response.status = 102 /\ session.rows = response.all_findings
      /\ request' = NoRequest /\ session' = NoSession /\ runs' = runs
      /\ response' = [response EXCEPT !.status = 200]
  BY DEF CommitFindings, EngineIInv, Transacting
<1>2. PICK file \in Uploads : response = Answer(102, file)
  BY <1>1 DEF EngineIInv, Answers
<1>3. response' = Answer(200, file)
  BY <1>1, <1>2 DEF Answer
<1>4. response'.status = 200 /\ response'.all_findings = response.all_findings
  BY <1>2, <1>3 DEF Answer
<1>5. Answers'
  BY <1>3, <1>4 DEF Answers
<1>6. Transacting'
  BY <1>1 DEF Transacting
<1>7. Stored'
  <2> DEFINE new == {<<runs, f>> : f \in response.all_findings}
  <2>1. Reported' = new
    BY <1>1, <1>4 DEF Reported
  <2>2. \A id \in new : id[1] = runs /\ id[2] \in response.all_findings
    OBVIOUS
  <2>3. /\ runs \in Nat
        /\ \A id \in DOMAIN findings :
             /\ id[1] \in Nat /\ id[1] < runs
             /\ findings[id] = [severity |-> id[2].risk_level, lineage |-> <<>>,
                                verdict |-> findings[id].verdict]
    BY <1>1 DEF EngineIInv, Stored
  <2>4. new \cap DOMAIN findings = {}
    BY <2>2, <2>3
  <2>5. CASE session.aborted
    <3>1. findings' = findings
      BY <2>5 DEF CommitFindings
    <3> HIDE DEF new
    <3>2. Reported' \cap DOMAIN findings' = {}
      BY <2>1, <2>4, <3>1
    <3> QED BY <1>1, <1>4, <2>3, <3>1, <3>2 DEF Stored
  <2>6. CASE ~session.aborted
    <3>1. findings' = [id \in DOMAIN findings \cup new |->
                         IF id \in DOMAIN findings THEN findings[id] ELSE StoredRow(id[2])]
      BY <1>1, <2>6 DEF CommitFindings
    <3> HIDE DEF new
    <3>2. DOMAIN findings' = DOMAIN findings \cup new /\ Reported' \subseteq DOMAIN findings'
      BY <2>1, <3>1
    <3>3. ASSUME NEW id \in DOMAIN findings'
          PROVE  /\ id[1] \in Nat /\ id[1] <= runs
                 /\ findings'[id] = [severity |-> id[2].risk_level, lineage |-> <<>>,
                                     verdict |-> findings'[id].verdict]
      <4>1. CASE id \in DOMAIN findings
        <5>1. findings'[id] = findings[id]
          BY <3>1, <3>2, <4>1
        <5> QED BY <2>3, <4>1, <5>1
      <4>2. CASE id \notin DOMAIN findings
        <5>1. id \in new /\ findings'[id] = StoredRow(id[2])
          BY <3>1, <3>2, <4>2
        <5>2. id[1] = runs
          BY <2>2, <5>1
        <5> QED BY <2>3, <5>1, <5>2, StoredFields
      <4> QED BY <4>1, <4>2
    <3> QED BY <1>1, <1>4, <2>3, <3>2, <3>3 DEF Stored
  <2> QED BY <2>5, <2>6
<1> QED BY <1>5, <1>6, <1>7 DEF EngineIInv

\* A request that ends with an error leaves nothing.
LEMMA DownKeeps == ASSUME EngineIInv, DatabaseDown PROVE EngineIInv'
<1>1. /\ response.status = 102 /\ response'.status = 500
      /\ request' = NoRequest /\ session' = NoSession /\ findings' = findings /\ runs' = runs
  BY DEF DatabaseDown, EngineIInv, Transacting, NoResponse
<1>2. Answers' /\ Transacting'
  BY <1>1 DEF Answers, Transacting
<1>3. Reported' = {}
  BY <1>1 DEF Reported
<1>4. Stored'
  BY <1>1, <1>3 DEF EngineIInv, Stored
<1> QED BY <1>2, <1>4 DEF EngineIInv

\* A verdict changes nothing else of a finding.
LEMMA VerdictKeeps ==
  ASSUME EngineIInv, NEW id, NEW verdict, SetVerdict(id, verdict) PROVE EngineIInv'
<1>1. /\ UNCHANGED <<request, session, response, runs>>
      /\ findings' = IF id \in DOMAIN findings THEN [findings EXCEPT ![id].verdict = verdict] ELSE findings
  BY DEF SetVerdict
<1>2. Answers' /\ Transacting'
  BY <1>1 DEF EngineIInv, Answers, Transacting
<1>3. DOMAIN findings' = DOMAIN findings
  BY <1>1
<1>4. ASSUME NEW j \in DOMAIN findings
      PROVE  findings'[j] = [severity |-> j[2].risk_level, lineage |-> <<>>, verdict |-> findings'[j].verdict]
  <2>1. findings[j] = [severity |-> j[2].risk_level, lineage |-> <<>>, verdict |-> findings[j].verdict]
    BY DEF EngineIInv, Stored
  <2>2. CASE findings'[j] = findings[j]
    BY <2>1, <2>2
  <2>3. CASE findings'[j] = [findings[j] EXCEPT !.verdict = verdict]
    <3>1. findings'[j] = [severity |-> j[2].risk_level, lineage |-> <<>>, verdict |-> verdict]
      BY <2>1, <2>3
    <3> QED BY <3>1
  <2>4. findings'[j] = findings[j] \/ findings'[j] = [findings[j] EXCEPT !.verdict = verdict]
    BY <1>1
  <2> QED BY <2>2, <2>3, <2>4
<1>5. Reported' = Reported
  BY <1>1 DEF Reported
<1>6. Stored'
  BY <1>1, <1>3, <1>4, <1>5 DEF EngineIInv, Stored
<1> QED BY <1>2, <1>6 DEF EngineIInv

\* Every step keeps the invariant.
LEMMA EngineStep ==
  ASSUME EngineIInv, SodMatrixAssumption, UploadsAssumption, [Next]_vars PROVE EngineIInv'
<1>1. ASSUME NEW file \in Uploads, NEW anonymize \in BOOLEAN, AnalyzeFile(file, anonymize)
      PROVE  EngineIInv'
  BY <1>1, AnalyzeKeeps
<1>2. ASSUME NEW failed, InsertFindings(failed) PROVE EngineIInv'
  BY <1>2, InsertKeeps
<1>3. CASE CommitFindings
  BY <1>3, CommitKeeps
<1>4. CASE DatabaseDown
  BY <1>4, DownKeeps
<1>5. ASSUME NEW id, NEW verdict, SetVerdict(id, verdict) PROVE EngineIInv'
  BY <1>5, VerdictKeeps
<1>6. CASE UNCHANGED vars
  <2>1. UNCHANGED <<request, session, response, findings, runs>>
    BY <1>6 DEF vars
  <2> QED BY <2>1 DEF EngineIInv, Answers, Transacting, Stored, Reported
<1> QED BY <1>1, <1>2, <1>3, <1>4, <1>5, <1>6 DEF Next

\* The invariant holds throughout, whatever is uploaded, fails or is decided.
THEOREM EngineInvariant == Spec => []EngineIInv
<1>1. EngineIInv /\ [Next]_vars => EngineIInv'
  <2> SUFFICES ASSUME EngineIInv, [Next]_vars PROVE EngineIInv'
    OBVIOUS
  <2> QED BY EngineStep, SodMatrixAssumption, UploadsAssumption DEF SodMatrixAssumption, UploadsAssumption
<1> QED BY InitEngine, <1>1, PTL DEF Spec

\* A set of ids has as many members as the findings they are for.
LEMMA IdsCount ==
  ASSUME NEW n, NEW S, IsFiniteSet(S)
  PROVE  IsFiniteSet({<<n, f>> : f \in S}) /\ Cardinality({<<n, f>> : f \in S}) = Cardinality(S)
<1> DEFINE T == {<<n, f>> : f \in S}
           g == [f \in S |-> <<n, f>>]
<1>1. g \in Bijection(S, T)
  BY DEF Bijection, Injection, IsInjective, Surjection
<1> HIDE DEF T, g
<1>2. IsFiniteSet(T) /\ Cardinality(T) = Cardinality(S)
  BY <1>1, FS_Bijection DEF ExistsBijection
<1> QED BY <1>2 DEF T

\* Whatever one INSERT or the database does, the findings of an answered
\* analysis are stored all or not at all, with the levels they were rated by.
THEOREM EngineStoresAllOrNothing == Spec => []AllOrNothing
<1>1. EngineIInv => AllOrNothing
  <2> SUFFICES ASSUME EngineIInv PROVE AllOrNothing
    OBVIOUS
  <2>1. response.status # 200 => \A id \in DOMAIN findings : id[1] < runs
    BY DEF EngineIInv, Stored
  <2>2. ASSUME Reported \cap DOMAIN findings # {}, NEW risk \in RiskLevels
        PROVE  Cardinality({id \in Reported \cap DOMAIN findings : findings[id].severity = risk})
                 = response.result.findings_by_risk[risk]
    <3>1. Reported \subseteq DOMAIN findings
      BY <2>2 DEF EngineIInv, Stored
    <3>2. response.status = 200
      BY <2>2 DEF Reported
    <3>3. PICK file \in Uploads : response = Answer(200, file)
      BY <3>2 DEF EngineIInv, Answers
    <3> DEFINE all == response.all_findings
               these == {f \in all : f.risk_level = risk}
               ids == {id \in Reported \cap DOMAIN findings : findings[id].severity = risk}
    <3>4. all = RunAuditEngine(ParseFile(file)).all_findings /\ response.result = RunAuditEngine(ParseFile(file))
      BY <3>3 DEF Answer
    <3>5. response.result.findings_by_risk = ByRisk(all)
      BY <3>4 DEF RunAuditEngine
    <3>6. IsFiniteSet(all)
      <4>1. IsParsed(ParseFile(file))
        BY ParsedLists, UploadsAssumption
      <4>2. Raised(AllFindings(DomainResults(ParseFile(file))), Areas)
        BY <4>1, AllRaised, SodMatrixAssumption
      <4>3. Raised(all, Areas)
        BY <3>4, <4>2, CorroboratedRaised DEF RunAuditEngine
      <4> QED BY <4>3 DEF Raised
    <3>7. Reported = {<<runs, f>> : f \in all}
      BY <3>2 DEF Reported
    <3> HIDE DEF all
    <3>8. ids = {<<runs, f>> : f \in these}
      <4>1. \A f \in all : <<runs, f>> \in DOMAIN findings /\ findings[<<runs, f>>].severity = f.risk_level
        <5> SUFFICES ASSUME NEW f \in all
                     PROVE <<runs, f>> \in DOMAIN findings /\ findings[<<runs, f>>].severity = f.risk_level
          OBVIOUS
        <5>1. <<runs, f>> \in DOMAIN findings
          BY <3>1, <3>7
        <5>2. findings[<<runs, f>>] = [severity |-> <<runs, f>>[2].risk_level, lineage |-> <<>>,
                                       verdict |-> findings[<<runs, f>>].verdict]
          BY <5>1 DEF EngineIInv, Stored
        <5>3. findings[<<runs, f>>].severity = f.risk_level
          BY <5>2
        <5> QED BY <5>1, <5>3
      <4> QED BY <3>1, <3>7, <4>1
    <3>9. IsFiniteSet(these)
      BY <3>6, FS_Subset
    <3> HIDE DEF these, ids
    <3>10. Cardinality(ids) = Cardinality(these)
      BY <3>8, <3>9, IdsCount
    <3>11. ByRisk(all)[risk] = Cardinality(these)
      BY DEF ByRisk, these
    <3> QED BY <3>5, <3>10, <3>11 DEF ids
  <2> QED BY <2>1, <2>2 DEF AllOrNothing
<1> QED BY EngineInvariant, <1>1, PTL

-----------------------------------------------------------------------------
\* The kinds of findings about one invoice, and about a run of an interface.
InvoiceTypes == {"THREE_WAY_MATCH_BYPASS", "THREE_WAY_MATCH_VARIANCE", "THREE_WAY_QUANTITY_MISMATCH",
                 "THREE_WAY_PRICE_VARIANCE", "APPROVAL_LIMIT_BREACH", "APPROVAL_LEVEL_UNCLEAR"}
RunTypes == {"INTERFACE_FAILURE", "INTERFACE_COUNT_MISMATCH", "INTERFACE_AMOUNT_MISMATCH"}

\* A finding about transactions names a row, or the vendor and the amount of one.
LEMMA ItacPlaces ==
  ASSUME NEW invoices, NEW interfaces, NEW h \in RunAllItacTests(invoices, interfaces)
  PROVE  \/ /\ h.area = "ITAC-INT" /\ h.type \in RunTypes
            /\ \E n \in DOMAIN interfaces : h.row = Row(n)
         \/ /\ h.area = "ITAC-AP" /\ h.type \in InvoiceTypes
            /\ \E n \in DOMAIN invoices : h.row = Row(n)
         \/ /\ h.area = "ITAC-AP" /\ h.type = "DUPLICATE_PAYMENT_RISK"
            /\ \E n \in DOMAIN invoices : h.row = <<invoices[n].vendor, invoices[n].invoice_amount>>
<1>1. \/ \E n \in DOMAIN invoices : h \in ThreeWayMatch(Row(n), invoices[n])
      \/ \E n \in DOMAIN invoices : h \in ApprovalLimits(Row(n), invoices[n])
      \/ h \in DuplicatePayments(invoices)
      \/ \E n \in DOMAIN interfaces : h \in InterfaceControls(Row(n), interfaces[n])
  BY Zenon DEF RunAllItacTests
<1>2. ASSUME NEW n \in DOMAIN invoices, h \in ThreeWayMatch(Row(n), invoices[n])
      PROVE  h.area = "ITAC-AP" /\ h.type \in InvoiceTypes /\ h.row = Row(n)
  <2> DEFINE row == Row(n)
  <2> HIDE DEF row
  <2>1. h \in ThreeWayMatch(row, invoices[n])
    BY <1>2 DEF row
  <2>2. \E risk : \E type \in {"THREE_WAY_MATCH_BYPASS", "THREE_WAY_MATCH_VARIANCE",
                               "THREE_WAY_QUANTITY_MISMATCH", "THREE_WAY_PRICE_VARIANCE"} :
          h = Finding("ITAC-AP", row, invoices[n].invoice_id, type, risk)
    BY <2>1 DEF ThreeWayMatch, RaiseIf
  <2> QED BY <2>2 DEF Finding, row, InvoiceTypes
<1>3. ASSUME NEW n \in DOMAIN invoices, h \in ApprovalLimits(Row(n), invoices[n])
      PROVE  h.area = "ITAC-AP" /\ h.type \in InvoiceTypes /\ h.row = Row(n)
  <2> DEFINE row == Row(n)
  <2> HIDE DEF row
  <2>1. h \in ApprovalLimits(row, invoices[n])
    BY <1>3 DEF row
  <2>2. \E risk : \E type \in {"APPROVAL_LIMIT_BREACH", "APPROVAL_LEVEL_UNCLEAR"} :
          h = Finding("ITAC-AP", row, invoices[n].invoice_id, type, risk)
    BY <2>1 DEF ApprovalLimits, RaiseIf
  <2> QED BY <2>2 DEF Finding, row, InvoiceTypes
<1>4. ASSUME h \in DuplicatePayments(invoices)
      PROVE  /\ h.area = "ITAC-AP" /\ h.type = "DUPLICATE_PAYMENT_RISK"
             /\ \E n \in DOMAIN invoices : h.row = <<invoices[n].vendor, invoices[n].invoice_amount>>
  <2>1. PICK n, subject, risk :
          /\ n \in DOMAIN invoices
          /\ h = Finding("ITAC-AP", <<invoices[n].vendor, invoices[n].invoice_amount>>, subject,
                         "DUPLICATE_PAYMENT_RISK", risk)
    <3> DEFINE keyed == {n \in DOMAIN invoices : invoices[n].vendor # "" /\ invoices[n].invoice_amount # 0}
               Key(n) == <<invoices[n].vendor, invoices[n].invoice_amount>>
               Group(key) == {n \in keyed : Key(n) = key}
               keys == {Key(n) : n \in {k \in keyed : Cardinality(Group(Key(k))) > 1}}
    <3>1. PICK key \in keys : \E subject, risk :
            h = Finding("ITAC-AP", key, subject, "DUPLICATE_PAYMENT_RISK", risk)
      <4>1. PICK key \in keys :
              h = Finding("ITAC-AP", key, invoices[Smallest(Group(key))].invoice_id, "DUPLICATE_PAYMENT_RISK",
                          IF \E n, m \in Group(key) : /\ n # m /\ invoices[n].invoice_number # ""
                                                      /\ invoices[n].invoice_number = invoices[m].invoice_number
                          THEN "CRITICAL" ELSE "HIGH")
        BY <1>4, Zenon DEF DuplicatePayments
      <4> HIDE DEF keys, Group
      <4> QED BY <4>1
    <3>2. PICK n \in DOMAIN invoices : key = Key(n)
      OBVIOUS
    <3> HIDE DEF keys
    <3> QED BY <3>1, <3>2
  <2> QED BY <2>1 DEF Finding
<1>5. ASSUME NEW n \in DOMAIN interfaces, h \in InterfaceControls(Row(n), interfaces[n])
      PROVE  h.area = "ITAC-INT" /\ h.type \in RunTypes /\ h.row = Row(n)
  <2> DEFINE row == Row(n)
  <2> HIDE DEF row
  <2>1. h \in InterfaceControls(row, interfaces[n])
    BY <1>5 DEF row
  <2>2. \E type \in RunTypes : h = Finding("ITAC-INT", row, interfaces[n].id, type, "HIGH")
    BY <2>1 DEF InterfaceControls, RaiseIf, RunTypes
  <2> QED BY <2>2 DEF Finding, row
<1> QED BY <1>1, <1>2, <1>3, <1>4, <1>5

\* What is shown is a text, or words in its place.
LEMMA ShownName ==
  ASSUME NEW x, NEW default, NEW text, text = Shown(x, default), text[1] \in {"name", "lowered"}
  PROVE  text = <<"name", x>>
<1>1. CASE x = ""
  <2>1. text = <<"words", default>>
    BY <1>1 DEF Shown
  <2>2. text[1] = "words"
    BY <2>1
  <2> QED BY <2>2
<1>2. CASE x # ""
  BY <1>2 DEF Shown
<1> QED BY <1>1, <1>2

\* A name in what is said of an invoice is one of the texts of its row;
LEMMA InvoiceNames ==
  ASSUME NEW invoice, NEW type \in InvoiceTypes, NEW text \in InvoiceTexts(type, invoice),
         text[1] \in {"name", "lowered"}
  PROVE  \E x \in {invoice.invoice_id, invoice.vendor, invoice.approver, invoice.approver_level} :
           text = <<"name", x>>
<1>1. \/ \E default : text \in {Shown(invoice.invoice_id, default), Shown(invoice.vendor, default),
                                Shown(invoice.approver, default), Shown(invoice.approver_level, default)}
      \/ \E notation \in {"decimal", "tolerance", "price tolerance", "plain", "grouped"} :
           \E value : text = <<notation, value>>
  <2>1. CASE type = "THREE_WAY_MATCH_BYPASS"
    BY <2>1 DEF InvoiceTexts
  <2>2. CASE type = "THREE_WAY_MATCH_VARIANCE"
    BY <2>2 DEF InvoiceTexts
  <2>3. CASE type = "THREE_WAY_QUANTITY_MISMATCH"
    BY <2>3 DEF InvoiceTexts
  <2>4. CASE type = "THREE_WAY_PRICE_VARIANCE"
    BY <2>4 DEF InvoiceTexts
  <2>5. CASE type = "APPROVAL_LIMIT_BREACH"
    BY <2>5 DEF InvoiceTexts
  <2>6. CASE type = "APPROVAL_LEVEL_UNCLEAR"
    BY <2>6 DEF InvoiceTexts
  <2> QED BY <2>1, <2>2, <2>3, <2>4, <2>5, <2>6 DEF InvoiceTypes
<1>2. ASSUME NEW notation \in {"decimal", "tolerance", "price tolerance", "plain", "grouped"}, NEW value,
             text = <<notation, value>>
      PROVE  FALSE
  <2>1. text[1] = notation
    BY <1>2
  <2> QED BY <2>1
<1>3. PICK default : text \in {Shown(invoice.invoice_id, default), Shown(invoice.vendor, default),
                               Shown(invoice.approver, default), Shown(invoice.approver_level, default)}
  BY <1>1, <1>2
<1> QED BY <1>3, ShownName

\* ... in what is said of a run, the name it goes by.
LEMMA RunNames ==
  ASSUME NEW run, NEW type \in RunTypes, NEW text \in RunTexts(type, run), text[1] \in {"name", "lowered"}
  PROVE  text = <<"name", RunName(run)>>
<1>1. \/ text = Shown(RunName(run), "UNKNOWN")
      \/ \E notation \in {"decimal", "plain"} : \E value : text = <<notation, value>>
  <2>1. CASE type = "INTERFACE_FAILURE"
    BY <2>1 DEF RunTexts
  <2>2. CASE type = "INTERFACE_COUNT_MISMATCH"
    BY <2>2 DEF RunTexts
  <2>3. CASE type = "INTERFACE_AMOUNT_MISMATCH"
    BY <2>3 DEF RunTexts
  <2> QED BY <2>1, <2>2, <2>3 DEF RunTypes
<1>2. ASSUME NEW notation \in {"decimal", "plain"}, NEW value, text = <<notation, value>> PROVE FALSE
  <2>1. text[1] = notation
    BY <1>2
  <2> QED BY <2>1
<1> QED BY <1>1, <1>2, ShownName

\* So a name in a description comes from a row the finding is about.
LEMMA DescribedNames ==
  ASSUME NEW invoices, NEW interfaces, NEW h \in RunAllItacTests(invoices, interfaces),
         NEW text \in Description(h, invoices, interfaces), text[1] \in {"name", "lowered"}
  PROVE  \/ \E n \in DOMAIN invoices :
              IsAboutInvoice(h, n, invoices[n]) /\ NamesIn(text) \subseteq NamedByInvoice(invoices[n])
         \/ \E n \in DOMAIN interfaces :
              IsAboutRun(h, n) /\ NamesIn(text) \subseteq NamedByRun(interfaces[n])
<1>1. text # <<"words", h.type>>
  OBVIOUS
<1>2. CASE h.area = "ITAC-INT"
  <2>1. PICK n \in DOMAIN interfaces : h.row = Row(n)
    BY <1>2, ItacPlaces
  <2>2. h.type \in RunTypes
    BY <1>2, ItacPlaces
  <2>3. h.row[2] = n
    BY <2>1 DEF Row
  <2>4. text \in RunTexts(h.type, interfaces[n])
    BY <1>1, <1>2, <2>3 DEF Description
  <2>5. text = <<"name", RunName(interfaces[n])>>
    BY <2>2, <2>4, RunNames
  <2> QED BY <1>2, <2>1, <2>5 DEF IsAboutRun, NamedByRun
<1>3. CASE h.area = "ITAC-AP" /\ h.type \in InvoiceTypes
  <2>1. PICK n \in DOMAIN invoices : h.row = Row(n)
    BY <1>3, ItacPlaces DEF InvoiceTypes
  <2>2. h.row[2] = n
    BY <2>1 DEF Row
  <2>3. text \in InvoiceTexts(h.type, invoices[n])
    BY <1>1, <1>3, <2>2 DEF Description, InvoiceTypes
  <2>4. PICK x \in {invoices[n].invoice_id, invoices[n].vendor, invoices[n].approver, invoices[n].approver_level} :
          text = <<"name", x>>
    BY <1>3, <2>3, InvoiceNames
  <2>5. NamesIn(text) \subseteq NamedByInvoice(invoices[n])
    BY <2>4 DEF NamedByInvoice
  <2> QED BY <1>3, <2>1, <2>5 DEF IsAboutInvoice
<1>4. CASE h.area = "ITAC-AP" /\ h.type = "DUPLICATE_PAYMENT_RISK"
  <2>1. PICK n \in DOMAIN invoices : h.row = <<invoices[n].vendor, invoices[n].invoice_amount>>
    BY <1>4, ItacPlaces DEF InvoiceTypes
  <2>2. text \in DuplicateTexts(h.row) \cup Tally(h, invoices)
    BY <1>1, <1>4 DEF Description
  <2>3. text = <<"lowered", invoices[n].vendor>>
    BY <2>1, <2>2 DEF DuplicateTexts, Tally
  <2>4. NamesIn(text) \subseteq NamedByInvoice(invoices[n])
    BY <2>3 DEF NamedByInvoice
  <2> QED BY <1>4, <2>1, <2>4 DEF IsAboutInvoice
<1> QED BY <1>2, <1>3, <1>4, ItacPlaces

\* The transaction findings are those of their tests.
LEMMA ItacDomain ==
  ASSUME SodMatrixAssumption, NEW parsed, IsParsed(parsed)
  PROVE  {f \in AllFindings(DomainResults(parsed)) : f.area \in Itac}
           = RunAllItacTests(RecordsOfType(parsed, "transactions"), RecordsOfType(parsed, "interfaces"))
<1> DEFINE d == DomainResults(parsed)
<1>1. DOMAIN d = DOMAIN DomainAreas /\ \A k \in DOMAIN DomainAreas : \A f \in d[k] : f.area \in DomainAreas[k]
  BY DomainsRaised DEF Raised
<1>2. d.itac = RunAllItacTests(RecordsOfType(parsed, "transactions"), RecordsOfType(parsed, "interfaces"))
  BY DEF DomainResults
<1>3. "itac" \in DOMAIN DomainAreas /\ DomainAreas["itac"] = Itac
  BY DEF DomainAreas
<1> HIDE DEF d
<1>4. ASSUME NEW f \in AllFindings(d), f.area \in Itac PROVE f \in d.itac
  <2>1. PICK k \in DOMAIN d : f \in d[k]
    BY DEF AllFindings
  <2>2. k \in DOMAIN DomainAreas /\ f.area \in DomainAreas[k]
    BY <1>1, <2>1
  <2>3. k = "itac"
    BY <1>4, <2>2 DEF DomainAreas, Itac
  <2> QED BY <2>1, <2>3
<1>5. ASSUME NEW f \in d.itac PROVE f \in AllFindings(d) /\ f.area \in Itac
  BY <1>1, <1>3 DEF AllFindings
<1> HIDE DEF Itac
<1> QED BY <1>2, <1>4, <1>5 DEF d

\* What the linking changes is a finding about access it raises to CRITICAL, for
\* a user that a description contains: of a row that names it, or by accident.
LEMMA Escalated ==
  ASSUME SodMatrixAssumption, NEW parsed, IsParsed(parsed)
  PROVE  EscalationIsTraceable(parsed, RunAuditEngine(parsed))
<1> DEFINE all == AllFindings(DomainResults(parsed))
           invoices == RecordsOfType(parsed, "transactions")
           interfaces == RecordsOfType(parsed, "interfaces")
           told == Described(all, invoices, interfaces)
           linked == Corroborated(all, told)
           Traced(user) == \E g \in linked :
             \/ \E n \in DOMAIN invoices : IsAboutInvoice(g, n, invoices[n]) /\ user \in NamedByInvoice(invoices[n])
             \/ \E n \in DOMAIN interfaces : IsAboutRun(g, n) /\ user \in NamedByRun(interfaces[n])
             \/ NamedByAccident(g, user, invoices, interfaces)
<1>1. RunAuditEngine(parsed).all_findings = linked
  BY DEF RunAuditEngine
<1>2. {f \in all : f.area \in Itac} = RunAllItacTests(invoices, interfaces)
  BY ItacDomain
<1>3. \A f \in all : IsFinding(f)
  BY AllRaised DEF Raised
<1>4. told = {Description(f, invoices, interfaces) : f \in {f \in all : f.area \in {"ITAC-AP", "ITAC-INT"}}}
  BY DEF Described
<1>5. linked = {[f EXCEPT !.risk_level =
                   IF \E texts \in told : Corroborates(texts, f) THEN "CRITICAL" ELSE @] : f \in all}
  BY DEF Corroborated
<1> HIDE DEF all, invoices, interfaces, told, linked
<1>6. ASSUME NEW f \in all, ~\E texts \in told : Corroborates(texts, f)
      PROVE  f \in linked
  <2>1. [f EXCEPT !.risk_level = f.risk_level] \in linked
    BY <1>5, <1>6
  <2>2. f = Finding(f.area, f.row, f.subject, f.type, f.risk_level)
    BY <1>3 DEF IsFinding
  <2>3. [f EXCEPT !.risk_level = f.risk_level] = f
    BY <2>2 DEF Finding
  <2> QED BY <2>1, <2>3
<1>7. ASSUME NEW f \in linked \ all
      PROVE  f.risk_level = "CRITICAL" /\ f.area \in {"ITGC-SOD", "ITGC-LA"} /\ Traced(ReportedUser(f))
  <2>1. PICK g \in all :
          f = [g EXCEPT !.risk_level = IF \E texts \in told : Corroborates(texts, g) THEN "CRITICAL" ELSE @]
    BY <1>5, <1>7
  <2>2. g = Finding(g.area, g.row, g.subject, g.type, g.risk_level)
    BY <1>3 DEF IsFinding
  <2>3. \E texts \in told : Corroborates(texts, g)
    <3> SUFFICES ASSUME ~\E texts \in told : Corroborates(texts, g) PROVE FALSE
      OBVIOUS
    <3>1. f = [g EXCEPT !.risk_level = g.risk_level]
      BY <2>1
    <3>2. f = g
      BY <2>2, <3>1 DEF Finding
    <3> QED BY <1>7, <3>2
  <2>4. PICK texts \in told : Corroborates(texts, g)
    BY <2>3
  <2>5. f = [g EXCEPT !.risk_level = "CRITICAL"]
    BY <2>1, <2>3
  <2>6. f.risk_level = "CRITICAL" /\ f.area = g.area /\ f.subject = g.subject
    BY <2>2, <2>5 DEF Finding
  <2> DEFINE user == ReportedUser(f)
  <2>7. g.area \in {"ITGC-SOD", "ITGC-LA"} /\ \E text \in texts : user \in NamesIn(text)
    BY <2>4, <2>6 DEF Corroborates, ReportedUser
  <2> HIDE DEF user
  <2>8. PICK text \in texts : user \in NamesIn(text)
    BY <2>7
  <2>9. PICK h \in all : h.area \in {"ITAC-AP", "ITAC-INT"} /\ texts = Description(h, invoices, interfaces)
    BY <1>4, <2>4
  <2>10. h \in RunAllItacTests(invoices, interfaces)
    BY <1>2, <2>9 DEF Itac
  <2>11. h \in linked
    <3>1. ~\E others \in told : Corroborates(others, h)
      BY <2>9 DEF Corroborates
    <3> QED BY <1>6, <3>1
  <2>12. Traced(user)
    <3>1. CASE text[1] \notin {"name", "lowered"}
      <4>1. NamedByAccident(h, user, invoices, interfaces)
        BY <2>8, <2>9, <3>1 DEF NamedByAccident
      <4> QED BY <2>11, <4>1
    <3>2. CASE text[1] \in {"name", "lowered"}
      <4>1. text \in Description(h, invoices, interfaces)
        BY <2>8, <2>9
      <4>2. \/ \E n \in DOMAIN invoices :
                 IsAboutInvoice(h, n, invoices[n]) /\ NamesIn(text) \subseteq NamedByInvoice(invoices[n])
            \/ \E n \in DOMAIN interfaces :
                 IsAboutRun(h, n) /\ NamesIn(text) \subseteq NamedByRun(interfaces[n])
        BY <2>10, <3>2, <4>1, DescribedNames
      <4> QED BY <2>8, <2>11, <4>2
    <3> QED BY <3>1, <3>2
  <2> QED BY <2>6, <2>7, <2>12 DEF user
<1> HIDE DEF Traced
<1>8. \A f \in RunAuditEngine(parsed).all_findings \ all :
        f.risk_level = "CRITICAL" /\ f.area \in {"ITGC-SOD", "ITGC-LA"} /\ Traced(ReportedUser(f))
  BY <1>1, <1>7
<1> QED BY <1>1, <1>8 DEF EscalationIsTraceable, Traced, all, invoices, interfaces

\* A nudge is about a user with a termination date later than the posting.
LEMMA Nudged ==
  ASSUME NEW parsed, IsParsed(parsed)
  PROVE  NudgesAreJustified(parsed, RunAuditEngine(parsed))
<1> DEFINE users == RecordsOfType(parsed, "users")
           invoices == RecordsOfType(parsed, "transactions")
           dated == {k \in DOMAIN users : users[k].user_id # "" /\ FromIso(users[k].termination_date)}
           IsLast(user, k) == /\ users[k].user_id = user
                              /\ \A j \in dated : users[j].user_id = user => j <= k
           LastOf(user) == CHOOSE k \in dated : IsLast(user, k)
           terms == TermDates(users)
           nudges == RunAuditEngine(parsed).swarm_nudges
<1>1. Len(users) \in Nat /\ DOMAIN users = 1..Len(users)
  BY RowsOfSheets, ListProperties
<1>2. \A n \in nudges : /\ n \in DOMAIN invoices /\ invoices[n].posted_by \in DOMAIN terms
                        /\ invoices[n].invoice_date.age < terms[invoices[n].posted_by]
  BY DEF RunAuditEngine, SwarmNudges
<1>3. terms = [user \in {users[k].user_id : k \in dated} |-> users[LastOf(user)].termination_date.age]
  BY Zenon DEF TermDates
<1> HIDE DEF users, invoices, terms, nudges
<1>4. ASSUME NEW n \in nudges
      PROVE  \E u \in DOMAIN users : /\ users[u].user_id = invoices[n].posted_by /\ users[u].user_id # ""
                                     /\ users[u].termination_date.age > invoices[n].invoice_date.age
  <2> DEFINE user == invoices[n].posted_by
             own == {k \in dated : users[k].user_id = user}
  <2>1. user \in {users[k].user_id : k \in dated} /\ terms[user] = users[LastOf(user)].termination_date.age
    BY <1>2, <1>3
  <2>2. own \in SUBSET (0..Len(users)) /\ own # {}
    <3>1. dated \subseteq DOMAIN users
      OBVIOUS
    <3> HIDE DEF dated
    <3>2. own \subseteq dated
      OBVIOUS
    <3>3. own # {}
      <4>1. PICK k \in dated : users[k].user_id = user
        BY <2>1
      <4>2. k \in own
        BY <4>1
      <4> HIDE DEF own
      <4> QED BY <4>2
    <3> HIDE DEF own
    <3> QED BY <1>1, <3>1, <3>2, <3>3
  <2>3. PICK k \in own : \A j \in own : j <= k
    BY <1>1, <2>2, GreatestNat
  <2>4. LastOf(user) \in dated /\ IsLast(user, LastOf(user))
    <3>1. \E m \in dated : IsLast(user, m)
      BY <2>3
    <3> HIDE DEF IsLast, user, dated
    <3> QED BY Zenon, <3>1
  <2>5. invoices[n].invoice_date.age < users[LastOf(user)].termination_date.age
    BY <1>2, <2>1
  <2> DEFINE u == LastOf(user)
  <2>6. u \in DOMAIN users /\ users[u].user_id = user /\ users[u].user_id # ""
    BY <2>4
  <2> HIDE DEF u
  <2>7. users[u].termination_date.age > invoices[n].invoice_date.age
    BY <2>5 DEF u
  <2> QED BY <2>6, <2>7
<1> QED BY <1>4 DEF NudgesAreJustified, users, invoices, nudges

\* Whatever file is analysed, every user that is linked to transactions, by
\* substring or by dates, is accused by rows of the file, except for ids that
\* occur in the numbers or the words of a description.
THEOREM EngineAccusationsJustified == Spec => []AccusationsAreJustified
<1>1. EngineIInv => AccusationsAreJustified
  <2> SUFFICES ASSUME EngineIInv, Analysed
               PROVE  /\ EscalationIsTraceable(ParseFile(response.file), response.result)
                      /\ NudgesAreJustified(ParseFile(response.file), response.result)
    BY DEF AccusationsAreJustified
  <2>1. response.status = 102
    BY DEF Analysed, EngineIInv, Transacting
  <2>2. PICK file \in Uploads : response = Answer(102, file)
    BY <2>1 DEF EngineIInv, Answers
  <2>3. response.file = file /\ response.result = RunAuditEngine(ParseFile(file))
    BY <2>2 DEF Answer
  <2>4. IsParsed(ParseFile(file))
    BY ParsedLists, UploadsAssumption
  <2> QED BY <2>3, <2>4, Escalated, Nudged, SodMatrixAssumption
<1> QED BY EngineInvariant, <1>1, PTL

-----------------------------------------------------------------------------
\* The roles of the user rows of a file are those of the matrix.
LEMMA UserRowRoles ==
  ASSUME UploadsAssumption, NEW file \in Uploads, NEW row \in SheetRows(ParseFile(file), "users")
  PROVE  row.roles \subseteq Roles
<1>1. PICK s \in DOMAIN file : /\ ParseSheet(file[s]).data_type = "users"
                               /\ \E r \in DOMAIN ParseSheet(file[s]).records : row = ParseSheet(file[s]).records[r]
  BY ParsedLists DEF SheetRows
<1>2. /\ DetectDataType(file[s].columns) = "users"
      /\ ParseSheet(file[s]).records = [k \in DOMAIN file[s].rows |-> NormalizeValues(file[s].rows[k])]
  BY <1>1 DEF ParseSheet
<1>3. PICK r \in DOMAIN file[s].rows : row = NormalizeValues(file[s].rows[r])
  BY <1>1, <1>2
<1>4. "roles" \in DOMAIN file[s].rows[r] /\ file[s].rows[r].roles \subseteq Roles
  BY <1>2 DEF UploadsAssumption, IsSheet
<1>5. row.roles = file[s].rows[r].roles
  BY <1>3, <1>4 DEF NormalizeValues
<1> QED BY <1>4, <1>5

\* Two different members make a pair.
LEMMA TwoMembers == ASSUME NEW a, NEW b, a # b PROVE Cardinality({a, b}) = 2
<1>1. IsFiniteSet({a}) /\ IsFiniteSet({b}) /\ Cardinality({a}) = 1 /\ Cardinality({b}) = 1
  BY FS_Singleton
<1>2. {a} \cap {b} = {} /\ {a} \cup {b} = {a, b}
  OBVIOUS
<1>3. Cardinality({a} \cup {b}) = 1 + 1 - 0
  BY <1>1, <1>2, FS_Union, FS_EmptySet
<1> QED BY <1>2, <1>3

\* Rows of the user that give it the role, in a list of rows.
HasRole(users, user, role) == \E k \in DOMAIN users : users[k].user_id = user /\ role \in users[k].roles

\* The table of roles of a user has the roles of all of its rows.
LEMMA TableOfRoles ==
  ASSUME NEW users, NEW user, user # ""
  PROVE  /\ user \in DOMAIN UserRoles(users) <=> \E role : HasRole(users, user, role)
         /\ user \in DOMAIN UserRoles(users) =>
              \A role : role \in UserRoles(users)[user] <=> HasRole(users, user, role)
<1> DEFINE Has(role) == \E k \in DOMAIN users : users[k].user_id = user /\ role \in users[k].roles
           named == {k \in DOMAIN users : users[k].user_id # "" /\ users[k].roles # {}}
           ids == {users[k].user_id : k \in named}
<1>1. UserRoles(users) = [u \in ids |-> UNION {users[k].roles : k \in {j \in named : users[j].user_id = u}}]
  BY Zenon DEF UserRoles
<1>2. user \in ids <=> \E role : Has(role)
  OBVIOUS
<1>3. ASSUME NEW role
      PROVE  (\E k \in named : users[k].user_id = user /\ role \in users[k].roles) <=> Has(role)
  OBVIOUS
<1> HIDE DEF Has
<1>4. ASSUME user \in ids, NEW role PROVE role \in UserRoles(users)[user] <=> Has(role)
  <2>1. UserRoles(users)[user] = UNION {users[k].roles : k \in {j \in named : users[j].user_id = user}}
    BY <1>1, <1>4
  <2> HIDE DEF named, ids
  <2> QED BY <1>3, <2>1
<1>5. DOMAIN UserRoles(users) = ids
  BY <1>1
<1> QED BY <1>2, <1>4, <1>5 DEF Has, HasRole

\* Two different roles of the user that cover a rule of the type.
CoversRule(users, user, type) ==
  \E rule \in SodMatrix : \E ka, kb \in rule.duties : \E a, b :
    /\ rule.type = type /\ a # b /\ ka # kb
    /\ HasRole(users, user, a) /\ ka \in DutiesOf[a] /\ HasRole(users, user, b) /\ kb \in DutiesOf[b]

\* The user is among those reported for the type by an area.
Accuses(S, area, user, type) == \E f \in S : f.area = area /\ f.subject = user /\ f.type = type

\* A conflict is found for a user and a type exactly when two different roles
\* of its rows cover a rule of the type.
LEMMA ConflictFound ==
  ASSUME NEW users, NEW user, user # "", NEW type
  PROVE  (\E f \in DetectSodConflicts(UserRoles(users)) : f.subject = user /\ f.type = type)
         <=> CoversRule(users, user, type)
<1> DEFINE Has(role) == HasRole(users, user, role)
           table == UserRoles(users)
           Found == \E f \in DetectSodConflicts(table) : f.subject = user /\ f.type = type
           Covered == \E rule \in SodMatrix : \E ka, kb \in rule.duties : \E a, b :
                  /\ rule.type = type /\ a # b /\ ka # kb
                  /\ Has(a) /\ ka \in DutiesOf[a] /\ Has(b) /\ kb \in DutiesOf[b]
           Tabled == /\ user \in DOMAIN table
                     /\ \E rule \in SodMatrix : rule.type = type /\ \E pair \in Pairs(table[user]) : Toxic(pair, rule)
<1> HIDE DEF table
<1>1. Found <=> Tabled
  <2>1. ASSUME Found PROVE /\ user \in DOMAIN table
                           /\ \E rule \in SodMatrix : rule.type = type
                                                      /\ \E pair \in Pairs(table[user]) : Toxic(pair, rule)
    <3>1. PICK u \in DOMAIN table, rule \in SodMatrix :
            /\ \E pair \in Pairs(table[u]) : Toxic(pair, rule)
            /\ Finding("ITGC-SOD", <<"user", u>>, u, rule.type, rule.risk).subject = user
            /\ Finding("ITGC-SOD", <<"user", u>>, u, rule.type, rule.risk).type = type
      BY <2>1 DEF DetectSodConflicts
    <3>2. u = user /\ rule.type = type
      BY <3>1 DEF Finding
    <3> QED BY <3>1, <3>2
  <2>2. ASSUME user \in DOMAIN table, NEW rule \in SodMatrix, rule.type = type,
               NEW pair \in Pairs(table[user]), Toxic(pair, rule)
        PROVE  Found
    <3> DEFINE f == Finding("ITGC-SOD", <<"user", user>>, user, rule.type, rule.risk)
    <3>1. f \in DetectSodConflicts(table)
      <4>1. rule \in {r \in SodMatrix : \E p \in Pairs(table[user]) : Toxic(p, r)}
        BY <2>2
      <4> DEFINE Of(u) == {r \in SodMatrix : \E p \in Pairs(table[u]) : Toxic(p, r)}
                 S(u) == {Finding("ITGC-SOD", <<"user", u>>, u, r.type, r.risk) : r \in Of(u)}
      <4>2. DetectSodConflicts(table) = UNION {S(u) : u \in DOMAIN table}
        BY DEF DetectSodConflicts
      <4>3. f \in S(user)
        <5>1. rule \in Of(user)
          BY <4>1
        <5> HIDE DEF Of
        <5> QED BY <5>1
      <4> HIDE DEF S, f
      <4> QED BY <2>2, <4>2, <4>3
    <3>2. f.subject = user /\ f.type = type
      BY <2>2 DEF Finding
    <3> QED BY <3>1, <3>2
  <2>3. ASSUME user \in DOMAIN table,
               \E rule \in SodMatrix : rule.type = type /\ \E pair \in Pairs(table[user]) : Toxic(pair, rule)
        PROVE  Found
    <3>1. PICK rule \in SodMatrix : rule.type = type /\ \E pair \in Pairs(table[user]) : Toxic(pair, rule)
      BY <2>3
    <3>2. PICK pair \in Pairs(table[user]) : Toxic(pair, rule)
      BY <3>1
    <3> HIDE DEF Found
    <3> QED BY <2>2, <2>3, <3>1, <3>2
  <2>4. Found => Tabled
    BY <2>1
  <2>5. Tabled => Found
    BY <2>3
  <2> HIDE DEF Found, Tabled
  <2> QED BY <2>4, <2>5
<1>2. /\ user \in DOMAIN table <=> \E role : Has(role)
      /\ user \in DOMAIN table => \A role : role \in table[user] <=> Has(role)
  BY TableOfRoles DEF table
<1> HIDE DEF Found, Has
<1>3. ASSUME Found PROVE Covered
  <2>1. PICK rule \in SodMatrix, pair \in Pairs(table[user]) : rule.type = type /\ Toxic(pair, rule)
    BY <1>1, <1>3
  <2>2. PICK a \in pair, b \in pair, ka \in rule.duties, kb \in rule.duties :
          a # b /\ ka # kb /\ ka \in DutiesOf[a] /\ kb \in DutiesOf[b]
    BY <2>1 DEF Toxic, RoleMatchesKeyword
  <2>3. a \in table[user] /\ b \in table[user]
    BY DEF Pairs
  <2>4. Has(a) /\ Has(b)
    BY <1>1, <1>2, <1>3, <2>3
  <2> QED BY <2>1, <2>2, <2>4
<1>4. ASSUME Covered PROVE Found
  <2>0. PICK rule \in SodMatrix : \E ka, kb \in rule.duties : \E a, b :
          /\ rule.type = type /\ a # b /\ ka # kb
          /\ Has(a) /\ ka \in DutiesOf[a] /\ Has(b) /\ kb \in DutiesOf[b]
    BY <1>4
  <2>1. PICK ka, kb, a, b :
          /\ ka \in rule.duties /\ kb \in rule.duties
          /\ rule.type = type /\ a # b /\ ka # kb
          /\ Has(a) /\ ka \in DutiesOf[a] /\ Has(b) /\ kb \in DutiesOf[b]
    BY <2>0
  <2>2. user \in DOMAIN table /\ a \in table[user] /\ b \in table[user]
    BY <1>2, <2>1
  <2>3. {a, b} \in Pairs(table[user])
    BY <2>1, <2>2, TwoMembers DEF Pairs
  <2>4. Toxic({a, b}, rule)
    BY <2>1 DEF Toxic, RoleMatchesKeyword
  <2> QED BY <1>1, <2>1, <2>2, <2>3, <2>4
<1>5. Covered <=> CoversRule(users, user, type)
  BY DEF CoversRule, Has
<1> HIDE DEF Covered
<1> QED BY <1>3, <1>4, <1>5 DEF Found, table

\* Linking findings changes neither who is reported nor for what.
LEMMA CorroboratedSame ==
  ASSUME NEW S, \A f \in S : IsFinding(f), NEW descriptions, NEW area, NEW user, NEW type
  PROVE  Accuses(Corroborated(S, descriptions), area, user, type) <=> Accuses(S, area, user, type)
<1> DEFINE F(f) == [f EXCEPT !.risk_level =
                      IF \E texts \in descriptions : Corroborates(texts, f) THEN "CRITICAL" ELSE @]
<1>1. Corroborated(S, descriptions) = {F(f) : f \in S}
  BY DEF Corroborated
<1>2. ASSUME NEW f \in S PROVE F(f).area = f.area /\ F(f).subject = f.subject /\ F(f).type = f.type
  BY DEF IsFinding, Finding
<1> HIDE DEF F
<1> QED BY <1>1, <1>2 DEF Accuses

\* The findings of an area are those of its engine.
LEMMA SodDomain ==
  ASSUME SodMatrixAssumption, NEW parsed, IsParsed(parsed), NEW f, f.area = "ITGC-SOD"
  PROVE  f \in AllFindings(DomainResults(parsed)) <=> f \in DomainResults(parsed).sod
<1>1. DOMAIN DomainAreas = DOMAIN DomainResults(parsed) /\ "sod" \in DOMAIN DomainAreas
  BY DomainsRaised DEF DomainAreas
<1>2. ASSUME f \in AllFindings(DomainResults(parsed)) PROVE f \in DomainResults(parsed).sod
  <2>1. PICK k \in DOMAIN DomainResults(parsed) : f \in DomainResults(parsed)[k]
    BY <1>2 DEF AllFindings
  <2>2. k \in DOMAIN DomainAreas /\ f.area \in DomainAreas[k]
    BY <2>1, DomainsRaised DEF Raised
  <2>3. k = "sod"
    BY <2>2 DEF DomainAreas
  <2> QED BY <2>1, <2>3
<1>3. f \in DomainResults(parsed).sod => f \in AllFindings(DomainResults(parsed))
  BY <1>1 DEF AllFindings
<1> QED BY <1>2, <1>3

\* Conflicts are not looked for when the HR rows miss a user.
LEMMA BlockedByHr ==
  ASSUME NEW parsed, IsParsed(parsed)
  PROVE  SodBlocked(RecordsOfType(parsed, "users"), RecordsOfType(parsed, "hr_master"))
         <=> SomeoneMissing(SheetRows(parsed, "users"), SheetRows(parsed, "hr_master"))
<1> DEFINE users == RecordsOfType(parsed, "users")
           hr == RecordsOfType(parsed, "hr_master")
           R == SheetRows(parsed, "users")
           H == SheetRows(parsed, "hr_master")
<1>1. R = {users[k] : k \in DOMAIN users} /\ H = {hr[k] : k \in DOMAIN hr}
  BY RowsOfSheets
<1>2. hr # <<>> <=> DOMAIN hr # {}
  <2>1. IsList(hr)
    BY RowsOfSheets
  <2>2. Len(hr) \in Nat /\ DOMAIN hr = 1..Len(hr) /\ hr \in Seq({hr[k] : k \in DOMAIN hr})
    BY <2>1, ListProperties
  <2> HIDE DEF hr
  <2>3. hr = <<>> => DOMAIN hr = {}
    OBVIOUS
  <2>4. hr # <<>> => Len(hr) \in Nat \ {0}
    BY <2>2, EmptySeq
  <2>5. hr # <<>> => 1 \in DOMAIN hr
    BY <2>2, <2>4
  <2> QED BY <2>3, <2>5
<1> HIDE DEF users, hr, R, H
<1>3. IntegrityIssues(users, hr) # {}
        <=> \E row \in R : row.user_id # "" /\ \A h \in H : row.user_id # h.user_id
  <2>1. {users[k].user_id : k \in DOMAIN users} = {row.user_id : row \in R}
        /\ {hr[k].user_id : k \in DOMAIN hr} = {h.user_id : h \in H}
    BY <1>1
  <2>2. IntegrityIssues(users, hr)
          = {u \in {row.user_id : row \in R} \ {""} : u \notin {h.user_id : h \in H}}
    BY <2>1 DEF IntegrityIssues
  <2>3. ASSUME IntegrityIssues(users, hr) # {}
        PROVE  \E row \in R : row.user_id # "" /\ \A h \in H : row.user_id # h.user_id
    <3>1. PICK row \in R : row.user_id # "" /\ row.user_id \notin {h.user_id : h \in H}
      BY <2>2, <2>3
    <3> QED BY <3>1
  <2>4. ASSUME NEW row \in R, row.user_id # "", \A h \in H : row.user_id # h.user_id
        PROVE  row.user_id \in IntegrityIssues(users, hr)
    BY <2>2, <2>4
  <2> QED BY <2>3, <2>4
<1>4. H # {} <=> DOMAIN hr # {}
  BY <1>1
<1> QED BY <1>2, <1>3, <1>4 DEF SodBlocked, SomeoneMissing, users, hr, R, H

\* The conflicts of a file are those of its rows.
LEMMA ConflictsFound ==
  ASSUME SodMatrixAssumption, UploadsAssumption, NEW file \in Uploads
  PROVE  LET parsed == ParseFile(file)
         IN ConflictsOf(SheetRows(parsed, "users"),
                        SomeoneMissing(SheetRows(parsed, "users"), SheetRows(parsed, "hr_master")),
                        RunAuditEngine(parsed))
<1> DEFINE parsed == ParseFile(file)
           result == RunAuditEngine(parsed)
           users == RecordsOfType(parsed, "users")
           R == SheetRows(parsed, "users")
           blocked == SomeoneMissing(R, SheetRows(parsed, "hr_master"))
<1>1. IsParsed(parsed)
  BY ParsedLists
<1>2. R = {users[k] : k \in DOMAIN users}
  BY <1>1, RowsOfSheets
<1>3. \A row \in R : row.roles \subseteq Roles
  BY UserRowRoles
<1> SUFFICES ASSUME NEW user \in {row.user_id : row \in R} \ {""},
                    NEW type \in {rule.type : rule \in SodMatrix}
             PROVE  (\E f \in result.all_findings : f.area = "ITGC-SOD" /\ f.subject = user /\ f.type = type)
                    <=> /\ ~blocked
                        /\ \E rule \in SodMatrix, a, b \in Roles : \E ka, kb \in rule.duties :
                             /\ rule.type = type /\ a # b /\ ka # kb
                             /\ Holds(R, user, ka, a) /\ Holds(R, user, kb, b)
  BY DEF ConflictsOf
<1> DEFINE Accused == Accuses(result.all_findings, "ITGC-SOD", user, type)
           sod == DomainResults(parsed).sod
           Has(role) == HasRole(users, user, role)
           Covered == CoversRule(users, user, type)
<1>4. Accused <=> \E f \in sod : f.subject = user /\ f.type = type
  <2> DEFINE all == AllFindings(DomainResults(parsed))
             told == Described(all, RecordsOfType(parsed, "transactions"), RecordsOfType(parsed, "interfaces"))
  <2>1. result.all_findings = Corroborated(all, told)
    BY DEF RunAuditEngine
  <2>2. \A f \in all : IsFinding(f)
    BY <1>1, AllRaised DEF Raised
  <2>3. Accused <=> Accuses(all, "ITGC-SOD", user, type)
    <3>1. Accuses(Corroborated(all, told), "ITGC-SOD", user, type) <=> Accuses(all, "ITGC-SOD", user, type)
      <4> HIDE DEF all, told, result
      <4> QED BY <2>2, CorroboratedSame
    <3> HIDE DEF all, told, result
    <3> QED BY <2>1, <3>1
  <2>4. \A f \in sod : f.area = "ITGC-SOD"
    BY <1>1, DomainsRaised DEF DomainAreas, Raised
  <2>5. \A f : f.area = "ITGC-SOD" => (f \in all <=> f \in sod)
    BY <1>1, SodDomain
  <2> HIDE DEF all, sod, Accused
  <2> QED BY <2>3, <2>4, <2>5 DEF Accuses
<1>5. sod = IF blocked THEN {} ELSE DetectSodConflicts(UserRoles(users))
  <2>1. sod = IF SodBlocked(users, RecordsOfType(parsed, "hr_master")) THEN {}
              ELSE DetectSodConflicts(UserRoles(users))
    BY DEF DomainResults
  <2>2. SodBlocked(users, RecordsOfType(parsed, "hr_master")) <=> blocked
    BY <1>1, BlockedByHr
  <2> QED BY <2>1, <2>2
<1>6. (\E f \in DetectSodConflicts(UserRoles(users)) : f.subject = user /\ f.type = type) <=> Covered
  <2>1. user # ""
    OBVIOUS
  <2> HIDE DEF users
  <2> QED BY <2>1, ConflictFound
<1>7. \A role : Has(role) => role \in Roles
  BY <1>2, <1>3 DEF HasRole
<1>8. \A duty, role : Holds(R, user, duty, role) <=> Has(role) /\ duty \in DutiesOf[role]
  <2> HIDE DEF users, R, blocked, sod, Accused, Covered
  <2> QED BY <1>2 DEF Holds, HasRole
<1> HIDE DEF Accused, sod, Has, blocked, parsed, users, R
<1> HIDE DEF Covered
<1>9. Covered <=> \E rule \in SodMatrix, a, b \in Roles : \E ka, kb \in rule.duties :
                    /\ rule.type = type /\ a # b /\ ka # kb
                    /\ Holds(R, user, ka, a) /\ Holds(R, user, kb, b)
  <2>1. ASSUME Covered
        PROVE  \E rule \in SodMatrix, a, b \in Roles : \E ka, kb \in rule.duties :
                    /\ rule.type = type /\ a # b /\ ka # kb
                    /\ Holds(R, user, ka, a) /\ Holds(R, user, kb, b)
    <3>1. PICK rule \in SodMatrix : \E ka, kb \in rule.duties : \E a, b :
            /\ rule.type = type /\ a # b /\ ka # kb
            /\ Has(a) /\ ka \in DutiesOf[a] /\ Has(b) /\ kb \in DutiesOf[b]
      BY <2>1 DEF Covered, CoversRule, Has
    <3>2. PICK ka, kb, a, b :
            /\ ka \in rule.duties /\ kb \in rule.duties
            /\ rule.type = type /\ a # b /\ ka # kb
            /\ Has(a) /\ ka \in DutiesOf[a] /\ Has(b) /\ kb \in DutiesOf[b]
      BY <3>1
    <3>3. a \in Roles /\ b \in Roles /\ Holds(R, user, ka, a) /\ Holds(R, user, kb, b)
      BY <1>7, <1>8, <3>2
    <3> QED BY <3>2, <3>3
  <2>2. ASSUME NEW rule \in SodMatrix, NEW a \in Roles, NEW b \in Roles,
               NEW ka \in rule.duties, NEW kb \in rule.duties,
               rule.type = type, a # b, ka # kb, Holds(R, user, ka, a), Holds(R, user, kb, b)
        PROVE  Covered
    <3>1. Has(a) /\ ka \in DutiesOf[a] /\ Has(b) /\ kb \in DutiesOf[b]
      BY <1>8, <2>2
    <3> QED BY <2>2, <3>1 DEF Covered, CoversRule, Has
  <2> QED BY <2>1, <2>2
<1>10. Accused <=> ~blocked /\ Covered
  BY <1>4, <1>5, <1>6
<1> QED BY <1>9, <1>10 DEF Accused, Accuses

\* For any matrix of rules and any file: a user is reported for a type of
\* conflict exactly when its rows give it two different roles that cover a rule
\* of the type, unless the HR rows leave out some user.
THEOREM EngineConflictsMatchRows == Spec => []ConflictsMatchRows
<1>1. EngineIInv => ConflictsMatchRows
  <2> SUFFICES ASSUME EngineIInv, Analysed PROVE ConflictsMatchRows
    BY DEF ConflictsMatchRows
  <2>1. response.status = 102
    BY DEF Analysed, EngineIInv, Transacting
  <2>2. PICK file \in Uploads : response = Answer(102, file)
    BY <2>1 DEF EngineIInv, Answers
  <2>3. response.file = file /\ response.result = RunAuditEngine(ParseFile(file))
    BY <2>2 DEF Answer
  <2> QED BY <2>3, ConflictsFound, SodMatrixAssumption, UploadsAssumption DEF ConflictsMatchRows
<1> QED BY EngineInvariant, <1>1, PTL
-----------------------------------------------------------------------------
\* Two lists are a list.
LEMMA ConcatLists ==
  ASSUME NEW a, IsList(a), NEW b, IsList(b)
  PROVE  /\ IsList(a \o b) /\ Len(a \o b) = Len(a) + Len(b)
         /\ DOMAIN (a \o b) = 1..(Len(a) + Len(b))
         /\ \A k \in 1..(Len(a) + Len(b)) : (a \o b)[k] = IF k <= Len(a) THEN a[k] ELSE b[k - Len(a)]
<1> DEFINE S == {a[k] : k \in DOMAIN a} \cup {b[k] : k \in DOMAIN b}
<1>1. a \in Seq(S) /\ b \in Seq(S)
  <2>1. a \in Seq({a[k] : k \in DOMAIN a}) /\ b \in Seq({b[k] : k \in DOMAIN b})
    BY DEF IsList
  <2> QED BY <2>1, SeqMonotonic
<1> HIDE DEF S
<1>2. /\ a \o b \in Seq(S) /\ Len(a \o b) = Len(a) + Len(b)
      /\ \A k \in 1..(Len(a) + Len(b)) : (a \o b)[k] = IF k <= Len(a) THEN a[k] ELSE b[k - Len(a)]
  BY <1>1, ConcatProperties
<1>3. Len(a \o b) \in Nat /\ DOMAIN (a \o b) = 1..Len(a \o b) /\ a \o b \in [1..Len(a \o b) -> S]
  BY <1>2, LenProperties
<1>4. a \o b = [k \in 1..Len(a \o b) |-> (a \o b)[k]]
  BY <1>3
<1>5. IsList(a \o b)
  BY <1>3, <1>4, Listed
<1> QED BY <1>2, <1>3, <1>5

\* The order of putting lists together does not matter.
LEMMA ConcatListsAssociative ==
  ASSUME NEW a, IsList(a), NEW b, IsList(b), NEW c, IsList(c)
  PROVE  (a \o b) \o c = a \o (b \o c)
<1> DEFINE A == {a[k] : k \in DOMAIN a}
           B == {b[k] : k \in DOMAIN b}
           C == {c[k] : k \in DOMAIN c}
           S == A \cup B \cup C
<1>1. a \in Seq(A) /\ b \in Seq(B) /\ c \in Seq(C)
  BY DEF IsList
<1>2. A \subseteq S /\ B \subseteq S /\ C \subseteq S
  OBVIOUS
<1> HIDE DEF A, B, C, S
<1>3. a \in Seq(S) /\ b \in Seq(S) /\ c \in Seq(S)
  BY <1>1, <1>2, SeqMonotonic
<1> QED BY <1>3, ConcatAssociative

\* The empty list.
LEMMA EmptyList == IsList(<<>>) /\ \A list : IsList(list) => list \o <<>> = list /\ <<>> \o list = list
<1>1. IsList(<<>>)
  <2>1. <<>> \in Seq({<<>>[k] : k \in DOMAIN <<>>})
    BY EmptySeq
  <2> QED BY <2>1 DEF IsList
<1>2. ASSUME NEW list, IsList(list) PROVE list \o <<>> = list /\ <<>> \o list = list
  BY <1>2, ConcatEmptySeq DEF IsList
<1> QED BY <1>1, <1>2

\* Rows gathered from lists are lists.
LEMMA GatheredLists ==
  ASSUME NEW parsed, IsParsed(parsed), NEW type, NEW g, GatheredBy(parsed, type, g)
  PROVE  \A n \in 0..Len(parsed) : IsList(g[n])
<1> DEFINE T == {n \in Nat : n <= Len(parsed) => IsList(g[n])}
<1>1. Len(parsed) \in Nat /\ DOMAIN parsed = 1..Len(parsed)
  BY ListProperties DEF IsParsed
<1>2. 0 \in T
  BY EmptyList DEF GatheredBy
<1>3. ASSUME NEW n \in T, n < Len(parsed) PROVE n + 1 \in T
  <2>1. n \in Nat /\ n + 1 \in 1..Len(parsed) /\ (n + 1) - 1 = n /\ IsList(g[n])
    BY <1>1, <1>3
  <2>2. g[n + 1] = g[n] \o Added(parsed, type, n + 1)
    BY <2>1 DEF GatheredBy
  <2>3. IsList(Added(parsed, type, n + 1))
    BY <1>1, <2>1, EmptyList DEF Added, IsParsed
  <2>4. IsList(g[n + 1])
    BY <2>1, <2>2, <2>3, ConcatLists
  <2> QED BY <2>1, <2>4
<1> HIDE DEF T
<1>4. 0..Len(parsed) \subseteq T
  <2>1. T \in SUBSET Nat
    BY DEF T
  <2> QED BY <1>1, <1>2, <1>3, <2>1, InductiveTo
<1> QED BY <1>1, <1>4 DEF T

\* Files that begin alike gather alike.
LEMMA GatheredAlike ==
  ASSUME NEW parsed, NEW other, NEW type, NEW g, NEW h,
         GatheredBy(parsed, type, g), GatheredBy(other, type, h),
         Len(parsed) \in Nat, Len(other) \in Nat,
         NEW m \in Nat, m <= Len(parsed), m <= Len(other),
         \A k \in 1..m : Added(parsed, type, k) = Added(other, type, k)
  PROVE  g[m] = h[m]
<1> DEFINE T == {n \in Nat : n <= m => g[n] = h[n]}
<1>1. 0 \in T
  BY DEF GatheredBy
<1>2. ASSUME NEW n \in T, n < m PROVE n + 1 \in T
  <2>1. n \in Nat /\ n + 1 \in 1..m /\ n + 1 \in 1..Len(parsed) /\ n + 1 \in 1..Len(other)
        /\ (n + 1) - 1 = n /\ g[n] = h[n]
    BY <1>2
  <2>2. g[n + 1] = g[n] \o Added(parsed, type, n + 1) /\ h[n + 1] = h[n] \o Added(other, type, n + 1)
    BY <2>1 DEF GatheredBy
  <2>3. Added(parsed, type, n + 1) = Added(other, type, n + 1)
    BY <2>1
  <2>4. g[n + 1] = h[n + 1]
    BY <2>1, <2>2, <2>3
  <2> QED BY <2>1, <2>4
<1> HIDE DEF T
<1>3. 0..m \subseteq T
  <2>1. T \in SUBSET Nat
    BY DEF T
  <2> QED BY <1>1, <1>2, <2>1, InductiveTo
<1> QED BY <1>3 DEF T

\* The rows of a file are those of its first sheets and those of the last one.
LEMMA RecordsOfLast ==
  ASSUME NEW parsed, IsParsed(parsed), NEW other, IsParsed(other), NEW type,
         Len(other) = Len(parsed) + 1,
         \A k \in 1..Len(parsed) : Added(parsed, type, k) = Added(other, type, k)
  PROVE  RecordsOfType(other, type) = RecordsOfType(parsed, type) \o Added(other, type, Len(other))
<1> DEFINE N == Len(parsed)
<1>1. N \in Nat /\ Len(other) \in Nat
  BY ListProperties DEF IsParsed
<1>2. PICK g : RecordsOfType(parsed, type) = g[N] /\ GatheredBy(parsed, type, g)
  BY <1>1, Gathers
<1>3. PICK h : RecordsOfType(other, type) = h[Len(other)] /\ GatheredBy(other, type, h)
  BY <1>1, Gathers
<1>4. g[N] = h[N]
  <2>1. Len(parsed) \in Nat /\ N <= Len(parsed) /\ N <= Len(other)
    BY <1>1
  <2>2. \A k \in 1..N : Added(parsed, type, k) = Added(other, type, k)
    OBVIOUS
  <2> HIDE DEF N
  <2> QED BY <1>1, <1>2, <1>3, <2>1, <2>2, GatheredAlike
<1>5. h[N + 1] = h[N] \o Added(other, type, N + 1)
  <2>1. N + 1 \in 1..Len(other) /\ (N + 1) - 1 = N
    BY <1>1
  <2> HIDE DEF N
  <2> QED BY <1>3, <2>1 DEF GatheredBy
<1> QED BY <1>2, <1>3, <1>4, <1>5

\* The last sheet of the other file has more rows, all else being equal.
Longer(parsed, other, type, more) ==
  /\ parsed # <<>> /\ Len(other) = Len(parsed)
  /\ \A k \in 1..(Len(parsed) - 1) : Added(parsed, type, k) = Added(other, type, k)
  /\ Added(other, type, Len(parsed)) = Added(parsed, type, Len(parsed)) \o more

\* ... so that more rows of the last sheet come last, too.
LEMMA RecordsOfLonger ==
  ASSUME NEW parsed, IsParsed(parsed), NEW other, IsParsed(other), NEW type,
         NEW more, IsList(more), Longer(parsed, other, type, more)
  PROVE  RecordsOfType(other, type) = RecordsOfType(parsed, type) \o more
<1> USE DEF Longer
<1> DEFINE N == Len(parsed)
<1>1. N \in Nat /\ N # 0 /\ DOMAIN parsed = 1..N
  <2>1. N \in Nat /\ parsed \in Seq({parsed[k] : k \in DOMAIN parsed}) /\ DOMAIN parsed = 1..N
    BY ListProperties DEF IsParsed
  <2>2. N # 0
    BY <2>1, EmptySeq
  <2> QED BY <2>1, <2>2
<1>2. PICK g : RecordsOfType(parsed, type) = g[N] /\ GatheredBy(parsed, type, g)
  BY <1>1, Gathers
<1>3. PICK h : RecordsOfType(other, type) = h[N] /\ GatheredBy(other, type, h)
  <2>1. Len(other) \in Nat
    BY <1>1
  <2>2. PICK h : RecordsOfType(other, type) = h[Len(other)] /\ GatheredBy(other, type, h)
    BY <2>1, Gathers
  <2> QED BY <2>2
<1> DEFINE m == N - 1
<1>4. g[m] = h[m]
  <2>1. Len(parsed) \in Nat /\ Len(other) \in Nat /\ m \in Nat /\ m <= Len(parsed) /\ m <= Len(other)
    BY <1>1
  <2>2. \A k \in 1..m : Added(parsed, type, k) = Added(other, type, k)
    OBVIOUS
  <2> HIDE DEF N, m
  <2> QED BY <1>2, <1>3, <2>1, <2>2, GatheredAlike
<1>5. g[N] = g[m] \o Added(parsed, type, N)
  BY <1>1, <1>2 DEF GatheredBy
<1>6. h[N] = h[m] \o Added(other, type, N)
  <2>1. N \in 1..Len(other)
    BY <1>1
  <2> HIDE DEF N
  <2> QED BY <1>3, <2>1 DEF GatheredBy, m
<1>7. IsList(g[m]) /\ IsList(Added(parsed, type, N))
  <2>1. m \in 0..Len(parsed)
    BY <1>1
  <2>2. IsList(g[m])
    BY <1>2, <2>1, GatheredLists
  <2>3. IsList(Added(parsed, type, N))
    BY <1>1, EmptyList DEF Added, IsParsed
  <2> QED BY <2>2, <2>3
<1>8. (g[m] \o Added(parsed, type, N)) \o more = g[m] \o (Added(parsed, type, N) \o more)
  <2> DEFINE a == g[m]
             b == Added(parsed, type, N)
  <2>1. IsList(a) /\ IsList(b)
    BY <1>7
  <2> HIDE DEF a, b, N, m
  <2>2. (a \o b) \o more = a \o (b \o more)
    BY <2>1, ConcatListsAssociative, SMTT(30)
  <2> QED BY <2>2 DEF a, b
<1> QED BY <1>2, <1>3, <1>4, <1>5, <1>6, <1>8

\* Parsing the rows of a sheet.
NormalizedRows(rows) == [k \in DOMAIN rows |-> NormalizeValues(rows[k])]

\* Parsing two lists of rows put together parses both.
LEMMA ParsedRows ==
  ASSUME NEW a, IsList(a), NEW b, IsList(b)
  PROVE  NormalizedRows(a \o b) = NormalizedRows(a) \o NormalizedRows(b)
<1> DEFINE Norm(rows) == [k \in DOMAIN rows |-> NormalizeValues(rows[k])]
           m == Len(a)
           n == Len(b)
<1>1. ASSUME NEW rows, IsList(rows)
      PROVE  IsList(Norm(rows)) /\ Len(Norm(rows)) = Len(rows) /\ DOMAIN Norm(rows) = 1..Len(rows)
  <2>1. Len(rows) \in Nat /\ DOMAIN rows = 1..Len(rows)
    BY <1>1, ListProperties
  <2>2. Norm(rows) = [k \in 1..Len(rows) |-> Norm(rows)[k]] /\ DOMAIN Norm(rows) = 1..Len(rows)
    BY <2>1
  <2> HIDE DEF Norm
  <2>3. IsList(Norm(rows))
    BY <2>1, <2>2, Listed
  <2>4. Len(Norm(rows)) \in Nat /\ DOMAIN Norm(rows) = 1..Len(Norm(rows))
    BY <2>3, ListProperties
  <2> QED BY <2>1, <2>2, <2>3, <2>4
<1>2. /\ m \in Nat /\ n \in Nat /\ DOMAIN a = 1..m /\ DOMAIN b = 1..n
      /\ IsList(a \o b) /\ DOMAIN (a \o b) = 1..(m + n)
      /\ \A k \in 1..(m + n) : (a \o b)[k] = IF k <= m THEN a[k] ELSE b[k - m]
  BY ListProperties, ConcatLists
<1>3. /\ IsList(Norm(a) \o Norm(b)) /\ DOMAIN (Norm(a) \o Norm(b)) = 1..(m + n)
      /\ Len(Norm(a)) = m
      /\ \A k \in 1..(m + n) : (Norm(a) \o Norm(b))[k] = IF k <= m THEN Norm(a)[k] ELSE Norm(b)[k - m]
  <2>1. IsList(Norm(a)) /\ IsList(Norm(b)) /\ Len(Norm(a)) = m /\ Len(Norm(b)) = n
    BY <1>1
  <2> HIDE DEF Norm, m, n
  <2> QED BY <2>1, ConcatLists
<1>4. ASSUME NEW k \in 1..(m + n) PROVE Norm(a \o b)[k] = (Norm(a) \o Norm(b))[k]
  <2>1. Norm(a \o b)[k] = NormalizeValues((a \o b)[k])
    BY <1>2
  <2>2. CASE k <= m
    <3>1. k \in DOMAIN a /\ (a \o b)[k] = a[k] /\ (Norm(a) \o Norm(b))[k] = Norm(a)[k]
      BY <1>2, <1>3, <2>2
    <3> QED BY <2>1, <3>1
  <2>3. CASE k > m
    <3>1. k - m \in DOMAIN b
      BY <1>2, <2>3
    <3>2. (a \o b)[k] = b[k - m] /\ (Norm(a) \o Norm(b))[k] = Norm(b)[k - m]
      BY <1>2, <1>3, <2>3
    <3> QED BY <2>1, <3>1, <3>2
  <2> QED BY <1>2, <2>2, <2>3
<1>5. Norm(a \o b) = [k \in 1..(m + n) |-> Norm(a \o b)[k]]
  BY <1>2
<1>6. Norm(a) \o Norm(b) = [k \in 1..(m + n) |-> (Norm(a) \o Norm(b))[k]]
  <2>1. LET l == Norm(a) \o Norm(b) IN l = [k \in 1..Len(l) |-> l[k]] /\ DOMAIN l = 1..Len(l)
    <3> HIDE DEF Norm
    <3> QED BY <1>3, ListProperties
  <2> QED BY <1>3, <2>1
<1> HIDE DEF Norm
<1>7. Norm(a \o b) = Norm(a) \o Norm(b)
  BY <1>4, <1>5, <1>6
<1> QED BY <1>7 DEF Norm, NormalizedRows

\* The rows a sheet has of a type.
SheetAdds(sheet, type) == IF ParseSheet(sheet).data_type = type THEN ParseSheet(sheet).records ELSE <<>>

\* ... are those it adds to a file.
LEMMA AddedBySheet ==
  ASSUME NEW file, IsFile(file), NEW type
  PROVE  \A s \in 1..Len(file) : Added(ParseFile(file), type, s) = SheetAdds(file[s], type)
BY FileParsed DEF Added, SheetAdds

\* One more sheet.
JoinSheet(done, sheet) ==
  IF done # <<>> /\ done[Len(done)].columns = sheet.columns
  THEN [done EXCEPT ![Len(done)].rows = @ \o sheet.rows]
  ELSE Append(done, sheet)

\* A sheet of its own adds its rows.
LEMMA AppendAdds ==
  ASSUME NEW done, IsFile(done), NEW sheet,
         {"columns", "rows"} \subseteq DOMAIN sheet, IsList(sheet.rows), NEW type
  PROVE  /\ IsFile(Append(done, sheet))
         /\ RecordsOfType(ParseFile(Append(done, sheet)), type)
              = RecordsOfType(ParseFile(done), type) \o SheetAdds(sheet, type)
<1> DEFINE new == Append(done, sheet)
           S == {done[k] : k \in DOMAIN done} \cup {sheet}
<1>1. done \in Seq(S) /\ Len(done) \in Nat /\ DOMAIN done = 1..Len(done)
  <2>1. /\ Len(done) \in Nat /\ DOMAIN done = 1..Len(done)
        /\ done \in Seq({done[k] : k \in DOMAIN done})
    BY ListProperties DEF IsFile
  <2> QED BY <2>1, SeqMonotonic
<1>2. /\ new \in Seq(S) /\ Len(new) = Len(done) + 1
      /\ \A k \in 1..Len(done) : new[k] = done[k]
      /\ new[Len(done) + 1] = sheet
  <2> sheet \in S
    OBVIOUS
  <2> HIDE DEF S
  <2> QED BY <1>1, AppendProperties
<1>3. DOMAIN new = 1..(Len(done) + 1) /\ new = [k \in 1..(Len(done) + 1) |-> new[k]]
  <2> HIDE DEF new, S
  <2> QED BY <1>1, <1>2, LenProperties
<1> HIDE DEF new, S
<1>4. IsFile(new)
  <2>1. IsList(new)
    BY <1>1, <1>3, Listed
  <2>2. ASSUME NEW s \in DOMAIN new
        PROVE  {"columns", "rows"} \subseteq DOMAIN new[s] /\ IsList(new[s].rows)
    <3>1. CASE s <= Len(done)
      <4>1. s \in 1..Len(done)
        BY <1>1, <1>3, <3>1
      <4>2. s \in DOMAIN done /\ new[s] = done[s]
        BY <1>1, <1>2, <4>1
      <4> QED BY <4>2 DEF IsFile
    <3>2. CASE s > Len(done)
      <4>1. new[s] = sheet
        BY <1>1, <1>2, <1>3, <3>2
      <4> QED BY <4>1
    <3> QED BY <1>1, <1>3, <3>1, <3>2
  <2> QED BY <2>1, <2>2 DEF IsFile
<1>5. RecordsOfType(ParseFile(new), type) = RecordsOfType(ParseFile(done), type) \o SheetAdds(sheet, type)
  <2> DEFINE p == ParseFile(done)
             q == ParseFile(new)
  <2>1. IsParsed(p) /\ Len(p) = Len(done) /\ IsParsed(q) /\ Len(q) = Len(done) + 1
    BY <1>2, <1>4, FileParsed
  <2>2. \A k \in 1..Len(done) : Added(p, type, k) = Added(q, type, k)
    BY <1>1, <1>2, <1>4, AddedBySheet
  <2>3. Added(q, type, Len(done) + 1) = SheetAdds(sheet, type)
    BY <1>1, <1>2, <1>4, AddedBySheet
  <2> HIDE DEF p, q
  <2>4. RecordsOfType(q, type) = RecordsOfType(p, type) \o Added(q, type, Len(q))
    BY <2>1, <2>2, RecordsOfLast
  <2> QED BY <2>1, <2>3, <2>4 DEF p, q
<1> QED BY <1>4, <1>5 DEF new

\* Rows put behind those of the last sheet are added as well.
LEMMA LongerAdds ==
  ASSUME NEW done, IsFile(done), done # <<>>, NEW sheet,
         IsList(sheet.rows), done[Len(done)].columns = sheet.columns, NEW type
  PROVE  /\ IsFile(JoinSheet(done, sheet))
         /\ RecordsOfType(ParseFile(JoinSheet(done, sheet)), type)
              = RecordsOfType(ParseFile(done), type) \o SheetAdds(sheet, type)
<1> DEFINE n == Len(done)
           last == [done[n] EXCEPT !.rows = @ \o sheet.rows]
           new == [done EXCEPT ![Len(done)].rows = @ \o sheet.rows]
<1>1. n \in Nat /\ DOMAIN done = 1..n /\ n # 0 /\ done = [k \in 1..n |-> done[k]]
  <2>1. /\ n \in Nat /\ DOMAIN done = 1..n /\ done = [k \in 1..n |-> done[k]]
        /\ done \in Seq({done[k] : k \in DOMAIN done})
    BY ListProperties DEF IsFile
  <2>2. n # 0
    BY <2>1, EmptySeq
  <2> QED BY <2>1, <2>2
<1>2. {"columns", "rows"} \subseteq DOMAIN done[n] /\ IsList(done[n].rows)
  BY <1>1 DEF IsFile
<1>3. /\ DOMAIN last = DOMAIN done[n] /\ last.columns = sheet.columns
      /\ last.rows = done[n].rows \o sheet.rows
  BY <1>2
<1>4. IsList(last.rows)
  BY <1>2, <1>3, ConcatLists
<1>5. /\ DOMAIN new = 1..n /\ new = [k \in 1..n |-> new[k]] /\ new[n] = last
      /\ \A k \in 1..n : k # n => new[k] = done[k]
  <2>1. new = [done EXCEPT ![n] = last]
    OBVIOUS
  <2> HIDE DEF new, last, n
  <2>2. new = [k \in 1..n |-> IF k = n THEN last ELSE done[k]]
    BY <1>1, <2>1
  <2> QED BY <1>1, <2>2
<1> HIDE DEF new, last
<1>6. IsFile(new) /\ Len(new) = n
  <2>1. IsList(new)
    BY <1>1, <1>5, Listed
  <2>2. Len(new) = n
    <3>1. Len(new) \in Nat /\ DOMAIN new = 1..Len(new)
      BY <2>1, ListProperties
    <3> QED BY <1>1, <1>5, <3>1
  <2>3. ASSUME NEW s \in DOMAIN new
        PROVE  {"columns", "rows"} \subseteq DOMAIN new[s] /\ IsList(new[s].rows)
    <3>1. CASE s = n
      BY <1>2, <1>3, <1>4, <1>5, <3>1
    <3>2. CASE s # n
      <4>1. s \in DOMAIN done /\ new[s] = done[s]
        BY <1>1, <1>5, <3>2
      <4> QED BY <4>1 DEF IsFile
    <3> QED BY <3>1, <3>2
  <2> QED BY <2>1, <2>2, <2>3 DEF IsFile
<1>7. SheetAdds(last, type) = SheetAdds(done[n], type) \o SheetAdds(sheet, type)
  <2> DEFINE Norm(rows) == NormalizedRows(rows)
             kind == DetectDataType(sheet.columns)
  <2>1. Norm(last.rows) = Norm(done[n].rows) \o Norm(sheet.rows)
    <3>1. Norm(done[n].rows \o sheet.rows) = Norm(done[n].rows) \o Norm(sheet.rows)
      <4> DEFINE a == done[n].rows
                 b == sheet.rows
      <4>1. IsList(a) /\ IsList(b)
        BY <1>2
      <4> HIDE DEF a, b
      <4>2. NormalizedRows(a \o b) = NormalizedRows(a) \o NormalizedRows(b)
        BY <4>1, ParsedRows
      <4> QED BY <4>2 DEF a, b
    <3> QED BY <1>3, <3>1
  <2>2. /\ SheetAdds(last, type) = IF kind = type THEN Norm(last.rows) ELSE <<>>
        /\ SheetAdds(done[n], type) = IF kind = type THEN Norm(done[n].rows) ELSE <<>>
        /\ SheetAdds(sheet, type) = IF kind = type THEN Norm(sheet.rows) ELSE <<>>
    BY <1>3 DEF SheetAdds, ParseSheet, NormalizedRows
  <2>3. <<>> = <<>> \o <<>>
    BY EmptyList
  <2> HIDE DEF Norm, kind
  <2> QED BY <2>1, <2>2, <2>3
<1>8. RecordsOfType(ParseFile(new), type) = RecordsOfType(ParseFile(done), type) \o SheetAdds(sheet, type)
  <2> DEFINE p == ParseFile(done)
             q == ParseFile(new)
             more == SheetAdds(sheet, type)
  <2>1. IsParsed(p) /\ Len(p) = n /\ IsParsed(q) /\ Len(q) = Len(p) /\ p # <<>>
    <3>1. IsParsed(p) /\ Len(p) = n /\ IsParsed(q) /\ Len(q) = n
      BY <1>6, FileParsed
    <3>2. p # <<>>
      BY <1>1, <3>1, EmptySeq
    <3> QED BY <3>1, <3>2
  <2>2. \A k \in 1..n : Added(p, type, k) = SheetAdds(done[k], type) /\ Added(q, type, k) = SheetAdds(new[k], type)
    BY <1>6, AddedBySheet
  <2>3. \A k \in 1..(n - 1) : Added(p, type, k) = Added(q, type, k)
    BY <1>1, <1>5, <2>2
  <2>4. Added(q, type, n) = Added(p, type, n) \o more
    <3>1. n \in 1..n
      BY <1>1
    <3> HIDE DEF p, q, n
    <3>2. Added(p, type, n) = SheetAdds(done[n], type) /\ Added(q, type, n) = SheetAdds(last, type)
      BY <1>5, <2>2, <3>1
    <3> QED BY <1>7, <3>2 DEF n
  <2>5. IsList(more)
    <3>1. IsList([k \in DOMAIN sheet.rows |-> NormalizeValues(sheet.rows[k])])
      <4> DEFINE f == [k \in DOMAIN sheet.rows |-> NormalizeValues(sheet.rows[k])]
      <4>1. Len(sheet.rows) \in Nat /\ DOMAIN sheet.rows = 1..Len(sheet.rows)
        BY ListProperties
      <4>2. f = [k \in 1..Len(sheet.rows) |-> f[k]]
        BY <4>1
      <4> HIDE DEF f
      <4>3. IsList(f)
        BY <4>1, <4>2, Listed
      <4> QED BY <4>3 DEF f
    <3> QED BY <3>1, EmptyList DEF SheetAdds, ParseSheet
  <2> HIDE DEF p, q, more, n
  <2>6. Len(q) = Len(p) /\ \A k \in 1..(Len(p) - 1) : Added(p, type, k) = Added(q, type, k)
    BY <2>1, <2>3
  <2>7. Added(q, type, Len(p)) = Added(p, type, Len(p)) \o more
    BY <2>1, <2>4
  <2>8. RecordsOfType(q, type) = RecordsOfType(p, type) \o more
    <3>1. Longer(p, q, type, more)
      BY <2>1, <2>6, <2>7 DEF Longer
    <3> QED BY <2>1, <2>5, <3>1, RecordsOfLonger
  <2> QED BY <2>8 DEF p, q, more
<1>9. JoinSheet(done, sheet) = new
  BY DEF JoinSheet, new
<1> QED BY <1>6, <1>8, <1>9

\* The joined file, sheet after sheet.
JoinsTo(file, n, f) ==
  f = [k \in 0..n |-> IF k = 0 THEN <<>> ELSE JoinSheet(f[k - 1], file[k])]

\* The recursion is well defined.
LEMMA JoinExists ==
  ASSUME NEW file, NEW m \in Nat
  PROVE  \E f : JoinsTo(file, m, f)
<1> DEFINE T == {n \in Nat : \E f : JoinsTo(file, n, f)}
<1>1. 0 \in T
  <2> DEFINE f == [k \in 0..0 |-> <<>>]
  <2>1. JoinsTo(file, 0, f)
    BY DEF JoinsTo
  <2> QED BY <2>1
<1>2. ASSUME NEW n \in T PROVE n + 1 \in T
  <2>1. PICK f : JoinsTo(file, n, f)
    OBVIOUS
  <2> DEFINE h == [k \in 0..(n + 1) |-> IF k = n + 1 THEN JoinSheet(f[n], file[n + 1]) ELSE f[k]]
  <2>2. n \in Nat
    OBVIOUS
  <2>3. ASSUME NEW k \in 0..(n + 1)
        PROVE  h[k] = IF k = 0 THEN <<>> ELSE JoinSheet(h[k - 1], file[k])
    <3>1. CASE k = n + 1
      <4>1. h[k] = JoinSheet(f[n], file[n + 1]) /\ h[k - 1] = f[n] /\ k # 0
        BY <2>2, <3>1
      <4> QED BY <3>1, <4>1
    <3>2. CASE k # n + 1
      <4>1. k \in 0..n /\ h[k] = f[k] /\ (k # 0 => h[k - 1] = f[k - 1])
        BY <2>2, <3>2
      <4>2. f[k] = IF k = 0 THEN <<>> ELSE JoinSheet(f[k - 1], file[k])
        BY <2>1, <4>1 DEF JoinsTo
      <4> QED BY <4>1, <4>2
    <3> QED BY <3>1, <3>2
  <2>4. h = [k \in 0..(n + 1) |-> h[k]]
    OBVIOUS
  <2> HIDE DEF h
  <2>5. JoinsTo(file, n + 1, h)
    BY <2>3, <2>4 DEF JoinsTo
  <2> QED BY <2>2, <2>5
<1> HIDE DEF T
<1>3. T = Nat
  BY <1>1, <1>2, Inductive DEF T
<1> QED BY <1>3 DEF T

\* ... and computes what its equation says.
LEMMA Joins ==
  ASSUME NEW file, Len(file) \in Nat
  PROVE  \E f : /\ Joined(file) = f[Len(file)]
                /\ f[0] = <<>>
                /\ \A k \in 1..Len(file) : f[k] = JoinSheet(f[k - 1], file[k])
<1> DEFINE f == CHOOSE h : JoinsTo(file, Len(file), h)
<1>1. JoinsTo(file, Len(file), f)
  <2>1. \E h : JoinsTo(file, Len(file), h)
    BY JoinExists
  <2> QED BY <2>1, Zenon
<1>2. Joined(file) = f[Len(file)]
  BY ZenonT(60) DEF Joined, JoinsTo, JoinSheet
<1> HIDE DEF f
<1>3. f[0] = <<>>
  BY <1>1 DEF JoinsTo
<1>4. \A k \in 1..Len(file) : f[k] = JoinSheet(f[k - 1], file[k])
  BY <1>1 DEF JoinsTo
<1> QED BY <1>2, <1>3, <1>4

\* Joining sheets keeps the rows of every type, in their order.
LEMMA JoinedRows ==
  ASSUME NEW file, IsFile(file), NEW type
  PROVE  RecordsOfType(ParseFile(Joined(file)), type) = RecordsOfType(ParseFile(file), type)
<1> DEFINE N == Len(file)
           parsed == ParseFile(file)
<1>1. IsParsed(parsed) /\ Len(parsed) = N /\ N \in Nat /\ DOMAIN file = 1..N
  BY FileParsed
<1>2. PICK f : /\ Joined(file) = f[N]
               /\ f[0] = <<>>
               /\ \A k \in 1..N : f[k] = JoinSheet(f[k - 1], file[k])
  BY <1>1, Joins
<1>3. PICK g : RecordsOfType(parsed, type) = g[N] /\ GatheredBy(parsed, type, g)
  <2> HIDE DEF N, parsed
  <2>1. PICK g : RecordsOfType(parsed, type) = g[Len(parsed)] /\ GatheredBy(parsed, type, g)
    BY <1>1, Gathers
  <2> QED BY <1>1, <2>1
<1> DEFINE Done(n) == IsFile(f[n]) /\ RecordsOfType(ParseFile(f[n]), type) = g[n]
           T == {n \in Nat : n <= N => Done(n)}
<1>4. 0 \in T
  <2>1. IsFile(<<>>)
    BY EmptyList DEF IsFile
  <2>2. RecordsOfType(ParseFile(<<>>), type) = <<>>
    <3> DEFINE p == ParseFile(<<>>)
    <3>1. Len(p) = 0
      BY <2>1, FileParsed
    <3> HIDE DEF p
    <3>2. PICK h : RecordsOfType(p, type) = h[Len(p)] /\ GatheredBy(p, type, h)
      BY <3>1, Gathers
    <3>3. RecordsOfType(p, type) = <<>>
      BY <3>1, <3>2 DEF GatheredBy
    <3> QED BY <3>3 DEF p
  <2>3. g[0] = <<>>
    BY <1>3 DEF GatheredBy
  <2>4. Done(0)
    BY <1>2, <2>1, <2>2, <2>3
  <2> HIDE DEF Done
  <2> QED BY <2>4
<1>5. ASSUME NEW n \in T, n < N PROVE n + 1 \in T
  <2>1. n \in Nat /\ Done(n) /\ n + 1 \in 1..N /\ (n + 1) - 1 = n
    <3> HIDE DEF Done
    <3> QED BY <1>1, <1>5
  <2> DEFINE done == f[n]
             sheet == file[n + 1]
  <2>2. f[n + 1] = JoinSheet(done, sheet)
    BY <1>2, <2>1
  <2>3. g[n + 1] = g[n] \o SheetAdds(sheet, type)
    <3>1. n + 1 \in 1..Len(parsed) /\ n + 1 \in 1..Len(file)
      BY <1>1, <2>1
    <3>2. g[n + 1] = g[n] \o Added(parsed, type, n + 1)
      <4> HIDE DEF parsed
      <4> QED BY <1>3, <2>1, <3>1 DEF GatheredBy
    <3>3. Added(parsed, type, n + 1) = SheetAdds(sheet, type)
      BY <3>1, AddedBySheet
    <3> QED BY <3>2, <3>3
  <2>4. {"columns", "rows"} \subseteq DOMAIN sheet /\ IsList(sheet.rows)
    BY <1>1, <2>1 DEF IsFile
  <2>5. IsFile(done) /\ RecordsOfType(ParseFile(done), type) = g[n]
    BY <2>1
  <2> HIDE DEF done, sheet, N, parsed
  <2>6. /\ IsFile(JoinSheet(done, sheet))
        /\ RecordsOfType(ParseFile(JoinSheet(done, sheet)), type)
             = RecordsOfType(ParseFile(done), type) \o SheetAdds(sheet, type)
    <3>1. CASE done # <<>> /\ done[Len(done)].columns = sheet.columns
      <4>1. done # <<>> /\ done[Len(done)].columns = sheet.columns /\ IsFile(done) /\ IsList(sheet.rows)
        BY <2>4, <2>5, <3>1
      <4> QED BY <4>1, LongerAdds
    <3>2. CASE ~(done # <<>> /\ done[Len(done)].columns = sheet.columns)
      <4>1. JoinSheet(done, sheet) = Append(done, sheet)
        BY <3>2 DEF JoinSheet
      <4>2. IsFile(done) /\ {"columns", "rows"} \subseteq DOMAIN sheet /\ IsList(sheet.rows)
        BY <2>4, <2>5
      <4>3. /\ IsFile(Append(done, sheet))
            /\ RecordsOfType(ParseFile(Append(done, sheet)), type)
                 = RecordsOfType(ParseFile(done), type) \o SheetAdds(sheet, type)
        BY <4>2, AppendAdds
      <4> QED BY <4>1, <4>3
    <3> QED BY <3>1, <3>2
  <2>7. Done(n + 1)
    BY <2>2, <2>3, <2>5, <2>6
  <2> HIDE DEF Done
  <2> QED BY <2>1, <2>7
<1> HIDE DEF T, Done, N, parsed
<1>6. 0..N \subseteq T
  <2>1. T \in SUBSET Nat
    BY DEF T
  <2> QED BY <1>1, <1>4, <1>5, <2>1, InductiveTo
<1>7. Done(N)
  BY <1>1, <1>6 DEF T
<1> QED BY <1>2, <1>3, <1>7 DEF Done, parsed

\* Files with the same rows of every type raise the same findings.
LEMMA SameRowsSameFindings ==
  ASSUME NEW p, NEW q, \A type : RecordsOfType(p, type) = RecordsOfType(q, type)
  PROVE  RunAuditEngine(p).all_findings = RunAuditEngine(q).all_findings
<1>1. DomainResults(p) = DomainResults(q)
  BY DEF DomainResults
<1> DEFINE all == AllFindings(DomainResults(p))
<1>2. RunAuditEngine(p).all_findings
        = Corroborated(all, Described(all, RecordsOfType(p, "transactions"), RecordsOfType(p, "interfaces")))
  BY DEF RunAuditEngine
<1>3. RunAuditEngine(q).all_findings
        = Corroborated(all, Described(all, RecordsOfType(q, "transactions"), RecordsOfType(q, "interfaces")))
  BY <1>1 DEF RunAuditEngine
<1> HIDE DEF all
<1> QED BY <1>1, <1>2, <1>3

\* For any files and any rules: the findings of an analysis depend on the rows
\* of each type and their order only, not on the sheets they came in.
THEOREM EngineIgnoresSheets == Spec => []SheetsDoNotMatter
<1>1. EngineIInv => SheetsDoNotMatter
  <2> SUFFICES ASSUME EngineIInv, Analysed
               PROVE  Analysis(Joined(response.file)).all_findings = response.result.all_findings
    BY DEF SheetsDoNotMatter
  <2>1. response.status = 102
    BY DEF Analysed, EngineIInv, Transacting
  <2>2. PICK file \in Uploads : response = Answer(102, file)
    BY <2>1 DEF EngineIInv, Answers
  <2>3. response.file = file /\ response.result = RunAuditEngine(ParseFile(file))
    BY <2>2 DEF Answer
  <2>4. IsFile(file)
    BY ParsedLists, UploadsAssumption
  <2>5. \A type : RecordsOfType(ParseFile(Joined(file)), type) = RecordsOfType(ParseFile(file), type)
    BY <2>4, JoinedRows
  <2>6. RunAuditEngine(ParseFile(Joined(file))).all_findings = RunAuditEngine(ParseFile(file)).all_findings
    BY <2>5, SameRowsSameFindings
  <2>7. Analysis(Joined(file)) = RunAuditEngine(ParseFile(Joined(file)))
    BY DEF Analysis
  <2> QED BY <2>3, <2>6, <2>7
<1> QED BY EngineInvariant, <1>1, PTL
-----------------------------------------------------------------------------
\* Files with a sheet less.  The rows of each type are embedded in those of the
\* whole file; every test finds at least as much in more rows, each thing in a
\* row of its own; linking keeps that, and the score grows with the findings.

\* Every row of the one list is a row of the other, at a place of its own.
Embeds(m, less, more) ==
  /\ m \in Injection(DOMAIN less, DOMAIN more)
  /\ \A k \in DOMAIN less : less[k] = more[m[k]]
Embedded(less, more) == \E m : Embeds(m, less, more)
USE DEF IsInjective

\* A list embedded in another is so, too, when the other gets more rows,
LEMMA EmbeddedInLonger ==
  ASSUME NEW a, IsList(a), NEW b, IsList(b), NEW c, IsList(c), Embedded(a, b)
  PROVE  Embedded(a, b \o c)
<1>1. PICK m : Embeds(m, a, b)
  BY DEF Embedded
<1>2. Len(b) \in Nat /\ DOMAIN b = 1..Len(b) /\ Len(c) \in Nat
  BY ListProperties
<1>3. DOMAIN (b \o c) = 1..(Len(b) + Len(c))
      /\ \A k \in 1..(Len(b) + Len(c)) : (b \o c)[k] = IF k <= Len(b) THEN b[k] ELSE c[k - Len(b)]
  BY ConcatLists
<1>4. ASSUME NEW k \in DOMAIN b PROVE k \in DOMAIN (b \o c) /\ (b \o c)[k] = b[k]
  BY <1>2, <1>3
<1>5. Embeds(m, a, b \o c)
  <2>1. DOMAIN b \subseteq DOMAIN (b \o c)
    BY <1>4
  <2>2. m \in [DOMAIN a -> DOMAIN b] /\ \A k, j \in DOMAIN a : m[k] = m[j] => k = j
    BY <1>1 DEF Embeds, Injection
  <2>3. m \in Injection(DOMAIN a, DOMAIN (b \o c))
    BY <2>1, <2>2 DEF Injection
  <2>4. ASSUME NEW k \in DOMAIN a PROVE a[k] = (b \o c)[m[k]]
    BY <1>1, <1>4, <2>2 DEF Embeds
  <2> QED BY <2>3, <2>4 DEF Embeds
<1> QED BY <1>5 DEF Embedded

\* ... is embedded in itself,
LEMMA EmbeddedInItself == ASSUME NEW a PROVE Embedded(a, a)
<1> DEFINE m == [k \in DOMAIN a |-> k]
<1>1. Embeds(m, a, a)
  BY DEF Embeds, Injection
<1> QED BY <1>1 DEF Embedded

\* ... and stays embedded when both get the same rows behind them.
LEMMA EmbeddedWithMore ==
  ASSUME NEW a, IsList(a), NEW b, IsList(b), NEW c, IsList(c), Embedded(a, b)
  PROVE  Embedded(a \o c, b \o c)
<1>1. PICK m : Embeds(m, a, b)
  BY DEF Embedded
<1>2. /\ Len(a) \in Nat /\ DOMAIN a = 1..Len(a) /\ Len(b) \in Nat /\ DOMAIN b = 1..Len(b)
      /\ Len(c) \in Nat /\ DOMAIN c = 1..Len(c)
  BY ListProperties
<1>3. DOMAIN (b \o c) = 1..(Len(b) + Len(c))
      /\ \A k \in 1..(Len(b) + Len(c)) : (b \o c)[k] = IF k <= Len(b) THEN b[k] ELSE c[k - Len(b)]
  BY ConcatLists
<1>4. DOMAIN (a \o c) = 1..(Len(a) + Len(c))
      /\ \A k \in 1..(Len(a) + Len(c)) : (a \o c)[k] = IF k <= Len(a) THEN a[k] ELSE c[k - Len(a)]
  BY ConcatLists
<1>5. m \in [DOMAIN a -> DOMAIN b] /\ \A k, j \in DOMAIN a : m[k] = m[j] => k = j
  BY <1>1 DEF Embeds, Injection
<1> DEFINE n == [k \in DOMAIN (a \o c) |-> IF k <= Len(a) THEN m[k] ELSE Len(b) + (k - Len(a))]
<1>6. ASSUME NEW k \in DOMAIN (a \o c)
      PROVE  /\ n[k] \in DOMAIN (b \o c) /\ (a \o c)[k] = (b \o c)[n[k]]
             /\ k <= Len(a) <=> n[k] <= Len(b)
  <2>1. CASE k <= Len(a)
    <3>1. k \in DOMAIN a /\ n[k] = m[k] /\ m[k] \in DOMAIN b /\ (a \o c)[k] = a[k]
      BY <1>2, <1>4, <1>5, <2>1
    <3>2. m[k] \in 1..Len(b) /\ m[k] \in 1..(Len(b) + Len(c)) /\ m[k] <= Len(b)
      BY <1>2, <3>1
    <3>3. (b \o c)[m[k]] = b[m[k]] /\ m[k] \in DOMAIN (b \o c)
      BY <1>3, <3>2
    <3>4. a[k] = b[m[k]]
      BY <1>1, <3>1 DEF Embeds
    <3> HIDE DEF n
    <3> QED BY <2>1, <3>1, <3>2, <3>3, <3>4
  <2>2. CASE k > Len(a)
    <3> DEFINE j == k - Len(a)
    <3>1. j \in 1..Len(c) /\ (a \o c)[k] = c[j] /\ n[k] = Len(b) + j
      BY <1>2, <1>4, <2>2
    <3> HIDE DEF j, n
    <3>2. Len(b) + j \in 1..(Len(b) + Len(c)) /\ ~(Len(b) + j <= Len(b)) /\ (Len(b) + j) - Len(b) = j
      BY <1>2, <3>1
    <3>3. (b \o c)[Len(b) + j] = c[j] /\ Len(b) + j \in DOMAIN (b \o c)
      BY <1>3, <3>2
    <3>4. ~(k <= Len(a))
      BY <1>2, <1>4, <2>2
    <3> QED BY <3>1, <3>2, <3>3, <3>4
  <2> QED BY <1>2, <1>4, <2>1, <2>2
<1>7. ASSUME NEW k \in DOMAIN (a \o c), NEW j \in DOMAIN (a \o c), n[k] = n[j] PROVE k = j
  <2>1. k <= Len(a) <=> j <= Len(a)
    <3> HIDE DEF n
    <3> QED BY <1>6, <1>7
  <2>2. CASE k <= Len(a)
    <3>1. k \in DOMAIN a /\ j \in DOMAIN a /\ m[k] = m[j]
      BY <1>2, <1>4, <1>7, <2>1, <2>2
    <3> QED BY <1>5, <3>1
  <2>3. CASE ~(k <= Len(a))
    <3>1. Len(b) + (k - Len(a)) = Len(b) + (j - Len(a))
      BY <1>7, <2>1, <2>3
    <3> QED BY <1>2, <1>4, <3>1
  <2> QED BY <2>2, <2>3
<1>8. DOMAIN n = DOMAIN (a \o c) /\ n = [k \in DOMAIN (a \o c) |-> n[k]]
  OBVIOUS
<1> HIDE DEF n
<1>9. Embeds(n, a \o c, b \o c)
  BY <1>6, <1>7, <1>8 DEF Embeds, Injection
<1> QED BY <1>9 DEF Embedded

\* A file without one of its sheets.
LEMMA SheetRemoved ==
  ASSUME NEW file, IsFile(file), NEW s \in DOMAIN file
  PROVE  /\ IsFile(Ext!RemoveAt(file, s)) /\ Len(Ext!RemoveAt(file, s)) = Len(file) - 1
         /\ \A k \in 1..(Len(file) - 1) :
              Ext!RemoveAt(file, s)[k] = file[IF k < s THEN k ELSE k + 1]
<1> DEFINE N == Len(file)
           S == {file[k] : k \in DOMAIN file}
           a == SubSeq(file, 1, s - 1)
           b == SubSeq(file, s + 1, N)
<1>1. N \in Nat /\ DOMAIN file = 1..N /\ s \in 1..N
  BY ListProperties DEF IsFile
<1>2. \A k \in 1..N : file[k] \in S
  BY <1>1
<1> HIDE DEF N, S
<1>3. a \in Seq(S) /\ Len(a) = s - 1 /\ \A k \in 1..(s - 1) : a[k] = file[k]
  <2>1. \A k \in 1..(s - 1) : file[k] \in S
    BY <1>1, <1>2
  <2>2. 1 \in Int /\ s - 1 \in Int /\ (s - 1) - 1 + 1 = s - 1 /\ \A k \in 1..(s - 1) : 1 + k - 1 = k
    BY <1>1
  <2>3. a \in Seq(S) /\ Len(a) = (IF 1 <= s - 1 THEN (s - 1) - 1 + 1 ELSE 0)
        /\ \A k \in 1..((s - 1) - 1 + 1) : a[k] = file[1 + k - 1]
    BY <2>1, <2>2, SubSeqProperties
  <2> HIDE DEF a
  <2> QED BY <1>1, <2>2, <2>3
<1>4. b \in Seq(S) /\ Len(b) = N - s /\ \A k \in 1..(N - s) : b[k] = file[s + k]
  <2>1. \A k \in (s + 1)..N : file[k] \in S
    BY <1>1, <1>2
  <2>2. s + 1 \in Int /\ N \in Int /\ N - (s + 1) + 1 = N - s /\ \A k \in 1..(N - s) : (s + 1) + k - 1 = s + k
    BY <1>1
  <2>3. b \in Seq(S) /\ Len(b) = (IF s + 1 <= N THEN N - (s + 1) + 1 ELSE 0)
        /\ \A k \in 1..(N - (s + 1) + 1) : b[k] = file[(s + 1) + k - 1]
    BY <2>1, <2>2, SubSeqProperties
  <2> HIDE DEF b
  <2> QED BY <1>1, <2>2, <2>3
<1>5. Ext!RemoveAt(file, s) = a \o b
  BY DEF Ext!RemoveAt, N
<1> HIDE DEF a, b
<1>6. IsList(a) /\ IsList(b)
  <2>1. ASSUME NEW l \in Seq(S) PROVE IsList(l)
    <3>1. Len(l) \in Nat /\ l \in [1..Len(l) -> S]
      BY LenProperties
    <3>2. l = [k \in 1..Len(l) |-> l[k]]
      BY <3>1
    <3> QED BY <3>1, <3>2, Listed
  <2> QED BY <1>3, <1>4, <2>1
<1>7. /\ IsList(a \o b) /\ Len(a \o b) = N - 1 /\ DOMAIN (a \o b) = 1..(N - 1)
      /\ \A k \in 1..(N - 1) : (a \o b)[k] = IF k <= s - 1 THEN a[k] ELSE b[k - (s - 1)]
  <2>1. Len(a) + Len(b) = N - 1
    BY <1>1, <1>3, <1>4
  <2>2. /\ IsList(a \o b) /\ Len(a \o b) = Len(a) + Len(b) /\ DOMAIN (a \o b) = 1..(Len(a) + Len(b))
        /\ \A k \in 1..(Len(a) + Len(b)) : (a \o b)[k] = IF k <= Len(a) THEN a[k] ELSE b[k - Len(a)]
    BY <1>6, ConcatLists
  <2> QED BY <1>3, <2>1, <2>2
<1>8. ASSUME NEW k \in 1..(N - 1) PROVE (a \o b)[k] = file[IF k < s THEN k ELSE k + 1]
  <2>1. CASE k < s
    <3>1. k \in 1..(s - 1)
      BY <1>1, <2>1
    <3> QED BY <1>1, <1>3, <1>7, <2>1, <3>1
  <2>2. CASE ~(k < s)
    <3>1. k - (s - 1) \in 1..(N - s) /\ s + (k - (s - 1)) = k + 1 /\ ~(k <= s - 1)
      BY <1>1, <2>2
    <3> QED BY <1>4, <1>7, <2>2, <3>1
  <2> QED BY <2>1, <2>2
<1>9. IsFile(a \o b)
  <2>1. ASSUME NEW k \in 1..(N - 1) PROVE \E j \in DOMAIN file : (a \o b)[k] = file[j]
    <3> DEFINE j == IF k < s THEN k ELSE k + 1
    <3>1. j \in DOMAIN file
      BY <1>1
    <3> QED BY <1>8, <3>1
  <2> QED BY <1>7, <2>1 DEF IsFile
<1> QED BY <1>5, <1>7, <1>8, <1>9 DEF N

\* ... has rows of each type that are embedded in those of the whole file, and
\* all of a type of which that sheet has none.
LEMMA FewerRows ==
  ASSUME NEW file, IsFile(file), NEW s \in DOMAIN file, NEW type
  PROVE  /\ Embedded(RecordsOfType(ParseFile(Ext!RemoveAt(file, s)), type), RecordsOfType(ParseFile(file), type))
         /\ SheetAdds(file[s], type) = <<>> =>
              RecordsOfType(ParseFile(Ext!RemoveAt(file, s)), type) = RecordsOfType(ParseFile(file), type)
<1> DEFINE rest == Ext!RemoveAt(file, s)
           p == ParseFile(rest)
           q == ParseFile(file)
           N == Len(file)
<1>1. IsFile(rest) /\ Len(rest) = N - 1 /\ \A k \in 1..(N - 1) : rest[k] = file[IF k < s THEN k ELSE k + 1]
  BY SheetRemoved
<1>2. IsParsed(q) /\ Len(q) = N /\ N \in Nat /\ DOMAIN file = 1..N /\ s \in 1..N
  BY FileParsed
<1> HIDE DEF rest
<1>3. IsParsed(p) /\ Len(p) = N - 1 /\ N - 1 \in Nat
  BY <1>1, FileParsed
<1>4. \A k \in 1..(N - 1) : Added(p, type, k) = Added(q, type, IF k < s THEN k ELSE k + 1)
  <2> SUFFICES ASSUME NEW k \in 1..(N - 1)
               PROVE  Added(p, type, k) = Added(q, type, IF k < s THEN k ELSE k + 1)
    OBVIOUS
  <2>1. Added(p, type, k) = SheetAdds(rest[k], type)
    BY <1>1, AddedBySheet
  <2> DEFINE j == IF k < s THEN k ELSE k + 1
  <2>2. j \in 1..N
    BY <1>2
  <2>3. rest[k] = file[j]
    BY <1>1
  <2> HIDE DEF j
  <2>4. Added(q, type, j) = SheetAdds(file[j], type)
    BY <2>2, AddedBySheet
  <2>5. Added(p, type, k) = Added(q, type, j)
    BY <2>1, <2>3, <2>4
  <2> QED BY <2>5 DEF j
<1>5. \A k \in 1..N : IsList(Added(q, type, k))
  <2>1. DOMAIN q = 1..N
    BY <1>2, ListProperties DEF IsParsed
  <2> QED BY <1>2, <2>1, EmptyList DEF Added, IsParsed
<1>16. Added(q, type, s) = SheetAdds(file[s], type)
  BY <1>2, AddedBySheet
<1> HIDE DEF p, q, N
<1>6. PICK g : RecordsOfType(p, type) = g[N - 1] /\ GatheredBy(p, type, g)
  <2>1. PICK g : RecordsOfType(p, type) = g[Len(p)] /\ GatheredBy(p, type, g)
    BY <1>3, Gathers
  <2> QED BY <1>3, <2>1
<1>7. PICK h : RecordsOfType(q, type) = h[N] /\ GatheredBy(q, type, h)
  <2>1. PICK h : RecordsOfType(q, type) = h[Len(q)] /\ GatheredBy(q, type, h)
    BY <1>2, Gathers
  <2> QED BY <1>2, <2>1
<1>8. (\A n \in 0..(N - 1) : IsList(g[n])) /\ \A n \in 0..N : IsList(h[n])
  BY <1>2, <1>3, <1>6, <1>7, GatheredLists
<1>9. g[s - 1] = h[s - 1]
  <2> DEFINE m == s - 1
  <2>1. m \in Nat /\ m <= Len(p) /\ m <= Len(q) /\ Len(p) \in Nat /\ Len(q) \in Nat
    BY <1>2, <1>3
  <2>2. \A k \in 1..m : k \in 1..(N - 1) /\ k < s
    BY <1>2
  <2>3. \A k \in 1..m : Added(p, type, k) = Added(q, type, k)
    BY <1>4, <2>2
  <2> HIDE DEF m
  <2>4. g[m] = h[m]
    BY <1>6, <1>7, <2>1, <2>3, GatheredAlike
  <2> QED BY <2>4 DEF m
<1> DEFINE Kept(a, b) == Embedded(a, b) /\ (Added(q, type, s) = <<>> => a = b)
           T == {n \in Nat : s - 1 <= n /\ n <= N - 1 => Kept(g[n], h[n + 1])}
<1>10. Kept(g[s - 1], h[s])
  <2>1. h[s] = h[s - 1] \o Added(q, type, s)
    BY <1>2, <1>7 DEF GatheredBy
  <2>2. s - 1 \in 0..N /\ s - 1 \in 0..(N - 1)
    BY <1>2
  <2>3. IsList(g[s - 1]) /\ IsList(h[s - 1]) /\ IsList(Added(q, type, s))
    BY <1>2, <1>5, <1>8, <2>2
  <2>4. Embedded(g[s - 1], h[s - 1])
    BY <1>9, EmbeddedInItself
  <2>5. Embedded(g[s - 1], h[s])
    BY <2>1, <2>3, <2>4, EmbeddedInLonger
  <2>6. Added(q, type, s) = <<>> => g[s - 1] = h[s]
    BY <1>9, <2>1, <2>3, EmptyList
  <2> QED BY <2>5, <2>6
<1> HIDE DEF Kept
<1>11. 0 \in T
  <2>1. s - 1 <= 0 => s - 1 = 0 /\ s = 0 + 1
    BY <1>2
  <2> QED BY <1>10, <2>1
<1>12. ASSUME NEW n \in T, n < N - 1 PROVE n + 1 \in T
  <2>1. n \in Nat
    OBVIOUS
  <2>2. CASE s - 1 <= n
    <3>1. Kept(g[n], h[n + 1])
      BY <1>2, <1>12, <2>1, <2>2
    <3>2. /\ n + 1 \in 1..(N - 1) /\ (n + 1) - 1 = n /\ ~(n + 1 < s) /\ n + 2 \in 1..N
          /\ (n + 2) - 1 = n + 1 /\ (n + 1) + 1 = n + 2 /\ n \in 0..(N - 1) /\ n + 1 \in 0..N
      BY <1>2, <1>12, <2>1, <2>2
    <3>3. g[n + 1] = g[n] \o Added(p, type, n + 1)
      BY <1>3, <1>6, <3>2 DEF GatheredBy
    <3>4. h[n + 2] = h[n + 1] \o Added(q, type, n + 2)
      BY <1>2, <1>7, <3>2 DEF GatheredBy
    <3>5. Added(p, type, n + 1) = Added(q, type, n + 2)
      BY <1>4, <3>2
    <3>6. IsList(g[n]) /\ IsList(h[n + 1]) /\ IsList(Added(q, type, n + 2))
      BY <1>5, <1>8, <3>2
    <3>7. Embedded(g[n + 1], h[n + 2])
      BY <3>1, <3>3, <3>4, <3>5, <3>6, EmbeddedWithMore DEF Kept
    <3>8. Kept(g[n + 1], h[n + 2])
      BY <3>1, <3>3, <3>4, <3>5, <3>7 DEF Kept
    <3> QED BY <2>1, <3>2, <3>8
  <2>3. CASE ~(s - 1 <= n)
    <3>1. s - 1 <= n + 1 => n + 1 = s - 1 /\ (n + 1) + 1 = s
      BY <1>2, <2>1, <2>3
    <3> QED BY <1>10, <2>1, <3>1
  <2> QED BY <2>2, <2>3
<1> HIDE DEF T
<1>13. 0..(N - 1) \subseteq T
  <2> DEFINE m == N - 1
  <2>1. T \in SUBSET Nat
    BY DEF T
  <2>2. m \in Nat /\ \A n \in T : n < m => n + 1 \in T
    BY <1>3, <1>12
  <2> HIDE DEF m
  <2>3. 0..m \subseteq T
    BY <1>11, <2>1, <2>2, InductiveTo
  <2> QED BY <2>3 DEF m
<1>14. Kept(g[N - 1], h[N])
  <2>1. N - 1 \in 0..(N - 1) /\ s - 1 <= N - 1 /\ (N - 1) + 1 = N
    BY <1>2, <1>3
  <2>2. N - 1 \in T
    BY <1>13, <2>1
  <2> QED BY <2>1, <2>2 DEF T
<1>15. Kept(RecordsOfType(p, type), RecordsOfType(q, type))
  BY <1>6, <1>7, <1>14
<1> QED BY <1>15, <1>16 DEF Kept, p, q, rest

\* A finding is as bad as another when it is of every upper part of the levels
\* that the other is of.
Uppers == {{"CRITICAL"}, {"CRITICAL", "HIGH"}, {"CRITICAL", "HIGH", "MEDIUM"}, RiskLevels}
AsBad(f, g) == \A upper \in Uppers : f.risk_level \in upper => g.risk_level \in upper

\* ... and covers it when it is also of the same kind, about the same user.
Covers(f, g) ==
  /\ g.area = f.area /\ g.type = f.type /\ AsBad(f, g)
  /\ f.area \in {"ITGC-SOD", "ITGC-LA"} => g.subject = f.subject

\* Every finding of the one set is covered by a finding of the other, each by
\* one of its own.
Dominates(w, S, T) == w \in Injection(S, T) /\ \A f \in S : Covers(f, w[f])
Dominated(S, T) == \E w : Dominates(w, S, T)

\* A row, or group of rows, has at most one finding of a kind.
OnePerRow(S) ==
  \A f, g \in S : f.area = g.area /\ f.row = g.row /\ f.type = g.type => f = g
\* The findings of two sets are of different kinds.
Apart(S, T) == \A f \in S, g \in T : f.area # g.area \/ f.type # g.type

\* More findings cover fewer.
LEMMA DominatedSubset == ASSUME NEW S, NEW T, S \subseteq T PROVE Dominated(S, T)
<1> DEFINE w == [f \in S |-> f]
<1>1. Dominates(w, S, T)
  BY DEF Dominates, Covers, AsBad, Injection
<1> QED BY <1>1 DEF Dominated

\* Findings are told apart by their rows.
LEMMA DominatedByRows ==
  ASSUME NEW S, NEW T, OnePerRow(S), \A f \in S : \E g \in T : g.row = f.row /\ Covers(f, g)
  PROVE  Dominated(S, T)
<1> DEFINE w == [f \in S |-> CHOOSE g \in T : g.row = f.row /\ Covers(f, g)]
<1>1. \A f \in S : w[f] \in T /\ w[f].row = f.row /\ Covers(f, w[f])
  OBVIOUS
<1>2. w = [f \in S |-> w[f]]
  OBVIOUS
<1> HIDE DEF w
<1>3. ASSUME NEW f \in S, NEW g \in S, w[f] = w[g] PROVE f = g
  BY <1>1, <1>3 DEF Covers, OnePerRow
<1>4. Dominates(w, S, T)
  BY <1>1, <1>2, <1>3 DEF Dominates, Injection
<1> QED BY <1>4 DEF Dominated

\* A family of sets of findings, each of kinds of its own.
UnionOf(D, S) == UNION {S[d] : d \in D}
AllApart(D, S) == \A d, e \in D : d # e => Apart(S[d], S[e])

\* Sets of different kinds cover what each of them covers,
LEMMA DominatedUnion ==
  ASSUME NEW D, NEW S, NEW T, AllApart(D, S), \A d \in D : Dominated(S[d], T[d])
  PROVE  Dominated(UnionOf(D, S), UnionOf(D, T))
<1> USE DEF UnionOf, AllApart
<1> DEFINE U == UNION {S[d] : d \in D}
           V == UNION {T[d] : d \in D}
           v == [d \in D |-> CHOOSE w : Dominates(w, S[d], T[d])]
           Of(f) == CHOOSE d \in D : f \in S[d]
           w == [f \in U |-> v[Of(f)][f]]
<1>1. ASSUME NEW d \in D PROVE Dominates(v[d], S[d], T[d])
  <2>1. \E x : Dominates(x, S[d], T[d])
    BY DEF Dominated
  <2> QED BY <2>1, Zenon
<1>2. \A f \in U : Of(f) \in D /\ f \in S[Of(f)]
  OBVIOUS
<1> HIDE DEF v, Of
<1>3. ASSUME NEW f \in U PROVE w[f] = v[Of(f)][f] /\ w[f] \in T[Of(f)] /\ Covers(f, w[f])
  <2>1. Dominates(v[Of(f)], S[Of(f)], T[Of(f)])
    BY <1>1, <1>2
  <2> QED BY <1>2, <2>1 DEF Dominates, Injection
<1>4. w \in [U -> V]
  <2>1. ASSUME NEW f \in U PROVE w[f] \in V
    <3>1. Of(f) \in D /\ w[f] \in T[Of(f)]
      BY <1>2, <1>3
    <3> HIDE DEF w
    <3> QED BY <3>1
  <2> HIDE DEF U, V
  <2> QED BY <2>1
<1> HIDE DEF w
<1>5. ASSUME NEW f \in U, NEW g \in U, w[f] = w[g] PROVE f = g
  <2>1. f.area = g.area /\ f.type = g.type
    BY <1>3, <1>5 DEF Covers
  <2>2. Of(f) = Of(g)
    BY <1>2, <2>1 DEF Apart
  <2>3. Dominates(v[Of(f)], S[Of(f)], T[Of(f)])
    BY <1>1, <1>2
  <2>4. v[Of(f)][f] = v[Of(f)][g] /\ f \in S[Of(f)] /\ g \in S[Of(f)]
    BY <1>2, <1>3, <1>5, <2>2
  <2> QED BY <2>3, <2>4 DEF Dominates, Injection
<1> HIDE DEF U, V
<1>6. Dominates(w, U, V)
  BY <1>3, <1>4, <1>5 DEF Dominates, Injection
<1> QED BY <1>6 DEF Dominated, U, V

\* ... also two of them,
LEMMA DominatedBoth ==
  ASSUME NEW A, NEW B, NEW C, NEW D, Dominated(A, C), Dominated(B, D), Apart(A, B)
  PROVE  Dominated(A \cup B, C \cup D)
<1> DEFINE two == {1, 2}
           S == [d \in two |-> IF d = 1 THEN A ELSE B]
           T == [d \in two |-> IF d = 1 THEN C ELSE D]
<1>1. S[1] = A /\ S[2] = B /\ T[1] = C /\ T[2] = D
  OBVIOUS
<1> HIDE DEF S, T
<1>2. Apart(B, A)
  BY DEF Apart
<1>3. \A d \in two : Dominated(S[d], T[d])
  BY <1>1
<1>4. AllApart(two, S)
  BY <1>1, <1>2 DEF AllApart
<1>5. UnionOf(two, S) = A \cup B /\ UnionOf(two, T) = C \cup D
  BY <1>1 DEF UnionOf
<1> HIDE DEF two
<1> QED BY <1>3, <1>4, <1>5, DominatedUnion

\* ... and have one finding per row if each of them has.
LEMMA OnePerRowUnion ==
  ASSUME NEW D, NEW S, AllApart(D, S), \A d \in D : OnePerRow(S[d])
  PROVE  OnePerRow(UnionOf(D, S))
<1> USE DEF UnionOf, AllApart
<1> SUFFICES ASSUME NEW d \in D, NEW f \in S[d], NEW e \in D, NEW g \in S[e],
                    f.area = g.area, f.row = g.row, f.type = g.type
             PROVE  f = g
  BY DEF OnePerRow
<1>1. d = e
  BY DEF Apart
<1> QED BY <1>1 DEF OnePerRow

\* ... of two sets as well.
LEMMA OnePerRowBoth ==
  ASSUME NEW A, NEW B, OnePerRow(A), OnePerRow(B), Apart(A, B) PROVE OnePerRow(A \cup B)
BY DEF OnePerRow, Apart

\* There are no fewer findings of an upper part of the levels,
LEMMA DominatedCounts ==
  ASSUME NEW S, NEW T, Dominated(S, T), IsFiniteSet(T), NEW upper \in Uppers
  PROVE  Cardinality({f \in S : f.risk_level \in upper}) <= Cardinality({f \in T : f.risk_level \in upper})
<1> DEFINE A == {f \in S : f.risk_level \in upper}
           B == {f \in T : f.risk_level \in upper}
<1>1. PICK w : Dominates(w, S, T)
  BY DEF Dominated
<1> DEFINE v == [f \in A |-> w[f]]
<1>2. \A f \in A : v[f] \in B
  BY <1>1 DEF Dominates, Injection, Covers, AsBad
<1>3. \A f, g \in A : v[f] = v[g] => f = g
  BY <1>1 DEF Dominates, Injection
<1>4. v = [f \in A |-> v[f]]
  OBVIOUS
<1>5. IsFiniteSet(B)
  BY FS_Subset
<1> HIDE DEF v, A, B
<1>6. v \in Injection(A, B)
  BY <1>2, <1>3, <1>4 DEF Injection
<1>7. Cardinality(A) <= Cardinality(B)
  BY <1>5, <1>6, FS_Injection
<1> QED BY <1>7 DEF A, B

\* The levels of a set of findings, counted from the worst down.
AtLeast(S, upper) == Cardinality({f \in S : f.risk_level \in upper})

\* ... so that its score is computed from four counts that only grow.
LEMMA RawScore ==
  ASSUME NEW S, IsFiniteSet(S)
  PROVE  LET c == ByRisk(S).CRITICAL
             h == ByRisk(S).HIGH
             m == ByRisk(S).MEDIUM
             l == ByRisk(S).LOW
         IN /\ c \in Nat /\ h \in Nat /\ m \in Nat /\ l \in Nat
            /\ AtLeast(S, {"CRITICAL"}) = c
            /\ AtLeast(S, {"CRITICAL", "HIGH"}) = c + h
            /\ AtLeast(S, {"CRITICAL", "HIGH", "MEDIUM"}) = c + h + m
            /\ AtLeast(S, RiskLevels) = c + h + m + l
<1> DEFINE Of(risk) == {f \in S : f.risk_level = risk}
           Up(upper) == {f \in S : f.risk_level \in upper}
<1>1. /\ ByRisk(S).CRITICAL = Cardinality(Of("CRITICAL")) /\ ByRisk(S).HIGH = Cardinality(Of("HIGH"))
      /\ ByRisk(S).MEDIUM = Cardinality(Of("MEDIUM")) /\ ByRisk(S).LOW = Cardinality(Of("LOW"))
  BY DEF ByRisk, RiskLevels
<1>2. \A risk : IsFiniteSet(Of(risk)) /\ Cardinality(Of(risk)) \in Nat
  <2>1. ASSUME NEW risk PROVE IsFiniteSet(Of(risk))
    BY FS_Subset
  <2> QED BY <2>1, FS_CardinalityType
<1>3. \A upper : IsFiniteSet(Up(upper)) /\ Cardinality(Up(upper)) \in Nat
  <2>1. ASSUME NEW upper PROVE IsFiniteSet(Up(upper))
    BY FS_Subset
  <2> QED BY <2>1, FS_CardinalityType
<1>4. ASSUME NEW upper, NEW risk, risk \notin upper
      PROVE  Cardinality(Up(upper \cup {risk})) = Cardinality(Up(upper)) + Cardinality(Of(risk))
  <2> DEFINE x == Up(upper)
             y == Of(risk)
  <2>1. Up(upper \cup {risk}) = x \cup y /\ x \cap y = {}
    BY <1>4
  <2>2. IsFiniteSet(x) /\ IsFiniteSet(y) /\ Cardinality(x) \in Nat /\ Cardinality(y) \in Nat
    BY <1>2, <1>3
  <2> HIDE DEF x, y
  <2>3. Cardinality(x \cup y) = Cardinality(x) + Cardinality(y) - Cardinality(x \cap y)
    BY <2>2, FS_Union
  <2>4. Cardinality(x \cap y) = 0
    BY <2>1, FS_EmptySet
  <2>5. Cardinality(x \cup y) = Cardinality(x) + Cardinality(y)
    BY <2>2, <2>3, <2>4
  <2> QED BY <2>1, <2>5 DEF x, y
<1>5. Up({"CRITICAL"}) = Of("CRITICAL")
  OBVIOUS
<1>6. {"CRITICAL", "HIGH"} = {"CRITICAL"} \cup {"HIGH"}
      /\ {"CRITICAL", "HIGH", "MEDIUM"} = {"CRITICAL", "HIGH"} \cup {"MEDIUM"}
      /\ RiskLevels = {"CRITICAL", "HIGH", "MEDIUM"} \cup {"LOW"}
  BY DEF RiskLevels
<1>7. \A upper : AtLeast(S, upper) = Cardinality(Up(upper))
  BY DEF AtLeast
<1> HIDE DEF Up, Of
<1>8. /\ Cardinality(Up({"CRITICAL", "HIGH"})) = Cardinality(Up({"CRITICAL"})) + Cardinality(Of("HIGH"))
      /\ Cardinality(Up({"CRITICAL", "HIGH", "MEDIUM"}))
           = Cardinality(Up({"CRITICAL", "HIGH"})) + Cardinality(Of("MEDIUM"))
      /\ Cardinality(Up(RiskLevels)) = Cardinality(Up({"CRITICAL", "HIGH", "MEDIUM"})) + Cardinality(Of("LOW"))
  BY <1>4, <1>6
<1> QED BY <1>1, <1>2, <1>5, <1>7, <1>8

\* The weighted sum, from those counts.
Weighed(by_risk) == 40 * by_risk.CRITICAL + 20 * by_risk.HIGH + 8 * by_risk.MEDIUM + 2 * by_risk.LOW
\* ... and the score, from the sum.
Cut(raw) == LET cut == IF raw \in {58, 114, 116} THEN raw \div 2 - 1 ELSE raw \div 2
            IN IF cut > 100 THEN 100 ELSE cut

\* Cutting the sum keeps the order, for all its odd values.
LEMMA CutKeepsOrder == ASSUME NEW a \in Nat, NEW b \in Nat, a <= b PROVE Cut(a) <= Cut(b)
<1> DEFINE C(n) == IF n \in {58, 114, 116} THEN n \div 2 - 1 ELSE n \div 2
<1>1. C(a) <= C(b)
  <2>1. CASE b \notin {58, 114, 116}
    BY <2>1
  <2>2. CASE b = 58
    BY <2>2
  <2>3. CASE b = 114
    BY <2>3
  <2>4. CASE b = 116
    BY <2>4
  <2> QED BY <2>1, <2>2, <2>3, <2>4
<1>2. C(a) \in Int /\ C(b) \in Int
  OBVIOUS
<1>3. Cut(a) = (IF C(a) > 100 THEN 100 ELSE C(a)) /\ Cut(b) = (IF C(b) > 100 THEN 100 ELSE C(b))
  BY DEF Cut
<1> HIDE DEF C
<1> QED BY <1>1, <1>2, <1>3

\* Covered findings score no more.
LEMMA DominatedScore ==
  ASSUME NEW S, IsFiniteSet(S), NEW T, IsFiniteSet(T), Dominated(S, T)
  PROVE  ComputeRiskScore(ByRisk(S)) <= ComputeRiskScore(ByRisk(T))
<1> DEFINE a == ByRisk(S)
           b == ByRisk(T)
<1>1. \A upper \in Uppers : AtLeast(S, upper) <= AtLeast(T, upper)
  BY DominatedCounts DEF AtLeast
<1>2. /\ a.CRITICAL \in Nat /\ a.HIGH \in Nat /\ a.MEDIUM \in Nat /\ a.LOW \in Nat
      /\ AtLeast(S, {"CRITICAL"}) = a.CRITICAL
      /\ AtLeast(S, {"CRITICAL", "HIGH"}) = a.CRITICAL + a.HIGH
      /\ AtLeast(S, {"CRITICAL", "HIGH", "MEDIUM"}) = a.CRITICAL + a.HIGH + a.MEDIUM
      /\ AtLeast(S, RiskLevels) = a.CRITICAL + a.HIGH + a.MEDIUM + a.LOW
  BY RawScore
<1>3. /\ b.CRITICAL \in Nat /\ b.HIGH \in Nat /\ b.MEDIUM \in Nat /\ b.LOW \in Nat
      /\ AtLeast(T, {"CRITICAL"}) = b.CRITICAL
      /\ AtLeast(T, {"CRITICAL", "HIGH"}) = b.CRITICAL + b.HIGH
      /\ AtLeast(T, {"CRITICAL", "HIGH", "MEDIUM"}) = b.CRITICAL + b.HIGH + b.MEDIUM
      /\ AtLeast(T, RiskLevels) = b.CRITICAL + b.HIGH + b.MEDIUM + b.LOW
  BY RawScore
<1>4. /\ AtLeast(S, {"CRITICAL"}) <= AtLeast(T, {"CRITICAL"})
      /\ AtLeast(S, {"CRITICAL", "HIGH"}) <= AtLeast(T, {"CRITICAL", "HIGH"})
      /\ AtLeast(S, {"CRITICAL", "HIGH", "MEDIUM"}) <= AtLeast(T, {"CRITICAL", "HIGH", "MEDIUM"})
      /\ AtLeast(S, RiskLevels) <= AtLeast(T, RiskLevels)
  BY <1>1 DEF Uppers
<1>5. ComputeRiskScore(a) = Cut(Weighed(a)) /\ ComputeRiskScore(b) = Cut(Weighed(b))
  BY DEF ComputeRiskScore, Cut, Weighed
<1> HIDE DEF a, b
<1>6. Weighed(a) \in Nat /\ Weighed(b) \in Nat /\ Weighed(a) <= Weighed(b)
  BY <1>2, <1>3, <1>4 DEF Weighed
<1>7. Cut(Weighed(a)) <= Cut(Weighed(b))
  BY <1>6, CutKeepsOrder
<1> QED BY <1>5, <1>7 DEF a, b

\* A test of one row raises findings with the levels of their types, and the
\* same ones for the same row at another place.
Alike(S, T, area, k, n, subject, levels) ==
  \A f \in S : /\ f.type \in DOMAIN levels
               /\ f = Finding(area, Row(k), subject, f.type, levels[f.type])
               /\ Finding(area, Row(n), subject, f.type, levels[f.type]) \in T

\* So does every check of a test,
LEMMA AlikeIf ==
  ASSUME NEW area, NEW k, NEW n, NEW subject, NEW levels, NEW fails,
         NEW type \in DOMAIN levels, NEW risk, risk = levels[type]
  PROVE  Alike(RaiseIf(fails, Finding(area, Row(k), subject, type, risk)),
               RaiseIf(fails, Finding(area, Row(n), subject, type, risk)), area, k, n, subject, levels)
<1> DEFINE f == Finding(area, Row(k), subject, type, risk)
           g == Finding(area, Row(n), subject, type, risk)
<1>1. f.type = type
  BY DEF Finding
<1>2. f = Finding(area, Row(k), subject, f.type, levels[f.type])
      /\ g = Finding(area, Row(n), subject, f.type, levels[f.type])
  BY <1>1, Zenon
<1> HIDE DEF f, g
<1>3. Alike(RaiseIf(fails, f), RaiseIf(fails, g), area, k, n, subject, levels)
  BY <1>1, <1>2 DEF Alike, RaiseIf
<1> QED BY <1>3 DEF f, g

\* ... and so do the checks together.
LEMMA AlikeUnion ==
  ASSUME NEW S, NEW T, NEW U, NEW V, NEW area, NEW k, NEW n, NEW subject, NEW levels,
         Alike(S, T, area, k, n, subject, levels), Alike(U, V, area, k, n, subject, levels)
  PROVE  Alike(S \cup U, T \cup V, area, k, n, subject, levels)
BY DEF Alike

\* Such a test of all rows covers the findings of fewer rows,
LEMMA RowsDominated ==
  ASSUME NEW less, NEW more, NEW m, Embeds(m, less, more), NEW area, NEW F, NEW G,
         \A k \in DOMAIN less :
           \E subject, levels : Alike(F[k], G[m[k]], area, k, m[k], subject, levels)
  PROVE  Dominated(UnionOf(DOMAIN less, F), UnionOf(DOMAIN more, G))
<1> DEFINE S == UnionOf(DOMAIN less, F)
           T == UnionOf(DOMAIN more, G)
           w == [f \in S |-> Finding(f.area, Row(m[f.row[2]]), f.subject, f.type, f.risk_level)]
<1>1. \A k, j \in DOMAIN less : m[k] \in DOMAIN more /\ (m[k] = m[j] => k = j)
  BY DEF Embeds, Injection
<1>2. ASSUME NEW f \in S
      PROVE  /\ w[f] = Finding(f.area, Row(m[f.row[2]]), f.subject, f.type, f.risk_level)
             /\ w[f] \in T /\ f.row[2] \in DOMAIN less /\ f.row = Row(f.row[2]) /\ IsFinding(f)
  <2>1. PICK k \in DOMAIN less : f \in F[k]
    BY DEF UnionOf
  <2>2. PICK subject, levels : Alike(F[k], G[m[k]], area, k, m[k], subject, levels)
    OBVIOUS
  <2>3. /\ f = Finding(area, Row(k), subject, f.type, levels[f.type])
        /\ Finding(area, Row(m[k]), subject, f.type, levels[f.type]) \in G[m[k]]
    BY <2>1, <2>2 DEF Alike
  <2>4. f.area = area /\ f.row = Row(k) /\ f.subject = subject /\ f.risk_level = levels[f.type]
    BY <2>3 DEF Finding
  <2>5. f.row[2] = k
    BY <2>4 DEF Row
  <2>6. w[f] = Finding(f.area, Row(m[k]), f.subject, f.type, f.risk_level)
    BY <2>5
  <2> HIDE DEF w
  <2>7. w[f] \in T
    BY <1>1, <2>3, <2>4, <2>6 DEF UnionOf
  <2>8. IsFinding(f)
    BY <2>3, <2>4 DEF IsFinding
  <2> QED BY <2>4, <2>5, <2>6, <2>7, <2>8
<1>3. w = [f \in S |-> w[f]]
  OBVIOUS
<1> HIDE DEF w, S, T
<1>4. ASSUME NEW f \in S PROVE Covers(f, w[f]) /\ w[f].row[2] = m[f.row[2]]
  <2>1. w[f] = Finding(f.area, Row(m[f.row[2]]), f.subject, f.type, f.risk_level)
    BY <1>2
  <2>2. /\ w[f].area = f.area /\ w[f].row = Row(m[f.row[2]]) /\ w[f].subject = f.subject
        /\ w[f].type = f.type /\ w[f].risk_level = f.risk_level
    BY <2>1 DEF Finding
  <2>3. w[f].row[2] = m[f.row[2]]
    BY <2>2 DEF Row
  <2> QED BY <2>2, <2>3 DEF Covers, AsBad
<1>5. ASSUME NEW f \in S, NEW g \in S, w[f] = w[g] PROVE f = g
  <2>1. m[f.row[2]] = m[g.row[2]]
    BY <1>4, <1>5
  <2>2. f.row[2] = g.row[2]
    BY <1>1, <1>2, <2>1
  <2>3. f.row = g.row
    BY <1>2, <2>2
  <2>4. f.area = g.area /\ f.subject = g.subject /\ f.type = g.type /\ f.risk_level = g.risk_level
    <3>1. Finding(f.area, Row(m[f.row[2]]), f.subject, f.type, f.risk_level)
            = Finding(g.area, Row(m[g.row[2]]), g.subject, g.type, g.risk_level)
      BY <1>2, <1>5
    <3> QED BY <3>1 DEF Finding
  <2> QED BY <1>2, <2>3, <2>4 DEF IsFinding
<1>6. Dominates(w, S, T)
  BY <1>2, <1>3, <1>4, <1>5 DEF Dominates, Injection
<1> QED BY <1>6 DEF Dominated, S, T

\* ... and finds one thing of a kind in each row, at most.
LEMMA OnePerRowOfRows ==
  ASSUME NEW rows, NEW area, NEW F,
         \A k \in DOMAIN rows : \E subject, levels : Alike(F[k], F[k], area, k, k, subject, levels)
  PROVE  OnePerRow(UnionOf(DOMAIN rows, F))
<1> SUFFICES ASSUME NEW k \in DOMAIN rows, NEW f \in F[k], NEW n \in DOMAIN rows, NEW g \in F[n],
                    f.row = g.row, f.type = g.type
             PROVE  f = g
  BY DEF OnePerRow, UnionOf
<1>1. PICK subject, levels : Alike(F[k], F[k], area, k, k, subject, levels)
  OBVIOUS
<1>2. \E other, others : Alike(F[n], F[n], area, n, n, other, others)
  OBVIOUS
<1>3. f = Finding(area, Row(k), subject, f.type, levels[f.type])
  BY <1>1 DEF Alike
<1>4. PICK other, risk : g = Finding(area, Row(n), other, g.type, risk)
  BY <1>2 DEF Alike
<1>5. k = n
  <2>1. f.row = Row(k) /\ g.row = Row(n)
    <3>1. f.row = Row(k)
      BY <1>3 DEF Finding
    <3>2. g.row = Row(n)
      BY <1>4 DEF Finding
    <3> QED BY <3>1, <3>2
  <2>2. Row(k) = Row(n)
    BY <2>1
  <2>3. Row(k)[2] = k /\ Row(n)[2] = n
    BY DEF Row
  <2> QED BY <2>2, <2>3
<1>6. g = Finding(area, Row(k), subject, g.type, levels[g.type])
  BY <1>1, <1>5 DEF Alike
<1> QED BY <1>3, <1>6

\* The levels of the types of findings of each test of one row.
AccessLevels(user) ==
  [TERMINATED_USER_ACTIVE |-> "CRITICAL",
   DORMANT_ACCOUNT |-> IF IsPrivileged(user.roles) THEN "HIGH" ELSE "MEDIUM",
   PRIVILEGED_NO_MFA |-> "CRITICAL", GENERIC_SHARED_ACCOUNT |-> "HIGH",
   ACCESS_REVIEW_OVERDUE |-> "MEDIUM", ACCESS_REVIEW_MISSING |-> "MEDIUM",
   EXCESSIVE_PRIVILEGE |-> "HIGH"]
ChangeLevels(change) ==
  [NO_APPROVAL |-> IF IsProd(change) THEN "CRITICAL" ELSE "HIGH", SELF_APPROVED |-> "CRITICAL",
   EMERGENCY_NO_PIR |-> "HIGH", NO_TEST_EVIDENCE |-> "HIGH", OUTSIDE_CHANGE_WINDOW |-> "MEDIUM"]
BackupLevels == [BACKUP_FAILURE |-> "CRITICAL", BACKUP_OVERDUE |-> "HIGH", BACKUP_NOT_VERIFIED |-> "MEDIUM"]
IncidentLevels == [P1_RESPONSE_BREACH |-> "HIGH", P1_UNRESOLVED |-> "CRITICAL"]
DrLevels == [DR_TEST_FAILED |-> "CRITICAL", RTO_NOT_MET |-> "HIGH"]
InvoiceLevels ==
  [THREE_WAY_MATCH_BYPASS |-> "CRITICAL", THREE_WAY_MATCH_VARIANCE |-> "HIGH",
   THREE_WAY_QUANTITY_MISMATCH |-> "HIGH", THREE_WAY_PRICE_VARIANCE |-> "HIGH",
   APPROVAL_LIMIT_BREACH |-> "CRITICAL", APPROVAL_LEVEL_UNCLEAR |-> "HIGH"]
InterfaceLevels ==
  [INTERFACE_FAILURE |-> "HIGH", INTERFACE_COUNT_MISMATCH |-> "HIGH", INTERFACE_AMOUNT_MISMATCH |-> "HIGH"]

\* The access tests.
LEMMA AccessAlike ==
  ASSUME NEW user, NEW k, NEW n
  PROVE  Alike(AccessFindings(Row(k), user), AccessFindings(Row(n), user), "ITGC-LA", k, n,
               user.user_id, AccessLevels(user))
<1> DEFINE L == AccessLevels(user)
           Raise(at, type, risk) == Finding("ITGC-LA", Row(at), user.user_id, type, risk)
           terminated == \/ user.status \in {"terminated", "inactive", "disabled"}
                         \/ Older(user.termination_date, 0)
           out == user.status \in {"terminated", "inactive", "disabled"}
           a(at) == RaiseIf(terminated /\ user.status \notin {"disabled", "inactive", "locked"},
                            Raise(at, "TERMINATED_USER_ACTIVE", "CRITICAL"))
           b(at) == RaiseIf(~out /\ Older(user.last_login_date, DormantThresholdDays),
                            Raise(at, "DORMANT_ACCOUNT", IF IsPrivileged(user.roles) THEN "HIGH" ELSE "MEDIUM"))
           c(at) == RaiseIf(IsPrivileged(user.roles) /\ user.mfa_enabled # "yes",
                            Raise(at, "PRIVILEGED_NO_MFA", "CRITICAL"))
           d(at) == RaiseIf(/\ user.user_id \in GenericAccounts /\ user.roles # {}
                            /\ user.status \notin {"disabled", "inactive"},
                            Raise(at, "GENERIC_SHARED_ACCOUNT", "HIGH"))
           e(at) == RaiseIf(Older(user.access_review_date, ReviewCycleDays),
                            Raise(at, "ACCESS_REVIEW_OVERDUE", "MEDIUM"))
           g(at) == RaiseIf(~Parsed(user.access_review_date) /\ user.status \notin {"terminated", "disabled"},
                            Raise(at, "ACCESS_REVIEW_MISSING", "MEDIUM"))
           h(at) == RaiseIf(Cardinality(user.roles \cap PrivilegedRoles) > MaxPrivileged,
                            Raise(at, "EXCESSIVE_PRIVILEGE", "HIGH"))
           ab(at) == a(at) \cup b(at)
           abc(at) == ab(at) \cup c(at)
           abcd(at) == abc(at) \cup d(at)
           abcde(at) == abcd(at) \cup e(at)
           abcdeg(at) == abcde(at) \cup g(at)
           abcdegh(at) == abcdeg(at) \cup h(at)
<1>1. ASSUME NEW at PROVE AccessFindings(Row(at), user) = abcdegh(at)
  <2>1. AccessFindings(Row(at), user) = UNION {a(at), b(at), c(at), d(at), e(at), g(at), h(at)}
    BY Zenon DEF AccessFindings
  <2> HIDE DEF a, b, c, d, e, g, h
  <2> QED BY <2>1
<1>2. Alike(a(k), a(n), "ITGC-LA", k, n, user.user_id, L)
  <2>1. "TERMINATED_USER_ACTIVE" \in DOMAIN L /\ L["TERMINATED_USER_ACTIVE"] = "CRITICAL"
    BY DEF AccessLevels
  <2> HIDE DEF L
  <2> QED BY <2>1, AlikeIf
<1>3. Alike(b(k), b(n), "ITGC-LA", k, n, user.user_id, L)
  <2>1. "DORMANT_ACCOUNT" \in DOMAIN L /\ L["DORMANT_ACCOUNT"] = IF IsPrivileged(user.roles) THEN "HIGH" ELSE "MEDIUM"
    BY DEF AccessLevels
  <2> HIDE DEF L
  <2> QED BY <2>1, AlikeIf
<1>4. Alike(c(k), c(n), "ITGC-LA", k, n, user.user_id, L)
  <2>1. "PRIVILEGED_NO_MFA" \in DOMAIN L /\ L["PRIVILEGED_NO_MFA"] = "CRITICAL"
    BY DEF AccessLevels
  <2> HIDE DEF L
  <2> QED BY <2>1, AlikeIf
<1>5. Alike(d(k), d(n), "ITGC-LA", k, n, user.user_id, L)
  <2>1. "GENERIC_SHARED_ACCOUNT" \in DOMAIN L /\ L["GENERIC_SHARED_ACCOUNT"] = "HIGH"
    BY DEF AccessLevels
  <2> HIDE DEF L
  <2> QED BY <2>1, AlikeIf
<1>6. Alike(e(k), e(n), "ITGC-LA", k, n, user.user_id, L)
  <2>1. "ACCESS_REVIEW_OVERDUE" \in DOMAIN L /\ L["ACCESS_REVIEW_OVERDUE"] = "MEDIUM"
    BY DEF AccessLevels
  <2> HIDE DEF L
  <2> QED BY <2>1, AlikeIf
<1>7. Alike(g(k), g(n), "ITGC-LA", k, n, user.user_id, L)
  <2>1. "ACCESS_REVIEW_MISSING" \in DOMAIN L /\ L["ACCESS_REVIEW_MISSING"] = "MEDIUM"
    BY DEF AccessLevels
  <2> HIDE DEF L
  <2> QED BY <2>1, AlikeIf
<1>8. Alike(h(k), h(n), "ITGC-LA", k, n, user.user_id, L)
  <2>1. "EXCESSIVE_PRIVILEGE" \in DOMAIN L /\ L["EXCESSIVE_PRIVILEGE"] = "HIGH"
    BY DEF AccessLevels
  <2> HIDE DEF L
  <2> QED BY <2>1, AlikeIf
<1> HIDE DEF a, b, c, d, e, g, h, L
<1>9. Alike(ab(k), ab(n), "ITGC-LA", k, n, user.user_id, L)
  BY <1>2, <1>3, AlikeUnion
<1>10. Alike(abc(k), abc(n), "ITGC-LA", k, n, user.user_id, L)
  BY <1>9, <1>4, AlikeUnion
<1>11. Alike(abcd(k), abcd(n), "ITGC-LA", k, n, user.user_id, L)
  BY <1>10, <1>5, AlikeUnion
<1>12. Alike(abcde(k), abcde(n), "ITGC-LA", k, n, user.user_id, L)
  BY <1>11, <1>6, AlikeUnion
<1>13. Alike(abcdeg(k), abcdeg(n), "ITGC-LA", k, n, user.user_id, L)
  BY <1>12, <1>7, AlikeUnion
<1>14. Alike(abcdegh(k), abcdegh(n), "ITGC-LA", k, n, user.user_id, L)
  BY <1>13, <1>8, AlikeUnion
<1> QED BY <1>1, <1>14 DEF L

\* The tests of a change.
LEMMA ChangeAlike ==
  ASSUME NEW change, NEW k, NEW n
  PROVE  Alike(ChangeFindings(Row(k), change), ChangeFindings(Row(n), change), "ITGC-CM", k, n,
               change.ticket_id, ChangeLevels(change))
<1> DEFINE L == ChangeLevels(change)
           Raise(at, type, risk) == Finding("ITGC-CM", Row(at), change.ticket_id, type, risk)
           a(at) == RaiseIf(change.approver = "",
                            Raise(at, "NO_APPROVAL", IF IsProd(change) THEN "CRITICAL" ELSE "HIGH"))
           b(at) == RaiseIf(change.approver # "" /\ change.initiator = change.approver,
                            Raise(at, "SELF_APPROVED", "CRITICAL"))
           c(at) == RaiseIf(change.change_type = "emergency" /\ change.post_impl_review # "yes",
                            Raise(at, "EMERGENCY_NO_PIR", "HIGH"))
           d(at) == RaiseIf(/\ IsProd(change) /\ change.test_evidence # "yes"
                            /\ change.change_type # "standard",
                            Raise(at, "NO_TEST_EVIDENCE", "HIGH"))
           e(at) == RaiseIf(/\ IsProd(change) /\ change.implementation_hour # NoHour
                            /\ change.implementation_hour \notin ChangeWindowHours,
                            Raise(at, "OUTSIDE_CHANGE_WINDOW", "MEDIUM"))
           ab(at) == a(at) \cup b(at)
           abc(at) == ab(at) \cup c(at)
           abcd(at) == abc(at) \cup d(at)
           abcde(at) == abcd(at) \cup e(at)
<1>1. ASSUME NEW at PROVE ChangeFindings(Row(at), change) = abcde(at)
  <2>1. ChangeFindings(Row(at), change) = UNION {a(at), b(at), c(at), d(at), e(at)}
    BY Zenon DEF ChangeFindings
  <2> HIDE DEF a, b, c, d, e
  <2> QED BY <2>1
<1>2. Alike(a(k), a(n), "ITGC-CM", k, n, change.ticket_id, L)
  <2>1. "NO_APPROVAL" \in DOMAIN L /\ L["NO_APPROVAL"] = IF IsProd(change) THEN "CRITICAL" ELSE "HIGH"
    BY DEF ChangeLevels
  <2> HIDE DEF L
  <2> QED BY <2>1, AlikeIf
<1>3. Alike(b(k), b(n), "ITGC-CM", k, n, change.ticket_id, L)
  <2>1. "SELF_APPROVED" \in DOMAIN L /\ L["SELF_APPROVED"] = "CRITICAL"
    BY DEF ChangeLevels
  <2> HIDE DEF L
  <2> QED BY <2>1, AlikeIf
<1>4. Alike(c(k), c(n), "ITGC-CM", k, n, change.ticket_id, L)
  <2>1. "EMERGENCY_NO_PIR" \in DOMAIN L /\ L["EMERGENCY_NO_PIR"] = "HIGH"
    BY DEF ChangeLevels
  <2> HIDE DEF L
  <2> QED BY <2>1, AlikeIf
<1>5. Alike(d(k), d(n), "ITGC-CM", k, n, change.ticket_id, L)
  <2>1. "NO_TEST_EVIDENCE" \in DOMAIN L /\ L["NO_TEST_EVIDENCE"] = "HIGH"
    BY DEF ChangeLevels
  <2> HIDE DEF L
  <2> QED BY <2>1, AlikeIf
<1>6. Alike(e(k), e(n), "ITGC-CM", k, n, change.ticket_id, L)
  <2>1. "OUTSIDE_CHANGE_WINDOW" \in DOMAIN L /\ L["OUTSIDE_CHANGE_WINDOW"] = "MEDIUM"
    BY DEF ChangeLevels
  <2> HIDE DEF L
  <2> QED BY <2>1, AlikeIf
<1> HIDE DEF a, b, c, d, e, L
<1>7. Alike(ab(k), ab(n), "ITGC-CM", k, n, change.ticket_id, L)
  BY <1>2, <1>3, AlikeUnion
<1>8. Alike(abc(k), abc(n), "ITGC-CM", k, n, change.ticket_id, L)
  BY <1>7, <1>4, AlikeUnion
<1>9. Alike(abcd(k), abcd(n), "ITGC-CM", k, n, change.ticket_id, L)
  BY <1>8, <1>5, AlikeUnion
<1>10. Alike(abcde(k), abcde(n), "ITGC-CM", k, n, change.ticket_id, L)
  BY <1>9, <1>6, AlikeUnion
<1> QED BY <1>1, <1>10 DEF L

\* The tests of a backup.
LEMMA BackupAlike ==
  ASSUME NEW backup, NEW k, NEW n
  PROVE  Alike(BackupFindings(Row(k), backup), BackupFindings(Row(n), backup), "ITGC-OPS", k, n,
               backup.id, BackupLevels)
<1> DEFINE L == BackupLevels
           Raise(at, type, risk) == Finding("ITGC-OPS", Row(at), backup.id, type, risk)
           a(at) == RaiseIf(backup.status = "failed",
                            Raise(at, "BACKUP_FAILURE", "CRITICAL"))
           b(at) == RaiseIf(Dates(backup.backup_date) /\ backup.backup_date.age > BackupFrequencyDays,
                            Raise(at, "BACKUP_OVERDUE", "HIGH"))
           c(at) == RaiseIf(backup.restore_tested # "yes",
                            Raise(at, "BACKUP_NOT_VERIFIED", "MEDIUM"))
           ab(at) == a(at) \cup b(at)
           abc(at) == ab(at) \cup c(at)
<1>1. ASSUME NEW at PROVE BackupFindings(Row(at), backup) = abc(at)
  <2>1. BackupFindings(Row(at), backup) = UNION {a(at), b(at), c(at)}
    BY Zenon DEF BackupFindings
  <2> HIDE DEF a, b, c
  <2> QED BY <2>1
<1>2. Alike(a(k), a(n), "ITGC-OPS", k, n, backup.id, L)
  <2>1. "BACKUP_FAILURE" \in DOMAIN L /\ L["BACKUP_FAILURE"] = "CRITICAL"
    BY DEF BackupLevels
  <2> HIDE DEF L
  <2> QED BY <2>1, AlikeIf
<1>3. Alike(b(k), b(n), "ITGC-OPS", k, n, backup.id, L)
  <2>1. "BACKUP_OVERDUE" \in DOMAIN L /\ L["BACKUP_OVERDUE"] = "HIGH"
    BY DEF BackupLevels
  <2> HIDE DEF L
  <2> QED BY <2>1, AlikeIf
<1>4. Alike(c(k), c(n), "ITGC-OPS", k, n, backup.id, L)
  <2>1. "BACKUP_NOT_VERIFIED" \in DOMAIN L /\ L["BACKUP_NOT_VERIFIED"] = "MEDIUM"
    BY DEF BackupLevels
  <2> HIDE DEF L
  <2> QED BY <2>1, AlikeIf
<1> HIDE DEF a, b, c, L
<1>5. Alike(ab(k), ab(n), "ITGC-OPS", k, n, backup.id, L)
  BY <1>2, <1>3, AlikeUnion
<1>6. Alike(abc(k), abc(n), "ITGC-OPS", k, n, backup.id, L)
  BY <1>5, <1>4, AlikeUnion
<1> QED BY <1>1, <1>6 DEF L

\* The tests of an incident.
LEMMA IncidentAlike ==
  ASSUME NEW incident, NEW k, NEW n
  PROVE  Alike(IncidentFindings(Row(k), incident), IncidentFindings(Row(n), incident), "ITGC-OPS", k, n,
               incident.id, IncidentLevels)
<1> DEFINE L == IncidentLevels
           Raise(at, type, risk) == Finding("ITGC-OPS", Row(at), incident.id, type, risk)
           urgent == incident.priority = "p1" /\ incident.created_at # NoTime
           resolved == incident.resolved_at # NoTime
           a(at) == RaiseIf(/\ urgent /\ resolved
                            /\ incident.resolved_at - incident.created_at > IncidentResponseHours,
                            Raise(at, "P1_RESPONSE_BREACH", "HIGH"))
           b(at) == RaiseIf(urgent /\ ~resolved /\ incident.status \notin {"resolved", "closed", "fixed"},
                            Raise(at, "P1_UNRESOLVED", "CRITICAL"))
           ab(at) == a(at) \cup b(at)
<1>1. ASSUME NEW at PROVE IncidentFindings(Row(at), incident) = ab(at)
  <2>1. IncidentFindings(Row(at), incident) = UNION {a(at), b(at)}
    BY Zenon DEF IncidentFindings
  <2> HIDE DEF a, b
  <2> QED BY <2>1
<1>2. Alike(a(k), a(n), "ITGC-OPS", k, n, incident.id, L)
  <2>1. "P1_RESPONSE_BREACH" \in DOMAIN L /\ L["P1_RESPONSE_BREACH"] = "HIGH"
    BY DEF IncidentLevels
  <2> HIDE DEF L
  <2> QED BY <2>1, AlikeIf
<1>3. Alike(b(k), b(n), "ITGC-OPS", k, n, incident.id, L)
  <2>1. "P1_UNRESOLVED" \in DOMAIN L /\ L["P1_UNRESOLVED"] = "CRITICAL"
    BY DEF IncidentLevels
  <2> HIDE DEF L
  <2> QED BY <2>1, AlikeIf
<1> HIDE DEF a, b, L
<1>4. Alike(ab(k), ab(n), "ITGC-OPS", k, n, incident.id, L)
  BY <1>2, <1>3, AlikeUnion
<1> QED BY <1>1, <1>4 DEF L

\* The tests of a recovery test.
LEMMA DrAlike ==
  ASSUME NEW test, NEW k, NEW n
  PROVE  Alike(DrFindings(Row(k), test), DrFindings(Row(n), test), "ITGC-OPS", k, n,
               test.id, DrLevels)
<1> DEFINE L == DrLevels
           Raise(at, type, risk) == Finding("ITGC-OPS", Row(at), test.id, type, risk)
           a(at) == RaiseIf(test.result = "failed",
                            Raise(at, "DR_TEST_FAILED", "CRITICAL"))
           b(at) == RaiseIf(test.rto_met # "yes",
                            Raise(at, "RTO_NOT_MET", "HIGH"))
           ab(at) == a(at) \cup b(at)
<1>1. ASSUME NEW at PROVE DrFindings(Row(at), test) = ab(at)
  BY Zenon DEF DrFindings
<1>2. Alike(a(k), a(n), "ITGC-OPS", k, n, test.id, L)
  <2>1. "DR_TEST_FAILED" \in DOMAIN L /\ L["DR_TEST_FAILED"] = "CRITICAL"
    BY DEF DrLevels
  <2> HIDE DEF L
  <2> QED BY <2>1, AlikeIf
<1>3. Alike(b(k), b(n), "ITGC-OPS", k, n, test.id, L)
  <2>1. "RTO_NOT_MET" \in DOMAIN L /\ L["RTO_NOT_MET"] = "HIGH"
    BY DEF DrLevels
  <2> HIDE DEF L
  <2> QED BY <2>1, AlikeIf
<1> HIDE DEF a, b, L
<1>4. Alike(ab(k), ab(n), "ITGC-OPS", k, n, test.id, L)
  BY <1>2, <1>3, AlikeUnion
<1> QED BY <1>1, <1>4 DEF L

\* The approval of an invoice.
LEMMA ApprovalAlike ==
  ASSUME NEW invoice, NEW k, NEW n
  PROVE  Alike(ApprovalLimits(Row(k), invoice), ApprovalLimits(Row(n), invoice), "ITAC-AP", k, n,
               invoice.invoice_id, InvoiceLevels)
<1> DEFINE L == InvoiceLevels
           Raise(at, type, risk) == Finding("ITAC-AP", Row(at), invoice.invoice_id, type, risk)
           a(at) == RaiseIf(/\ invoice.invoice_amount > HighValueThreshold
                            /\ invoice.approver_level \notin {"vp", "director", "cfo"},
                            Raise(at, "APPROVAL_LIMIT_BREACH", "CRITICAL"))
           b(at) == RaiseIf(/\ invoice.invoice_amount > ApprovalThreshold
                            /\ invoice.invoice_amount <= HighValueThreshold
                            /\ invoice.approver_level = "",
                            Raise(at, "APPROVAL_LEVEL_UNCLEAR", "HIGH"))
           ab(at) == a(at) \cup b(at)
<1>1. ASSUME NEW at PROVE ApprovalLimits(Row(at), invoice) = ab(at)
  BY Zenon DEF ApprovalLimits
<1>2. Alike(a(k), a(n), "ITAC-AP", k, n, invoice.invoice_id, L)
  <2>1. "APPROVAL_LIMIT_BREACH" \in DOMAIN L /\ L["APPROVAL_LIMIT_BREACH"] = "CRITICAL"
    BY DEF InvoiceLevels
  <2> HIDE DEF L
  <2> QED BY <2>1, AlikeIf
<1>3. Alike(b(k), b(n), "ITAC-AP", k, n, invoice.invoice_id, L)
  <2>1. "APPROVAL_LEVEL_UNCLEAR" \in DOMAIN L /\ L["APPROVAL_LEVEL_UNCLEAR"] = "HIGH"
    BY DEF InvoiceLevels
  <2> HIDE DEF L
  <2> QED BY <2>1, AlikeIf
<1> HIDE DEF a, b, L
<1>4. Alike(ab(k), ab(n), "ITAC-AP", k, n, invoice.invoice_id, L)
  BY <1>2, <1>3, AlikeUnion
<1> QED BY <1>1, <1>4 DEF L

\* The tests of a run of an interface.
LEMMA InterfaceAlike ==
  ASSUME NEW run, NEW k, NEW n
  PROVE  Alike(InterfaceControls(Row(k), run), InterfaceControls(Row(n), run), "ITAC-INT", k, n,
               run.id, InterfaceLevels)
<1> DEFINE L == InterfaceLevels
           Raise(at, type, risk) == Finding("ITAC-INT", Row(at), run.id, type, risk)
           Differ(u, v) == u # 0 /\ v # 0 /\ u # v
           a(at) == RaiseIf(run.status = "failed",
                            Raise(at, "INTERFACE_FAILURE", "HIGH"))
           b(at) == RaiseIf(Differ(run.source_count, run.target_count),
                            Raise(at, "INTERFACE_COUNT_MISMATCH", "HIGH"))
           c(at) == RaiseIf(Differ(run.source_total, run.target_total),
                            Raise(at, "INTERFACE_AMOUNT_MISMATCH", "HIGH"))
           ab(at) == a(at) \cup b(at)
           abc(at) == ab(at) \cup c(at)
<1>1. ASSUME NEW at PROVE InterfaceControls(Row(at), run) = abc(at)
  <2>1. InterfaceControls(Row(at), run) = UNION {a(at), b(at), c(at)}
    BY Zenon DEF InterfaceControls
  <2> HIDE DEF a, b, c
  <2> QED BY <2>1
<1>2. Alike(a(k), a(n), "ITAC-INT", k, n, run.id, L)
  <2>1. "INTERFACE_FAILURE" \in DOMAIN L /\ L["INTERFACE_FAILURE"] = "HIGH"
    BY DEF InterfaceLevels
  <2> HIDE DEF L
  <2> QED BY <2>1, AlikeIf
<1>3. Alike(b(k), b(n), "ITAC-INT", k, n, run.id, L)
  <2>1. "INTERFACE_COUNT_MISMATCH" \in DOMAIN L /\ L["INTERFACE_COUNT_MISMATCH"] = "HIGH"
    BY DEF InterfaceLevels
  <2> HIDE DEF L
  <2> QED BY <2>1, AlikeIf
<1>4. Alike(c(k), c(n), "ITAC-INT", k, n, run.id, L)
  <2>1. "INTERFACE_AMOUNT_MISMATCH" \in DOMAIN L /\ L["INTERFACE_AMOUNT_MISMATCH"] = "HIGH"
    BY DEF InterfaceLevels
  <2> HIDE DEF L
  <2> QED BY <2>1, AlikeIf
<1> HIDE DEF a, b, c, L
<1>5. Alike(ab(k), ab(n), "ITAC-INT", k, n, run.id, L)
  BY <1>2, <1>3, AlikeUnion
<1>6. Alike(abc(k), abc(n), "ITAC-INT", k, n, run.id, L)
  BY <1>5, <1>4, AlikeUnion
<1> QED BY <1>1, <1>6 DEF L

\* The match of an invoice with its order.
LEMMA MatchAlike ==
  ASSUME NEW invoice, NEW k, NEW n
  PROVE  Alike(ThreeWayMatch(Row(k), invoice), ThreeWayMatch(Row(n), invoice), "ITAC-AP", k, n,
               invoice.invoice_id, InvoiceLevels)
<1> DEFINE L == InvoiceLevels
           Raise(at, type, risk) == Finding("ITAC-AP", Row(at), invoice.invoice_id, type, risk)
           z(at) == {Raise(at, "THREE_WAY_MATCH_BYPASS", "CRITICAL")}
           a(at) == RaiseIf(Disagree({invoice.po_amount, invoice.gr_amount, invoice.invoice_amount}, 5, 50),
                            Raise(at, "THREE_WAY_MATCH_VARIANCE", "HIGH"))
           b(at) == RaiseIf(Disagree({invoice.po_qty, invoice.gr_qty, invoice.invoice_qty}, 2, 1),
                            Raise(at, "THREE_WAY_QUANTITY_MISMATCH", "HIGH"))
           c(at) == RaiseIf(PriceVaries(invoice.po_unit_price, invoice.unit_price),
                            Raise(at, "THREE_WAY_PRICE_VARIANCE", "HIGH"))
<1>1. ASSUME NEW at
      PROVE  ThreeWayMatch(Row(at), invoice)
               = IF invoice.three_way_match = "bypass" THEN z(at) ELSE (a(at) \cup b(at)) \cup c(at)
  BY Zenon DEF ThreeWayMatch
<1>2. Alike(z(k), z(n), "ITAC-AP", k, n, invoice.invoice_id, L)
  <2> DEFINE type == "THREE_WAY_MATCH_BYPASS"
             risk == "CRITICAL"
             all == TRUE
  <2>1. type \in DOMAIN L /\ L[type] = risk
    BY DEF InvoiceLevels
  <2>2. z(k) = RaiseIf(all, Raise(k, type, risk)) /\ z(n) = RaiseIf(all, Raise(n, type, risk))
    BY DEF RaiseIf
  <2> HIDE DEF L, type, risk, all, z
  <2>3. Alike(RaiseIf(all, Raise(k, type, risk)), RaiseIf(all, Raise(n, type, risk)), "ITAC-AP", k, n,
              invoice.invoice_id, L)
    BY <2>1, AlikeIf
  <2> HIDE DEF Raise
  <2> QED BY <2>2, <2>3
<1>3. Alike(a(k), a(n), "ITAC-AP", k, n, invoice.invoice_id, L)
  <2>1. "THREE_WAY_MATCH_VARIANCE" \in DOMAIN L /\ L["THREE_WAY_MATCH_VARIANCE"] = "HIGH"
    BY DEF InvoiceLevels
  <2> HIDE DEF L
  <2> QED BY <2>1, AlikeIf
<1>4. Alike(b(k), b(n), "ITAC-AP", k, n, invoice.invoice_id, L)
  <2>1. "THREE_WAY_QUANTITY_MISMATCH" \in DOMAIN L /\ L["THREE_WAY_QUANTITY_MISMATCH"] = "HIGH"
    BY DEF InvoiceLevels
  <2> HIDE DEF L
  <2> QED BY <2>1, AlikeIf
<1>5. Alike(c(k), c(n), "ITAC-AP", k, n, invoice.invoice_id, L)
  <2>1. "THREE_WAY_PRICE_VARIANCE" \in DOMAIN L /\ L["THREE_WAY_PRICE_VARIANCE"] = "HIGH"
    BY DEF InvoiceLevels
  <2> HIDE DEF L
  <2> QED BY <2>1, AlikeIf
<1> HIDE DEF a, b, c, z, L
<1>6. Alike(a(k) \cup b(k), a(n) \cup b(n), "ITAC-AP", k, n, invoice.invoice_id, L)
  BY <1>3, <1>4, AlikeUnion
<1>7. Alike((a(k) \cup b(k)) \cup c(k), (a(n) \cup b(n)) \cup c(n), "ITAC-AP", k, n, invoice.invoice_id, L)
  BY <1>5, <1>6, AlikeUnion
<1>8. Alike(ThreeWayMatch(Row(k), invoice), ThreeWayMatch(Row(n), invoice), "ITAC-AP", k, n,
            invoice.invoice_id, L)
  <2>1. CASE invoice.three_way_match = "bypass"
    <3>1. ThreeWayMatch(Row(k), invoice) = z(k) /\ ThreeWayMatch(Row(n), invoice) = z(n)
      BY <1>1, <2>1
    <3> QED BY <1>2, <3>1
  <2>2. CASE invoice.three_way_match # "bypass"
    <3>1. /\ ThreeWayMatch(Row(k), invoice) = (a(k) \cup b(k)) \cup c(k)
          /\ ThreeWayMatch(Row(n), invoice) = (a(n) \cup b(n)) \cup c(n)
      BY <1>1, <2>2
    <3> QED BY <1>7, <3>1
  <2> QED BY <2>1, <2>2
<1> QED BY <1>8 DEF L

\* A test of rows, with the kinds of its findings.
RowTest(rows, area, types, F) ==
  \A k \in DOMAIN rows : \E subject, levels :
    DOMAIN levels = types /\ Alike(F[k], F[k], area, k, k, subject, levels)

\* ... which all its findings are of.
LEMMA RowKinds ==
  ASSUME NEW rows, NEW area, NEW types, NEW F, RowTest(rows, area, types, F)
  PROVE  \A f \in UnionOf(DOMAIN rows, F) : f.area = area /\ f.type \in types
<1> SUFFICES ASSUME NEW k \in DOMAIN rows, NEW f \in F[k] PROVE f.area = area /\ f.type \in types
  BY DEF UnionOf
<1>1. PICK subject, levels : DOMAIN levels = types /\ Alike(F[k], F[k], area, k, k, subject, levels)
  BY DEF RowTest
<1>2. f = Finding(area, Row(k), subject, f.type, levels[f.type]) /\ f.type \in types
  BY <1>1 DEF Alike
<1> QED BY <1>2 DEF Finding

\* Rows that pass a filter are not more in an embedded list.
LEMMA EmbeddedCount ==
  ASSUME NEW less, NEW more, IsList(more), NEW m, Embeds(m, less, more),
         NEW A \in SUBSET DOMAIN less, NEW B \in SUBSET DOMAIN more, \A k \in A : m[k] \in B
  PROVE  Cardinality(A) <= Cardinality(B) /\ Cardinality(A) \in Nat /\ Cardinality(B) \in Nat
<1> DEFINE w == [k \in A |-> m[k]]
<1>1. IsFiniteSet(B)
  BY FiniteRows
<1>2. w \in Injection(A, B)
  BY DEF Injection, Embeds
<1> HIDE DEF w
<1>3. IsFiniteSet(A) /\ Cardinality(A) <= Cardinality(B)
  BY <1>1, <1>2, FS_Injection
<1> QED BY <1>1, <1>3, FS_CardinalityType

\* The access tests of a list of users.
LEMMA AccessRows ==
  ASSUME NEW rows
  PROVE  OnePerRow(TestAccessControls(rows)) /\ \A f \in TestAccessControls(rows) : f.area = "ITGC-LA"
<1> DEFINE F == [k \in DOMAIN rows |-> AccessFindings(Row(k), rows[k])]
           types == {"TERMINATED_USER_ACTIVE", "DORMANT_ACCOUNT", "PRIVILEGED_NO_MFA",
                     "GENERIC_SHARED_ACCOUNT", "ACCESS_REVIEW_OVERDUE", "ACCESS_REVIEW_MISSING",
                     "EXCESSIVE_PRIVILEGE"}
<1>1. \A k \in DOMAIN rows : Alike(F[k], F[k], "ITGC-LA", k, k, rows[k].user_id, AccessLevels(rows[k]))
  BY AccessAlike
<1>2. TestAccessControls(rows) = UnionOf(DOMAIN rows, F)
  BY DEF TestAccessControls, UnionOf
<1>3. \A k \in DOMAIN rows : DOMAIN AccessLevels(rows[k]) = types
  BY DEF AccessLevels
<1> HIDE DEF F, types
<1>4. OnePerRow(UnionOf(DOMAIN rows, F))
  BY <1>1, OnePerRowOfRows
<1>5. \A f \in UnionOf(DOMAIN rows, F) : f.area = "ITGC-LA"
  <2>1. RowTest(rows, "ITGC-LA", types, F)
    BY <1>1, <1>3 DEF RowTest
  <2> QED BY <2>1, RowKinds
<1> QED BY <1>2, <1>4, <1>5

\* ... find no less in more rows.
LEMMA AccessDominated ==
  ASSUME NEW less, NEW more, Embedded(less, more)
  PROVE  Dominated(TestAccessControls(less), TestAccessControls(more))
<1> DEFINE F == [k \in DOMAIN less |-> AccessFindings(Row(k), less[k])]
           G == [k \in DOMAIN more |-> AccessFindings(Row(k), more[k])]
<1>1. PICK m : Embeds(m, less, more)
  BY DEF Embedded
<1>2. ASSUME NEW k \in DOMAIN less
      PROVE  Alike(F[k], G[m[k]], "ITGC-LA", k, m[k], less[k].user_id, AccessLevels(less[k]))
  <2>1. m[k] \in DOMAIN more /\ more[m[k]] = less[k]
    BY <1>1 DEF Embeds, Injection
  <2>2. F[k] = AccessFindings(Row(k), less[k]) /\ G[m[k]] = AccessFindings(Row(m[k]), less[k])
    BY <2>1
  <2> HIDE DEF F, G
  <2> QED BY <2>2, AccessAlike
<1>3. TestAccessControls(less) = UnionOf(DOMAIN less, F) /\ TestAccessControls(more) = UnionOf(DOMAIN more, G)
  BY DEF TestAccessControls, UnionOf
<1> HIDE DEF F, G
<1> QED BY <1>1, <1>2, <1>3, RowsDominated

\* The tests of a list of changes: of each row, and of each week.
VelocityFindings(changes) ==
  {Finding("ITGC-CM", <<"week", week>>, "", "HIGH_CHANGE_VELOCITY", "MEDIUM") : week \in BusyWeeks(changes)}

\* What is found for a week.
LEMMA Velocity ==
  ASSUME NEW changes, NEW f \in VelocityFindings(changes)
  PROVE  /\ f.area = "ITGC-CM" /\ f.type = "HIGH_CHANGE_VELOCITY"
         /\ f = Finding("ITGC-CM", f.row, "", "HIGH_CHANGE_VELOCITY", "MEDIUM")
<1>1. PICK row : f = Finding("ITGC-CM", row, "", "HIGH_CHANGE_VELOCITY", "MEDIUM")
  BY DEF VelocityFindings
<1> QED BY <1>1 DEF Finding

\* Each row or week has one finding of a kind, at most,
LEMMA ChangeRows ==
  ASSUME NEW rows
  PROVE  OnePerRow(TestChangeManagement(rows)) /\ \A f \in TestChangeManagement(rows) : f.area = "ITGC-CM"
<1> DEFINE F == [k \in DOMAIN rows |-> ChangeFindings(Row(k), rows[k])]
           types == {"NO_APPROVAL", "SELF_APPROVED", "EMERGENCY_NO_PIR", "NO_TEST_EVIDENCE",
                     "OUTSIDE_CHANGE_WINDOW"}
<1>1. \A k \in DOMAIN rows : Alike(F[k], F[k], "ITGC-CM", k, k, rows[k].ticket_id, ChangeLevels(rows[k]))
  BY ChangeAlike
<1>2. TestChangeManagement(rows) = UnionOf(DOMAIN rows, F) \cup VelocityFindings(rows)
  <2>1. UnionOf(DOMAIN rows, F) = UNION {ChangeFindings(Row(k), rows[k]) : k \in DOMAIN rows}
    BY DEF UnionOf
  <2> HIDE DEF F
  <2> QED BY <2>1, Zenon DEF TestChangeManagement, VelocityFindings
<1>3. \A k \in DOMAIN rows : DOMAIN ChangeLevels(rows[k]) = types
  BY DEF ChangeLevels
<1> HIDE DEF F
<1>4. OnePerRow(UnionOf(DOMAIN rows, F))
  BY <1>1, OnePerRowOfRows
<1>5. \A f \in UnionOf(DOMAIN rows, F) : f.area = "ITGC-CM" /\ f.type \in types
  <2> HIDE DEF types
  <2>1. RowTest(rows, "ITGC-CM", types, F)
    BY <1>1, <1>3 DEF RowTest
  <2> QED BY <2>1, RowKinds
<1>6. \A f \in VelocityFindings(rows) : f.area = "ITGC-CM" /\ f.type = "HIGH_CHANGE_VELOCITY"
  BY Velocity
<1>7. OnePerRow(VelocityFindings(rows))
  <2> SUFFICES ASSUME NEW f \in VelocityFindings(rows), NEW g \in VelocityFindings(rows), f.row = g.row
               PROVE  f = g
    BY DEF OnePerRow
  <2>1. f = Finding("ITGC-CM", f.row, "", "HIGH_CHANGE_VELOCITY", "MEDIUM")
        /\ g = Finding("ITGC-CM", g.row, "", "HIGH_CHANGE_VELOCITY", "MEDIUM")
    BY Velocity
  <2> QED BY <2>1
<1>8. Apart(UnionOf(DOMAIN rows, F), VelocityFindings(rows))
  BY <1>5, <1>6 DEF Apart
<1>9. OnePerRow(UnionOf(DOMAIN rows, F) \cup VelocityFindings(rows))
  BY <1>4, <1>7, <1>8, OnePerRowBoth
<1> QED BY <1>2, <1>5, <1>6, <1>9

\* ... and more rows have as many changes in a week, or more.
LEMMA ChangesDominated ==
  ASSUME NEW less, NEW more, IsList(more), Embedded(less, more)
  PROVE  Dominated(TestChangeManagement(less), TestChangeManagement(more))
<1> DEFINE F == [k \in DOMAIN less |-> ChangeFindings(Row(k), less[k])]
           G == [k \in DOMAIN more |-> ChangeFindings(Row(k), more[k])]
           types == {"NO_APPROVAL", "SELF_APPROVED", "EMERGENCY_NO_PIR", "NO_TEST_EVIDENCE",
                     "OUTSIDE_CHANGE_WINDOW"}
<1>1. PICK m : Embeds(m, less, more)
  BY DEF Embedded
<1>2. ASSUME NEW k \in DOMAIN less
      PROVE  Alike(F[k], G[m[k]], "ITGC-CM", k, m[k], less[k].ticket_id, ChangeLevels(less[k]))
  <2>1. m[k] \in DOMAIN more /\ more[m[k]] = less[k]
    BY <1>1 DEF Embeds, Injection
  <2>2. F[k] = ChangeFindings(Row(k), less[k]) /\ G[m[k]] = ChangeFindings(Row(m[k]), less[k])
    BY <2>1
  <2> HIDE DEF F, G
  <2> QED BY <2>2, ChangeAlike
<1>3. \A k \in DOMAIN less : Alike(F[k], F[k], "ITGC-CM", k, k, less[k].ticket_id, ChangeLevels(less[k]))
  BY ChangeAlike
<1>4. TestChangeManagement(less) = UnionOf(DOMAIN less, F) \cup VelocityFindings(less)
      /\ TestChangeManagement(more) = UnionOf(DOMAIN more, G) \cup VelocityFindings(more)
  <2>1. UnionOf(DOMAIN less, F) = UNION {ChangeFindings(Row(k), less[k]) : k \in DOMAIN less}
        /\ UnionOf(DOMAIN more, G) = UNION {ChangeFindings(Row(k), more[k]) : k \in DOMAIN more}
    BY DEF UnionOf
  <2> HIDE DEF F, G
  <2> QED BY <2>1, Zenon DEF TestChangeManagement, VelocityFindings
<1>5. \A k \in DOMAIN less : DOMAIN ChangeLevels(less[k]) = types
  BY DEF ChangeLevels
<1> HIDE DEF F, G
<1>6. Dominated(UnionOf(DOMAIN less, F), UnionOf(DOMAIN more, G))
  BY <1>1, <1>2, RowsDominated
<1>7. \A f \in UnionOf(DOMAIN less, F) : f.area = "ITGC-CM" /\ f.type \in types
  <2> HIDE DEF types
  <2>1. RowTest(less, "ITGC-CM", types, F)
    BY <1>3, <1>5 DEF RowTest
  <2> QED BY <2>1, RowKinds
<1>8. Dominated(VelocityFindings(less), VelocityFindings(more))
  <2>1. BusyWeeks(less) \subseteq BusyWeeks(more)
    <3> SUFFICES ASSUME NEW week \in BusyWeeks(less) PROVE week \in BusyWeeks(more)
      OBVIOUS
    <3> DEFINE A == {k \in {k \in DOMAIN less : less[k].implementation_date.form # "none"} :
                       WeekOf(less[k].implementation_date) = week}
               B == {k \in {k \in DOMAIN more : more[k].implementation_date.form # "none"} :
                       WeekOf(more[k].implementation_date) = week}
    <3>1. /\ \E k \in DOMAIN less : less[k].implementation_date.form # "none"
                                    /\ week = WeekOf(less[k].implementation_date)
          /\ Cardinality(A) > HighVelocityThreshold
      BY DEF BusyWeeks
    <3>2. ASSUME NEW k \in A PROVE m[k] \in B
      BY <1>1 DEF Embeds, Injection
    <3>3. \E k \in DOMAIN more : more[k].implementation_date.form # "none"
                                 /\ week = WeekOf(more[k].implementation_date)
      <4>1. PICK k \in DOMAIN less : less[k].implementation_date.form # "none"
                                     /\ week = WeekOf(less[k].implementation_date)
        BY <3>1
      <4>2. k \in A
        BY <4>1
      <4>3. m[k] \in B
        BY <3>2, <4>2
      <4> QED BY <4>3
    <3>4. A \in SUBSET DOMAIN less /\ B \in SUBSET DOMAIN more
      OBVIOUS
    <3>5. Cardinality(B) > HighVelocityThreshold
      <4> HIDE DEF A, B
      <4>1. Cardinality(A) <= Cardinality(B) /\ Cardinality(A) \in Nat /\ Cardinality(B) \in Nat
        BY <1>1, <3>2, <3>4, EmbeddedCount
      <4> QED BY <3>1, <4>1, VelocityAssumption DEF VelocityAssumption
    <3> QED BY <3>3, <3>5 DEF BusyWeeks
  <2>2. VelocityFindings(less) \subseteq VelocityFindings(more)
    BY <2>1 DEF VelocityFindings
  <2> QED BY <2>2, DominatedSubset
<1>9. Apart(UnionOf(DOMAIN less, F), VelocityFindings(less))
  <2>1. \A f \in VelocityFindings(less) : f.type = "HIGH_CHANGE_VELOCITY"
    BY Velocity
  <2> QED BY <1>7, <2>1 DEF Apart
<1>10. Dominated(UnionOf(DOMAIN less, F) \cup VelocityFindings(less),
                 UnionOf(DOMAIN more, G) \cup VelocityFindings(more))
  BY <1>6, <1>8, <1>9, DominatedBoth
<1> QED BY <1>4, <1>10

\* The tests of a list of records of operations.
OperationsTypes ==
  [backup |-> {"BACKUP_FAILURE", "BACKUP_OVERDUE", "BACKUP_NOT_VERIFIED"},
   incident |-> {"P1_RESPONSE_BREACH", "P1_UNRESOLVED"},
   dr |-> {"DR_TEST_FAILED", "RTO_NOT_MET", "DR_TEST_OVERDUE"}]

\* A record has one finding of a kind, and the three tests have different kinds.
LEMMA OperationsRows ==
  ASSUME NEW rows, NEW type \in {"backup", "incident", "dr"}
  PROVE  /\ OnePerRow(TestOperationsControls(rows, type))
         /\ \A f \in TestOperationsControls(rows, type) :
              f.area = "ITGC-OPS" /\ f.type \in OperationsTypes[type]
<1>1. CASE type = "backup"
  <2> DEFINE F == [k \in DOMAIN rows |-> BackupFindings(Row(k), rows[k])]
  <2>1. \A k \in DOMAIN rows : Alike(F[k], F[k], "ITGC-OPS", k, k, rows[k].id, BackupLevels)
    BY BackupAlike
  <2>2. TestOperationsControls(rows, type) = UnionOf(DOMAIN rows, F)
    BY <1>1 DEF TestOperationsControls, UnionOf
  <2>3. DOMAIN BackupLevels = OperationsTypes[type]
    BY <1>1 DEF BackupLevels, OperationsTypes
  <2> HIDE DEF F
  <2>4. OnePerRow(UnionOf(DOMAIN rows, F))
    BY <2>1, OnePerRowOfRows
  <2>5. \A f \in UnionOf(DOMAIN rows, F) : f.area = "ITGC-OPS" /\ f.type \in OperationsTypes[type]
    <3>1. RowTest(rows, "ITGC-OPS", OperationsTypes[type], F)
      BY <2>1, <2>3 DEF RowTest
    <3> QED BY <3>1, RowKinds
  <2> QED BY <2>2, <2>4, <2>5
<1>2. CASE type = "incident"
  <2> DEFINE F == [k \in DOMAIN rows |-> IncidentFindings(Row(k), rows[k])]
  <2>1. \A k \in DOMAIN rows : Alike(F[k], F[k], "ITGC-OPS", k, k, rows[k].id, IncidentLevels)
    BY IncidentAlike
  <2>2. TestOperationsControls(rows, type) = UnionOf(DOMAIN rows, F)
    BY <1>2 DEF TestOperationsControls, UnionOf
  <2>3. DOMAIN IncidentLevels = OperationsTypes[type]
    BY <1>2 DEF IncidentLevels, OperationsTypes
  <2> HIDE DEF F
  <2>4. OnePerRow(UnionOf(DOMAIN rows, F))
    BY <2>1, OnePerRowOfRows
  <2>5. \A f \in UnionOf(DOMAIN rows, F) : f.area = "ITGC-OPS" /\ f.type \in OperationsTypes[type]
    <3>1. RowTest(rows, "ITGC-OPS", OperationsTypes[type], F)
      BY <2>1, <2>3 DEF RowTest
    <3> QED BY <3>1, RowKinds
  <2> QED BY <2>2, <2>4, <2>5
<1>3. CASE type = "dr"
  <2> DEFINE F == [k \in DOMAIN rows |-> DrFindings(Row(k), rows[k])]
  <2>1. \A k \in DOMAIN rows : Alike(F[k], F[k], "ITGC-OPS", k, k, rows[k].id, DrLevels)
    BY DrAlike
  <2>2. TestOperationsControls(rows, type) = UnionOf(DOMAIN rows, F) \cup DrOverdue(rows)
    <3>1. UnionOf(DOMAIN rows, F) = UNION {DrFindings(Row(k), rows[k]) : k \in DOMAIN rows}
      BY DEF UnionOf
    <3> HIDE DEF F
    <3> QED BY <1>3, <3>1 DEF TestOperationsControls
  <2>3. DOMAIN DrLevels = {"DR_TEST_FAILED", "RTO_NOT_MET"}
    BY DEF DrLevels
  <2> HIDE DEF F
  <2>4. OnePerRow(UnionOf(DOMAIN rows, F))
    BY <2>1, OnePerRowOfRows
  <2> DEFINE types == {"DR_TEST_FAILED", "RTO_NOT_MET"}
  <2>5. \A f \in UnionOf(DOMAIN rows, F) : f.area = "ITGC-OPS" /\ f.type \in types
    <3> HIDE DEF types
    <3>1. RowTest(rows, "ITGC-OPS", types, F)
      BY <2>1, <2>3 DEF RowTest, types
    <3> QED BY <3>1, RowKinds
  <2>6. \A f \in DrOverdue(rows) : f.area = "ITGC-OPS" /\ f.type = "DR_TEST_OVERDUE"
    BY DEF DrOverdue, RaiseIf, Finding
  <2>7. OnePerRow(DrOverdue(rows))
    BY DEF DrOverdue, RaiseIf, OnePerRow
  <2>8. Apart(UnionOf(DOMAIN rows, F), DrOverdue(rows))
    BY <2>5, <2>6 DEF Apart
  <2>9. OnePerRow(UnionOf(DOMAIN rows, F) \cup DrOverdue(rows))
    BY <2>4, <2>7, <2>8, OnePerRowBoth
  <2>10. OperationsTypes[type] = {"DR_TEST_FAILED", "RTO_NOT_MET", "DR_TEST_OVERDUE"}
    BY <1>3 DEF OperationsTypes
  <2> QED BY <2>2, <2>5, <2>6, <2>9, <2>10
<1> QED BY <1>1, <1>2, <1>3

\* More backups or incidents raise no fewer findings; recovery tests may.
LEMMA OperationsDominated ==
  ASSUME NEW less, NEW more, Embedded(less, more), NEW type \in {"backup", "incident"}
  PROVE  Dominated(TestOperationsControls(less, type), TestOperationsControls(more, type))
<1>1. PICK m : Embeds(m, less, more)
  BY DEF Embedded
<1>2. ASSUME NEW k \in DOMAIN less PROVE m[k] \in DOMAIN more /\ more[m[k]] = less[k]
  BY <1>1 DEF Embeds, Injection
<1>3. CASE type = "backup"
  <2> DEFINE F == [k \in DOMAIN less |-> BackupFindings(Row(k), less[k])]
             G == [k \in DOMAIN more |-> BackupFindings(Row(k), more[k])]
  <2>1. ASSUME NEW k \in DOMAIN less PROVE Alike(F[k], G[m[k]], "ITGC-OPS", k, m[k], less[k].id, BackupLevels)
    <3>1. F[k] = BackupFindings(Row(k), less[k]) /\ G[m[k]] = BackupFindings(Row(m[k]), less[k])
      BY <1>2
    <3> HIDE DEF F, G
    <3> QED BY <3>1, BackupAlike
  <2>2. /\ TestOperationsControls(less, type) = UnionOf(DOMAIN less, F)
        /\ TestOperationsControls(more, type) = UnionOf(DOMAIN more, G)
    BY <1>3 DEF TestOperationsControls, UnionOf
  <2> HIDE DEF F, G
  <2> QED BY <1>1, <2>1, <2>2, RowsDominated
<1>4. CASE type = "incident"
  <2> DEFINE F == [k \in DOMAIN less |-> IncidentFindings(Row(k), less[k])]
             G == [k \in DOMAIN more |-> IncidentFindings(Row(k), more[k])]
  <2>1. ASSUME NEW k \in DOMAIN less PROVE Alike(F[k], G[m[k]], "ITGC-OPS", k, m[k], less[k].id, IncidentLevels)
    <3>1. F[k] = IncidentFindings(Row(k), less[k]) /\ G[m[k]] = IncidentFindings(Row(m[k]), less[k])
      BY <1>2
    <3> HIDE DEF F, G
    <3> QED BY <3>1, IncidentAlike
  <2>2. /\ TestOperationsControls(less, type) = UnionOf(DOMAIN less, F)
        /\ TestOperationsControls(more, type) = UnionOf(DOMAIN more, G)
    BY <1>4 DEF TestOperationsControls, UnionOf
  <2> HIDE DEF F, G
  <2> QED BY <1>1, <2>1, <2>2, RowsDominated
<1> QED BY <1>3, <1>4

\* The tests of each invoice.
InvoiceFindings(invoices) ==
  UNION {ThreeWayMatch(Row(k), invoices[k]) \cup ApprovalLimits(Row(k), invoices[k]) : k \in DOMAIN invoices}
\* ... and of each run of an interface.
RunFindings(interfaces) ==
  UNION {InterfaceControls(Row(k), interfaces[k]) : k \in DOMAIN interfaces}

\* The match and the approval of one invoice depend on nothing but the invoice.
LEMMA InvoiceAlike ==
  ASSUME NEW invoice, NEW k, NEW n
  PROVE  Alike(ThreeWayMatch(Row(k), invoice) \cup ApprovalLimits(Row(k), invoice),
               ThreeWayMatch(Row(n), invoice) \cup ApprovalLimits(Row(n), invoice), "ITAC-AP", k, n,
               invoice.invoice_id, InvoiceLevels)
BY MatchAlike, ApprovalAlike, AlikeUnion

\* An invoice has one finding of a kind, at most,
LEMMA InvoiceRows ==
  ASSUME NEW invoices
  PROVE  /\ OnePerRow(InvoiceFindings(invoices))
         /\ \A f \in InvoiceFindings(invoices) : f.area = "ITAC-AP" /\ f.type \in InvoiceTypes
<1> DEFINE F == [k \in DOMAIN invoices |-> ThreeWayMatch(Row(k), invoices[k]) \cup ApprovalLimits(Row(k), invoices[k])]
<1>1. \A k \in DOMAIN invoices : Alike(F[k], F[k], "ITAC-AP", k, k, invoices[k].invoice_id, InvoiceLevels)
  BY InvoiceAlike
<1>2. InvoiceFindings(invoices) = UnionOf(DOMAIN invoices, F)
  BY DEF InvoiceFindings, UnionOf
<1>3. DOMAIN InvoiceLevels = InvoiceTypes
  BY DEF InvoiceLevels, InvoiceTypes
<1> HIDE DEF F
<1>4. OnePerRow(UnionOf(DOMAIN invoices, F))
  BY <1>1, OnePerRowOfRows
<1>5. RowTest(invoices, "ITAC-AP", InvoiceTypes, F)
  BY <1>1, <1>3 DEF RowTest
<1> QED BY <1>2, <1>4, <1>5, RowKinds

\* ... and so has a run.
LEMMA RunRows ==
  ASSUME NEW interfaces
  PROVE  /\ OnePerRow(RunFindings(interfaces))
         /\ \A f \in RunFindings(interfaces) : f.area = "ITAC-INT"
<1> DEFINE F == [k \in DOMAIN interfaces |-> InterfaceControls(Row(k), interfaces[k])]
<1>1. \A k \in DOMAIN interfaces : Alike(F[k], F[k], "ITAC-INT", k, k, interfaces[k].id, InterfaceLevels)
  BY InterfaceAlike
<1>2. RunFindings(interfaces) = UnionOf(DOMAIN interfaces, F)
  BY DEF RunFindings, UnionOf
<1> HIDE DEF F
<1>3. OnePerRow(UnionOf(DOMAIN interfaces, F))
  BY <1>1, OnePerRowOfRows
<1>4. RowTest(interfaces, "ITAC-INT", DOMAIN InterfaceLevels, F)
  BY <1>1 DEF RowTest
<1> QED BY <1>2, <1>3, <1>4, RowKinds

\* More invoices raise no fewer findings of these tests,
LEMMA InvoicesDominated ==
  ASSUME NEW less, NEW more, Embedded(less, more)
  PROVE  Dominated(InvoiceFindings(less), InvoiceFindings(more))
<1> DEFINE F == [k \in DOMAIN less |-> ThreeWayMatch(Row(k), less[k]) \cup ApprovalLimits(Row(k), less[k])]
           G == [k \in DOMAIN more |-> ThreeWayMatch(Row(k), more[k]) \cup ApprovalLimits(Row(k), more[k])]
<1>1. PICK m : Embeds(m, less, more)
  BY DEF Embedded
<1>2. ASSUME NEW k \in DOMAIN less
      PROVE  Alike(F[k], G[m[k]], "ITAC-AP", k, m[k], less[k].invoice_id, InvoiceLevels)
  <2>1. m[k] \in DOMAIN more /\ more[m[k]] = less[k]
    BY <1>1 DEF Embeds, Injection
  <2>2. /\ F[k] = ThreeWayMatch(Row(k), less[k]) \cup ApprovalLimits(Row(k), less[k])
        /\ G[m[k]] = ThreeWayMatch(Row(m[k]), less[k]) \cup ApprovalLimits(Row(m[k]), less[k])
    BY <2>1
  <2> HIDE DEF F, G
  <2> QED BY <2>2, InvoiceAlike
<1>3. InvoiceFindings(less) = UnionOf(DOMAIN less, F) /\ InvoiceFindings(more) = UnionOf(DOMAIN more, G)
  BY DEF InvoiceFindings, UnionOf
<1> HIDE DEF F, G
<1> QED BY <1>1, <1>2, <1>3, RowsDominated

\* ... and nor do more runs.
LEMMA RunsDominated ==
  ASSUME NEW less, NEW more, Embedded(less, more)
  PROVE  Dominated(RunFindings(less), RunFindings(more))
<1> DEFINE F == [k \in DOMAIN less |-> InterfaceControls(Row(k), less[k])]
           G == [k \in DOMAIN more |-> InterfaceControls(Row(k), more[k])]
<1>1. PICK m : Embeds(m, less, more)
  BY DEF Embedded
<1>2. ASSUME NEW k \in DOMAIN less
      PROVE  Alike(F[k], G[m[k]], "ITAC-INT", k, m[k], less[k].id, InterfaceLevels)
  <2>1. m[k] \in DOMAIN more /\ more[m[k]] = less[k]
    BY <1>1 DEF Embeds, Injection
  <2>2. F[k] = InterfaceControls(Row(k), less[k]) /\ G[m[k]] = InterfaceControls(Row(m[k]), less[k])
    BY <2>1
  <2> HIDE DEF F, G
  <2> QED BY <2>2, InterfaceAlike
<1>3. RunFindings(less) = UnionOf(DOMAIN less, F) /\ RunFindings(more) = UnionOf(DOMAIN more, G)
  BY DEF RunFindings, UnionOf
<1> HIDE DEF F, G
<1> QED BY <1>1, <1>2, <1>3, RowsDominated

\* Duplicate payments: a key of vendor and amount with several invoices, and
\* the finding about it.
Keyed(invoices) == {k \in DOMAIN invoices : invoices[k].vendor # "" /\ invoices[k].invoice_amount # 0}
InvoiceKey(invoices, k) == <<invoices[k].vendor, invoices[k].invoice_amount>>
Group(invoices, key) == {k \in Keyed(invoices) : InvoiceKey(invoices, k) = key}
Repeats(invoices, key) ==
  \E k, n \in Group(invoices, key) : /\ k # n /\ invoices[k].invoice_number # ""
                                     /\ invoices[k].invoice_number = invoices[n].invoice_number
PaidTwice(invoices, key) ==
  Finding("ITAC-AP", key, invoices[Smallest(Group(invoices, key))].invoice_id, "DUPLICATE_PAYMENT_RISK",
          IF Repeats(invoices, key) THEN "CRITICAL" ELSE "HIGH")
DoubleKeys(invoices) ==
  {InvoiceKey(invoices, k) : k \in {k \in Keyed(invoices) :
                                     Cardinality(Group(invoices, InvoiceKey(invoices, k))) > 1}}

\* The duplicates, named by the key that repeats.
LEMMA DuplicatesOf ==
  ASSUME NEW invoices
  PROVE  DuplicatePayments(invoices) = {PaidTwice(invoices, key) : key \in DoubleKeys(invoices)}
BY Zenon DEF DuplicatePayments, PaidTwice, DoubleKeys, Repeats, Group, InvoiceKey, Keyed

\* The fields of one of them.
LEMMA PaidTwiceFields ==
  ASSUME NEW invoices, NEW key
  PROVE  /\ PaidTwice(invoices, key).area = "ITAC-AP" /\ PaidTwice(invoices, key).row = key
         /\ PaidTwice(invoices, key).type = "DUPLICATE_PAYMENT_RISK"
         /\ PaidTwice(invoices, key).risk_level = IF Repeats(invoices, key) THEN "CRITICAL" ELSE "HIGH"
<1> DEFINE subject == invoices[Smallest(Group(invoices, key))].invoice_id
           risk == IF Repeats(invoices, key) THEN "CRITICAL" ELSE "HIGH"
<1>1. PaidTwice(invoices, key) = Finding("ITAC-AP", key, subject, "DUPLICATE_PAYMENT_RISK", risk)
  BY Zenon DEF PaidTwice
<1> HIDE DEF subject, risk
<1>2. /\ PaidTwice(invoices, key).area = "ITAC-AP" /\ PaidTwice(invoices, key).row = key
      /\ PaidTwice(invoices, key).type = "DUPLICATE_PAYMENT_RISK"
      /\ PaidTwice(invoices, key).risk_level = risk
  BY <1>1 DEF Finding
<1> QED BY <1>2 DEF risk

\* There is one per key.
LEMMA DuplicateRows ==
  ASSUME NEW invoices
  PROVE  /\ OnePerRow(DuplicatePayments(invoices))
         /\ \A f \in DuplicatePayments(invoices) : f.area = "ITAC-AP" /\ f.type = "DUPLICATE_PAYMENT_RISK"
<1>1. \A f \in DuplicatePayments(invoices) : \E key : f = PaidTwice(invoices, key)
  BY DuplicatesOf
<1>2. ASSUME NEW f \in DuplicatePayments(invoices)
      PROVE  f = PaidTwice(invoices, f.row) /\ f.area = "ITAC-AP" /\ f.type = "DUPLICATE_PAYMENT_RISK"
  <2>1. PICK key : f = PaidTwice(invoices, key)
    BY <1>1
  <2> QED BY <2>1, PaidTwiceFields
<1> QED BY <1>2 DEF OnePerRow

\* More invoices repeat more payments, and as certainly.
LEMMA DuplicatesKept ==
  ASSUME NEW less, NEW more, IsList(more), Embedded(less, more), NEW f \in DuplicatePayments(less)
  PROVE  \E g \in DuplicatePayments(more) : g.row = f.row /\ Covers(f, g)
<1>1. PICK m : Embeds(m, less, more)
  BY DEF Embedded
<1>2. PICK key \in DoubleKeys(less) : f = PaidTwice(less, key)
  BY DuplicatesOf
<1>3. \A k, n \in DOMAIN less : /\ m[k] \in DOMAIN more /\ less[k] = more[m[k]]
                                /\ (m[k] = m[n] => k = n)
  BY <1>1 DEF Embeds, Injection
<1>4. ASSUME NEW k \in Group(less, key)
      PROVE  k \in DOMAIN less /\ m[k] \in Group(more, key)
  BY <1>3 DEF Group, Keyed, InvoiceKey
<1>5. Group(less, key) \in SUBSET DOMAIN less /\ Group(more, key) \in SUBSET DOMAIN more
  BY DEF Group, Keyed
<1>6. Cardinality(Group(less, key)) <= Cardinality(Group(more, key))
      /\ Cardinality(Group(less, key)) \in Nat /\ Cardinality(Group(more, key)) \in Nat
  BY <1>1, <1>4, <1>5, EmbeddedCount
<1>7. PICK k \in Keyed(less) : key = InvoiceKey(less, k) /\ Cardinality(Group(less, key)) > 1
  BY DEF DoubleKeys
<1>8. k \in Group(less, key)
  BY <1>7 DEF Group
<1>9. m[k] \in Keyed(more) /\ InvoiceKey(more, m[k]) = key
  BY <1>4, <1>8 DEF Group
<1>10. key \in DoubleKeys(more)
  <2>1. Cardinality(Group(more, key)) > 1
    BY <1>6, <1>7
  <2> QED BY <1>9, <2>1 DEF DoubleKeys
<1>11. Repeats(less, key) => Repeats(more, key)
  <2> SUFFICES ASSUME NEW a \in Group(less, key), NEW b \in Group(less, key), a # b,
                      less[a].invoice_number # "", less[a].invoice_number = less[b].invoice_number
               PROVE  Repeats(more, key)
    BY DEF Repeats
  <2>1. m[a] \in Group(more, key) /\ m[b] \in Group(more, key) /\ m[a] # m[b]
    BY <1>3, <1>4
  <2>2. more[m[a]].invoice_number # "" /\ more[m[a]].invoice_number = more[m[b]].invoice_number
    BY <1>3, <1>4
  <2> QED BY <2>1, <2>2 DEF Repeats
<1> DEFINE g == PaidTwice(more, key)
<1>12. g \in DuplicatePayments(more)
  BY <1>10, DuplicatesOf
<1>13. /\ f.area = "ITAC-AP" /\ f.row = key /\ f.type = "DUPLICATE_PAYMENT_RISK"
       /\ f.risk_level = (IF Repeats(less, key) THEN "CRITICAL" ELSE "HIGH")
       /\ g.area = "ITAC-AP" /\ g.row = key /\ g.type = "DUPLICATE_PAYMENT_RISK"
       /\ g.risk_level = (IF Repeats(more, key) THEN "CRITICAL" ELSE "HIGH")
  BY <1>2, PaidTwiceFields
<1> HIDE DEF g
<1>14. AsBad(f, g)
  BY <1>11, <1>13 DEF AsBad, Uppers, RiskLevels
<1>15. g.row = f.row /\ Covers(f, g)
  BY <1>13, <1>14 DEF Covers
<1> QED BY <1>12, <1>15

\* All application control tests together.
LEMMA ItacParts ==
  ASSUME NEW invoices, NEW interfaces
  PROVE  RunAllItacTests(invoices, interfaces)
           = (InvoiceFindings(invoices) \cup DuplicatePayments(invoices)) \cup RunFindings(interfaces)
BY Zenon DEF RunAllItacTests, InvoiceFindings, RunFindings

\* These are of different kinds.
LEMMA ItacApart ==
  ASSUME NEW invoices, NEW interfaces
  PROVE  /\ Apart(InvoiceFindings(invoices), DuplicatePayments(invoices))
         /\ Apart(InvoiceFindings(invoices) \cup DuplicatePayments(invoices), RunFindings(interfaces))
<1>1. \A f \in InvoiceFindings(invoices) : f.area = "ITAC-AP" /\ f.type # "DUPLICATE_PAYMENT_RISK"
  BY InvoiceRows DEF InvoiceTypes
<1>2. \A f \in DuplicatePayments(invoices) : f.area = "ITAC-AP" /\ f.type = "DUPLICATE_PAYMENT_RISK"
  BY DuplicateRows
<1>3. \A f \in RunFindings(interfaces) : f.area = "ITAC-INT"
  BY RunRows
<1> QED BY <1>1, <1>2, <1>3 DEF Apart

\* So there is one of a kind for each row or key,
LEMMA ItacRows ==
  ASSUME NEW invoices, NEW interfaces PROVE OnePerRow(RunAllItacTests(invoices, interfaces))
<1>1. OnePerRow(InvoiceFindings(invoices) \cup DuplicatePayments(invoices))
  BY InvoiceRows, DuplicateRows, ItacApart, OnePerRowBoth
<1>2. OnePerRow((InvoiceFindings(invoices) \cup DuplicatePayments(invoices)) \cup RunFindings(interfaces))
  BY <1>1, RunRows, ItacApart, OnePerRowBoth
<1> QED BY <1>2, ItacParts

\* ... and more rows raise no fewer.
LEMMA ItacDominated ==
  ASSUME NEW less, NEW more, IsList(more), Embedded(less, more),
         NEW fewer, NEW all, Embedded(fewer, all)
  PROVE  Dominated(RunAllItacTests(less, fewer), RunAllItacTests(more, all))
<1>1. Dominated(DuplicatePayments(less), DuplicatePayments(more))
  BY DuplicateRows, DuplicatesKept, DominatedByRows
<1>2. Dominated(InvoiceFindings(less) \cup DuplicatePayments(less),
                InvoiceFindings(more) \cup DuplicatePayments(more))
  BY <1>1, InvoicesDominated, ItacApart, DominatedBoth
<1>3. Dominated((InvoiceFindings(less) \cup DuplicatePayments(less)) \cup RunFindings(fewer),
                (InvoiceFindings(more) \cup DuplicatePayments(more)) \cup RunFindings(all))
  BY <1>2, RunsDominated, ItacApart, DominatedBoth
<1> QED BY <1>3, ItacParts

\* What is said of a finding about fewer transactions is said of one about
\* more, too, but for how often a payment was found.
LEMMA DescribedKept ==
  ASSUME NEW less, NEW more, IsList(more), Embedded(less, more),
         NEW fewer, NEW all, Embedded(fewer, all),
         NEW f \in RunAllItacTests(less, fewer), NEW text \in Description(f, less, fewer),
         \/ less = more
         \/ f.type # "DUPLICATE_PAYMENT_RISK" \/ text \notin Tally(f, less)
  PROVE  \E g \in RunAllItacTests(more, all) : text \in Description(g, more, all)
<1>1. f \in InvoiceFindings(less) \/ f \in DuplicatePayments(less) \/ f \in RunFindings(fewer)
  BY ItacParts
<1>2. CASE f \in InvoiceFindings(less)
  <2>1. PICK m : Embeds(m, less, more)
    BY DEF Embedded
  <2>2. PICK k \in DOMAIN less : f \in ThreeWayMatch(Row(k), less[k]) \cup ApprovalLimits(Row(k), less[k])
    BY <1>2 DEF InvoiceFindings
  <2>3. m[k] \in DOMAIN more /\ more[m[k]] = less[k]
    BY <2>1 DEF Embeds, Injection
  <2> DEFINE subject == less[k].invoice_id
             risk == InvoiceLevels[f.type]
             g == Finding("ITAC-AP", Row(m[k]), subject, f.type, risk)
  <2>4. f = Finding("ITAC-AP", Row(k), subject, f.type, risk)
        /\ g \in ThreeWayMatch(Row(m[k]), less[k]) \cup ApprovalLimits(Row(m[k]), less[k])
    BY <2>2, InvoiceAlike DEF Alike
  <2>5. g \in RunAllItacTests(more, all)
    <3> HIDE DEF g
    <3>1. g \in InvoiceFindings(more)
      BY <2>3, <2>4 DEF InvoiceFindings
    <3> QED BY <3>1, ItacParts
  <2> HIDE DEF risk, subject
  <2>6. /\ f.area = "ITAC-AP" /\ f.row = Row(k)
        /\ g.area = "ITAC-AP" /\ g.row = Row(m[k]) /\ g.type = f.type
    BY <2>4 DEF Finding
  <2> HIDE DEF g
  <2>7. less[f.row[2]] = more[g.row[2]]
    BY <2>3, <2>6 DEF Row
  <2>8. f.type # "DUPLICATE_PAYMENT_RISK"
    BY <1>2, InvoiceRows DEF InvoiceTypes
  <2>9. Description(f, less, fewer) = {<<"words", f.type>>} \cup InvoiceTexts(f.type, less[f.row[2]])
    BY <2>6, <2>8 DEF Description
  <2>10. Description(g, more, all) = {<<"words", g.type>>} \cup InvoiceTexts(g.type, more[g.row[2]])
    BY <2>6, <2>8 DEF Description
  <2>11. text \in Description(g, more, all)
    BY <2>6, <2>7, <2>9, <2>10
  <2> QED BY <2>5, <2>11
<1>3. CASE f \in DuplicatePayments(less)
  <2>1. PICK g \in DuplicatePayments(more) : g.row = f.row /\ (less = more => g = f)
    BY <1>3, DuplicatesKept
  <2>2. /\ f.area = "ITAC-AP" /\ f.type = "DUPLICATE_PAYMENT_RISK"
        /\ g.area = "ITAC-AP" /\ g.type = "DUPLICATE_PAYMENT_RISK"
    BY <1>3, DuplicateRows
  <2>3. /\ Description(f, less, fewer) = {<<"words", f.type>>} \cup (DuplicateTexts(f.row) \cup Tally(f, less))
        /\ Description(g, more, all) = {<<"words", g.type>>} \cup (DuplicateTexts(g.row) \cup Tally(g, more))
    BY <2>2 DEF Description
  <2>4. g \in RunAllItacTests(more, all)
    BY ItacParts
  <2> QED BY <2>1, <2>2, <2>3, <2>4
<1>4. CASE f \in RunFindings(fewer)
  <2>1. PICK m : Embeds(m, fewer, all)
    BY DEF Embedded
  <2>2. PICK k \in DOMAIN fewer : f \in InterfaceControls(Row(k), fewer[k])
    BY <1>4 DEF RunFindings
  <2>3. m[k] \in DOMAIN all /\ all[m[k]] = fewer[k]
    BY <2>1 DEF Embeds, Injection
  <2> DEFINE subject == fewer[k].id
             risk == InterfaceLevels[f.type]
             g == Finding("ITAC-INT", Row(m[k]), subject, f.type, risk)
  <2>4. f = Finding("ITAC-INT", Row(k), subject, f.type, risk)
        /\ g \in InterfaceControls(Row(m[k]), fewer[k])
    BY <2>2, InterfaceAlike DEF Alike
  <2>5. g \in RunAllItacTests(more, all)
    <3> HIDE DEF g
    <3>1. g \in RunFindings(all)
      BY <2>3, <2>4 DEF RunFindings
    <3> QED BY <3>1, ItacParts
  <2> HIDE DEF risk, subject
  <2>6. /\ f.area = "ITAC-INT" /\ f.row = Row(k)
        /\ g.area = "ITAC-INT" /\ g.row = Row(m[k]) /\ g.type = f.type
    BY <2>4 DEF Finding
  <2> HIDE DEF g
  <2>7. fewer[f.row[2]] = all[g.row[2]]
    BY <2>3, <2>6 DEF Row
  <2>8. /\ Description(f, less, fewer) = {<<"words", f.type>>} \cup RunTexts(f.type, fewer[f.row[2]])
        /\ Description(g, more, all) = {<<"words", g.type>>} \cup RunTexts(g.type, all[g.row[2]])
    BY <2>6 DEF Description
  <2> QED BY <2>5, <2>6, <2>7, <2>8
<1> QED BY <1>1, <1>2, <1>3, <1>4

\* Conflicts of duties: what fewer rows show, more rows show.
LEMMA ConflictsKept ==
  ASSUME NEW less, NEW more, Embedded(less, more)
  PROVE  DetectSodConflicts(UserRoles(less)) \subseteq DetectSodConflicts(UserRoles(more))
<1>1. PICK m : Embeds(m, less, more)
  BY DEF Embedded
<1>2. ASSUME NEW user, NEW role, HasRole(less, user, role) PROVE HasRole(more, user, role)
  BY <1>1, <1>2 DEF HasRole, Embeds, Injection
<1> DEFINE a == UserRoles(less)
           b == UserRoles(more)
<1>3. ASSUME NEW user \in DOMAIN a PROVE user \in DOMAIN b /\ a[user] \subseteq b[user]
  <2>1. user # ""
    BY DEF UserRoles
  <2> HIDE DEF a, b
  <2>2. /\ user \in DOMAIN a <=> \E role : HasRole(less, user, role)
        /\ user \in DOMAIN a => \A role : role \in a[user] <=> HasRole(less, user, role)
    BY <2>1, TableOfRoles DEF a
  <2>3. /\ user \in DOMAIN b <=> \E role : HasRole(more, user, role)
        /\ user \in DOMAIN b => \A role : role \in b[user] <=> HasRole(more, user, role)
    BY <2>1, TableOfRoles DEF b
  <2> QED BY <1>2, <2>2, <2>3
<1> HIDE DEF a, b
<1>4. ASSUME NEW f \in DetectSodConflicts(a) PROVE f \in DetectSodConflicts(b)
  <2>1. PICK user \in DOMAIN a : \E rule \in SodMatrix :
          /\ \E pair \in Pairs(a[user]) : Toxic(pair, rule)
          /\ f = Finding("ITGC-SOD", <<"user", user>>, user, rule.type, rule.risk)
    BY DEF DetectSodConflicts
  <2>2. PICK rule \in SodMatrix :
          /\ \E pair \in Pairs(a[user]) : Toxic(pair, rule)
          /\ f = Finding("ITGC-SOD", <<"user", user>>, user, rule.type, rule.risk)
    BY <2>1
  <2>3. user \in DOMAIN b /\ Pairs(a[user]) \subseteq Pairs(b[user])
    BY <1>3 DEF Pairs
  <2> QED BY <2>2, <2>3 DEF DetectSodConflicts
<1> QED BY <1>4 DEF a, b

\* A user has one finding for a type of conflict, at most.
LEMMA ConflictRows ==
  ASSUME SodMatrixAssumption, NEW table PROVE OnePerRow(DetectSodConflicts(table))
<1>1. ASSUME NEW f \in DetectSodConflicts(table)
      PROVE  \E user : \E rule \in SodMatrix :
               f = Finding("ITGC-SOD", <<"user", user>>, user, rule.type, rule.risk)
  BY DEF DetectSodConflicts
<1> SUFFICES ASSUME NEW f \in DetectSodConflicts(table), NEW g \in DetectSodConflicts(table),
                    f.row = g.row, f.type = g.type
             PROVE  f = g
  BY DEF OnePerRow
<1>2. /\ \E user : \E rule \in SodMatrix :
            f = Finding("ITGC-SOD", <<"user", user>>, user, rule.type, rule.risk)
      /\ \E user : \E rule \in SodMatrix :
            g = Finding("ITGC-SOD", <<"user", user>>, user, rule.type, rule.risk)
  BY <1>1
<1>3. PICK user, rule : rule \in SodMatrix /\ f = Finding("ITGC-SOD", <<"user", user>>, user, rule.type, rule.risk)
  BY <1>2, Zenon
<1>4. PICK other, by : by \in SodMatrix /\ g = Finding("ITGC-SOD", <<"user", other>>, other, by.type, by.risk)
  BY <1>2, Zenon
<1> DEFINE here == <<"user", user>>
           there == <<"user", other>>
<1>5. here[2] = user /\ there[2] = other
  OBVIOUS
<1> HIDE DEF here, there
<1>6. f = Finding("ITGC-SOD", here, user, rule.type, rule.risk)
      /\ g = Finding("ITGC-SOD", there, other, by.type, by.risk)
  BY <1>3, <1>4 DEF here, there
<1>7. here = there /\ rule.type = by.type
  <2>1. f.row = here /\ f.type = rule.type
    BY <1>6 DEF Finding
  <2>2. g.row = there /\ g.type = by.type
    BY <1>6 DEF Finding
  <2> QED BY <2>1, <2>2
<1>8. rule.risk = by.risk
  BY <1>3, <1>4, <1>7 DEF SodMatrixAssumption
<1> QED BY <1>5, <1>6, <1>7, <1>8

\* The engines find one thing of a kind in a row, at most, and each finds
\* things of its own kinds.
LEMMA DomainRows ==
  ASSUME SodMatrixAssumption, NEW parsed, IsParsed(parsed)
  PROVE  /\ AllApart(DOMAIN DomainAreas, DomainResults(parsed))
         /\ \A d \in DOMAIN DomainAreas : OnePerRow(DomainResults(parsed)[d])
<1> DEFINE r == DomainResults(parsed)
           Rows(type) == RecordsOfType(parsed, type)
           Ops(type) == TestOperationsControls(Rows(type), type)
<1>1. /\ r.sod = {} \/ r.sod = DetectSodConflicts(UserRoles(Rows("users")))
      /\ r.access = TestAccessControls(Rows("users"))
      /\ r.change_management = TestChangeManagement(Rows("changes"))
      /\ r.operations_backup = Ops("backup")
      /\ r.operations_incidents = Ops("incident")
      /\ r.operations_dr = Ops("dr")
      /\ r.itac = RunAllItacTests(Rows("transactions"), Rows("interfaces"))
  BY DEF DomainResults
<1>2. DOMAIN DomainAreas = {"sod", "access", "change_management", "operations_backup",
                            "operations_incidents", "operations_dr", "itac"}
  BY DEF DomainAreas
<1>3. \A d \in DOMAIN DomainAreas : \A f \in r[d] : f.area \in DomainAreas[d]
  BY DomainsRaised DEF Raised
<1> HIDE DEF r, Rows
<1>4. /\ OnePerRow(Ops("backup")) /\ \A f \in Ops("backup") : f.type \in OperationsTypes["backup"]
      /\ OnePerRow(Ops("incident")) /\ \A f \in Ops("incident") : f.type \in OperationsTypes["incident"]
      /\ OnePerRow(Ops("dr")) /\ \A f \in Ops("dr") : f.type \in OperationsTypes["dr"]
  BY OperationsRows
<1>5. OnePerRow({})
  BY DEF OnePerRow
<1>6. OnePerRow(r.sod) /\ OnePerRow(r.access) /\ OnePerRow(r.change_management) /\ OnePerRow(r.itac)
  <2>1. OnePerRow(r.sod)
    <3>1. OnePerRow(DetectSodConflicts(UserRoles(Rows("users"))))
      BY ConflictRows
    <3> QED BY <1>1, <1>5, <3>1
  <2>2. OnePerRow(r.access) /\ OnePerRow(r.change_management) /\ OnePerRow(r.itac)
    BY <1>1, AccessRows, ChangeRows, ItacRows
  <2> QED BY <2>1, <2>2
<1>7. ASSUME NEW d \in DOMAIN DomainAreas PROVE OnePerRow(r[d])
  BY <1>1, <1>2, <1>4, <1>6
<1>8. ASSUME NEW d \in DOMAIN DomainAreas, NEW e \in DOMAIN DomainAreas, d # e PROVE Apart(r[d], r[e])
  <2> DEFINE ops == {"operations_backup", "operations_incidents", "operations_dr"}
  <2>1. CASE d \in ops /\ e \in ops
    <3> DEFINE Kinds == [operations_backup |-> OperationsTypes["backup"],
                         operations_incidents |-> OperationsTypes["incident"],
                         operations_dr |-> OperationsTypes["dr"]]
    <3>1. \A x \in ops : \A f \in r[x] : f.type \in Kinds[x]
      BY <1>1, <1>4
    <3>2. Kinds[d] \cap Kinds[e] = {}
      BY <1>8, <2>1 DEF OperationsTypes
    <3> HIDE DEF Kinds
    <3> QED BY <2>1, <3>1, <3>2 DEF Apart
  <2>2. CASE ~(d \in ops /\ e \in ops)
    <3>1. DomainAreas[d] \cap DomainAreas[e] = {}
      <4> DEFINE Engine(x) == IF x \in ops THEN "operations" ELSE x
                 Of(area) == CASE area = "ITGC-SOD" -> "sod" [] area = "ITGC-LA" -> "access"
                               [] area = "ITGC-CM" -> "change_management"
                               [] area = "ITGC-OPS" -> "operations" [] OTHER -> "itac"
      <4>1. ASSUME NEW x \in DOMAIN DomainAreas, NEW area \in DomainAreas[x] PROVE Of(area) = Engine(x)
        <5>1. /\ DomainAreas["sod"] = {"ITGC-SOD"} /\ DomainAreas["access"] = {"ITGC-LA"}
              /\ DomainAreas["change_management"] = {"ITGC-CM"} /\ DomainAreas["itac"] = Itac
              /\ \A y \in ops : DomainAreas[y] = {"ITGC-OPS"}
          BY DEF DomainAreas
        <5>2. CASE x \in ops
          BY <5>1, <5>2
        <5>3. CASE x = "sod"
          BY <5>1, <5>3
        <5>4. CASE x = "access"
          BY <5>1, <5>4
        <5>5. CASE x = "change_management"
          BY <5>1, <5>5
        <5>6. CASE x = "itac"
          BY <5>1, <5>6 DEF Itac
        <5> QED BY <1>2, <5>2, <5>3, <5>4, <5>5, <5>6
      <4>2. Engine(d) # Engine(e)
        BY <1>2, <1>8, <2>2
      <4> HIDE DEF Engine, Of
      <4> QED BY <4>1, <4>2
    <3> QED BY <1>3, <3>1 DEF Apart
  <2> QED BY <2>1, <2>2
<1> QED BY <1>7, <1>8 DEF AllApart, r

\* Rows of a file that hold more than those of another, without HR master data
\* and with the same recovery tests.
FewerThan(p, q) ==
  /\ IsParsed(p) /\ IsParsed(q)
  /\ \A type : Embedded(RecordsOfType(p, type), RecordsOfType(q, type))
  /\ RecordsOfType(p, "dr") = RecordsOfType(q, "dr")
  /\ RecordsOfType(p, "hr_master") = <<>> /\ RecordsOfType(q, "hr_master") = <<>>

\* The findings of each engine cover those for fewer rows,
LEMMA DomainsDominated ==
  ASSUME NEW p, NEW q, FewerThan(p, q), NEW d \in DOMAIN DomainAreas
  PROVE  Dominated(DomainResults(p)[d], DomainResults(q)[d])
<1> DEFINE Less(type) == RecordsOfType(p, type)
           More(type) == RecordsOfType(q, type)
           r == DomainResults(p)
           s == DomainResults(q)
<1>1. /\ ~SodBlocked(Less("users"), Less("hr_master"))
      /\ ~SodBlocked(More("users"), More("hr_master"))
  BY DEF SodBlocked, FewerThan
<1>2. /\ r.sod = DetectSodConflicts(UserRoles(Less("users")))
      /\ r.access = TestAccessControls(Less("users"))
      /\ r.change_management = TestChangeManagement(Less("changes"))
      /\ r.operations_backup = TestOperationsControls(Less("backup"), "backup")
      /\ r.operations_incidents = TestOperationsControls(Less("incident"), "incident")
      /\ r.operations_dr = TestOperationsControls(Less("dr"), "dr")
      /\ r.itac = RunAllItacTests(Less("transactions"), Less("interfaces"))
  BY <1>1 DEF DomainResults
<1>3. /\ s.sod = DetectSodConflicts(UserRoles(More("users")))
      /\ s.access = TestAccessControls(More("users"))
      /\ s.change_management = TestChangeManagement(More("changes"))
      /\ s.operations_backup = TestOperationsControls(More("backup"), "backup")
      /\ s.operations_incidents = TestOperationsControls(More("incident"), "incident")
      /\ s.operations_dr = TestOperationsControls(More("dr"), "dr")
      /\ s.itac = RunAllItacTests(More("transactions"), More("interfaces"))
  BY <1>1 DEF DomainResults
<1>4. \A type : Embedded(Less(type), More(type)) /\ IsList(More(type))
  BY RowsOfSheets DEF FewerThan
<1>5. Less("dr") = More("dr")
  BY DEF FewerThan
<1> HIDE DEF Less, More, r, s
<1>6. Dominated(r.sod, s.sod)
  <2>1. r.sod \subseteq s.sod
    BY <1>2, <1>3, <1>4, ConflictsKept
  <2> QED BY <2>1, DominatedSubset
<1>7. Dominated(r.access, s.access)
  BY <1>2, <1>3, <1>4, AccessDominated
<1>8. Dominated(r.change_management, s.change_management)
  BY <1>2, <1>3, <1>4, ChangesDominated
<1>9. Dominated(r.operations_backup, s.operations_backup) /\ Dominated(r.operations_incidents, s.operations_incidents)
  BY <1>2, <1>3, <1>4, OperationsDominated
<1>10. Dominated(r.operations_dr, s.operations_dr)
  <2>1. r.operations_dr \subseteq s.operations_dr
    BY <1>2, <1>3, <1>5
  <2> QED BY <2>1, DominatedSubset
<1>11. Dominated(r.itac, s.itac)
  BY <1>2, <1>3, <1>4, ItacDominated
<1>12. DOMAIN DomainAreas = {"sod", "access", "change_management", "operations_backup",
                             "operations_incidents", "operations_dr", "itac"}
  BY DEF DomainAreas
<1>13. Dominated(r[d], s[d])
  BY <1>6, <1>7, <1>8, <1>9, <1>10, <1>11, <1>12
<1> QED BY <1>13 DEF r, s

\* ... and so do those of all engines together.
LEMMA AllDominated ==
  ASSUME SodMatrixAssumption, NEW p, NEW q, FewerThan(p, q)
  PROVE  /\ Dominated(AllFindings(DomainResults(p)), AllFindings(DomainResults(q)))
         /\ OnePerRow(AllFindings(DomainResults(q)))
<1> DEFINE D == DOMAIN DomainAreas
           r == DomainResults(p)
           s == DomainResults(q)
<1>1. DOMAIN r = D /\ DOMAIN s = D
  BY DomainsRaised DEF FewerThan
<1>2. AllApart(D, r) /\ AllApart(D, s) /\ \A d \in D : OnePerRow(s[d])
  BY DomainRows DEF FewerThan
<1>3. \A d \in D : Dominated(r[d], s[d])
  BY DomainsDominated
<1> HIDE DEF D, r, s
<1>4. AllFindings(r) = UnionOf(D, r) /\ AllFindings(s) = UnionOf(D, s)
  BY <1>1 DEF AllFindings, UnionOf
<1>5. Dominated(UnionOf(D, r), UnionOf(D, s))
  BY <1>2, <1>3, DominatedUnion
<1>6. OnePerRow(UnionOf(D, s))
  BY <1>2, OnePerRowUnion
<1> QED BY <1>4, <1>5, <1>6 DEF r, s

\* Linking the findings to the transactions lets them cover what they cover, as
\* long as no description that involves a user gets lost.
LEMMA LinkedDominated ==
  ASSUME NEW S, NEW T, \A f \in S \cup T : IsFinding(f), NEW less, NEW more,
         Dominated(S, T), OnePerRow(T),
         \A f \in S : \A texts \in less :
           Corroborates(texts, f) => \E others \in more : Corroborates(others, f)
  PROVE  Dominated(Corroborated(S, less), Corroborated(T, more))
<1> DEFINE Involved(f, descriptions) == \E texts \in descriptions : Corroborates(texts, f)
           Linked(f, descriptions) ==
             [f EXCEPT !.risk_level = IF Involved(f, descriptions) THEN "CRITICAL" ELSE @]
           C(f) == Linked(f, less)
           E(g) == Linked(g, more)
<1>1. Corroborated(S, less) = {C(f) : f \in S} /\ Corroborated(T, more) = {E(g) : g \in T}
  BY DEF Corroborated
<1>2. ASSUME NEW f, IsFinding(f), NEW descriptions
      PROVE  LET c == Linked(f, descriptions)
             IN /\ c.area = f.area /\ c.row = f.row /\ c.subject = f.subject /\ c.type = f.type
                /\ c.risk_level = IF Involved(f, descriptions) THEN "CRITICAL" ELSE f.risk_level
  <2> HIDE DEF Involved
  <2> QED BY <1>2 DEF IsFinding, Finding
<1>3. PICK w : Dominates(w, S, T)
  BY DEF Dominated
<1>4. \A f \in S : w[f] \in T /\ Covers(f, w[f])
  BY <1>3 DEF Dominates, Injection
<1>5. ASSUME NEW f \in S, Involved(f, less) PROVE Involved(w[f], more)
  <2>1. PICK texts \in more : Corroborates(texts, f)
    BY <1>5
  <2>2. f.area \in {"ITGC-SOD", "ITGC-LA"}
    BY <2>1 DEF Corroborates
  <2>3. w[f].area = f.area /\ w[f].subject = f.subject
    BY <1>4, <2>2 DEF Covers
  <2>4. Corroborates(texts, w[f])
    BY <2>1, <2>3 DEF Corroborates, ReportedUser
  <2> QED BY <2>4
<1> HIDE DEF Involved, Linked
<1>6. ASSUME NEW f \in S PROVE Covers(C(f), E(w[f]))
  <2> DEFINE g == w[f]
  <2>1. g \in T /\ Covers(f, g)
    BY <1>4
  <2>2. /\ C(f).area = f.area /\ C(f).subject = f.subject /\ C(f).type = f.type
        /\ C(f).risk_level = IF Involved(f, less) THEN "CRITICAL" ELSE f.risk_level
    BY <1>2
  <2>3. /\ E(g).area = g.area /\ E(g).subject = g.subject /\ E(g).type = g.type
        /\ E(g).risk_level = IF Involved(g, more) THEN "CRITICAL" ELSE g.risk_level
    BY <1>2, <2>1
  <2>4. Involved(f, less) => Involved(g, more)
    BY <1>5
  <2>5. \A upper \in Uppers : "CRITICAL" \in upper
    BY DEF Uppers, RiskLevels
  <2> HIDE DEF g, C, E
  <2>6. AsBad(C(f), E(g))
    BY <2>1, <2>2, <2>3, <2>4, <2>5 DEF Covers, AsBad
  <2>7. Covers(C(f), E(g))
    BY <2>1, <2>2, <2>3, <2>6 DEF Covers
  <2> QED BY <2>7 DEF g
<1>7. ASSUME NEW f \in S, NEW g \in S, E(w[f]) = E(w[g]) PROVE f = g
  <2>1. w[f] \in T /\ w[g] \in T
    BY <1>4
  <2>2. w[f].area = w[g].area /\ w[f].row = w[g].row /\ w[f].type = w[g].type
    <3>1. /\ E(w[f]).area = w[f].area /\ E(w[f]).row = w[f].row /\ E(w[f]).type = w[f].type
          /\ E(w[g]).area = w[g].area /\ E(w[g]).row = w[g].row /\ E(w[g]).type = w[g].type
      BY <1>2, <2>1
    <3> HIDE DEF E
    <3> QED BY <1>7, <3>1
  <2>3. w[f] = w[g]
    BY <2>1, <2>2 DEF OnePerRow
  <2> QED BY <1>3, <2>3 DEF Dominates, Injection
<1> HIDE DEF C, E
<1> DEFINE From(c) == CHOOSE f \in S : C(f) = c
           v == [c \in Corroborated(S, less) |-> E(w[From(c)])]
<1>8. \A c \in Corroborated(S, less) : From(c) \in S /\ C(From(c)) = c
  BY <1>1
<1> HIDE DEF From
<1>9. ASSUME NEW c \in Corroborated(S, less) PROVE v[c] \in Corroborated(T, more) /\ Covers(c, v[c])
  <2>1. From(c) \in S /\ C(From(c)) = c /\ v[c] = E(w[From(c)])
    BY <1>8
  <2> HIDE DEF v
  <2>2. w[From(c)] \in T
    BY <1>4, <2>1
  <2>3. v[c] \in Corroborated(T, more)
    BY <1>1, <2>1, <2>2
  <2> QED BY <1>6, <2>1, <2>3
<1>10. ASSUME NEW c \in Corroborated(S, less), NEW e \in Corroborated(S, less), v[c] = v[e] PROVE c = e
  <2>1. /\ From(c) \in S /\ C(From(c)) = c /\ v[c] = E(w[From(c)])
        /\ From(e) \in S /\ C(From(e)) = e /\ v[e] = E(w[From(e)])
    BY <1>8
  <2>2. From(c) = From(e)
    BY <1>7, <1>10, <2>1
  <2> QED BY <2>1, <2>2
<1>11. v \in [Corroborated(S, less) -> Corroborated(T, more)]
  BY <1>9
<1> HIDE DEF v
<1>12. Dominates(v, Corroborated(S, less), Corroborated(T, more))
  BY <1>9, <1>10, <1>11 DEF Dominates, Injection
<1> QED BY <1>12 DEF Dominated

\* More rows score no less, unless fewer transactions make a user out of how
\* often a payment was found.
LEMMA FewerScoreNoMore ==
  ASSUME SodMatrixAssumption, NEW p, NEW q, FewerThan(p, q),
         RecordsOfType(p, "transactions") = RecordsOfType(q, "transactions") \/ ~Miscounted(p)
  PROVE  RunAuditEngine(p).overall_risk_score <= RunAuditEngine(q).overall_risk_score
<1> DEFINE S == AllFindings(DomainResults(p))
           T == AllFindings(DomainResults(q))
           less == RecordsOfType(p, "transactions")
           more == RecordsOfType(q, "transactions")
           fewer == RecordsOfType(p, "interfaces")
           all == RecordsOfType(q, "interfaces")
           said == Described(S, less, fewer)
           told == Described(T, more, all)
<1>1. /\ RunAuditEngine(p).overall_risk_score = ComputeRiskScore(ByRisk(Corroborated(S, said)))
      /\ RunAuditEngine(q).overall_risk_score = ComputeRiskScore(ByRisk(Corroborated(T, told)))
  BY Zenon DEF RunAuditEngine
<1>2. Raised(S, Areas) /\ Raised(T, Areas)
  BY AllRaised DEF FewerThan
<1>3. Dominated(S, T) /\ OnePerRow(T)
  BY AllDominated
<1>4. /\ {f \in S : f.area \in Itac} = RunAllItacTests(less, fewer)
      /\ {f \in T : f.area \in Itac} = RunAllItacTests(more, all)
  BY ItacDomain DEF FewerThan
<1>5. IsList(more) /\ Embedded(less, more) /\ Embedded(fewer, all)
  BY RowsOfSheets DEF FewerThan
<1>6. less = more \/ \A f \in S : \A g \in S :
                       g.type = "DUPLICATE_PAYMENT_RISK" => ~Corroborates(Tally(g, less), f)
  BY DEF Miscounted
<1> HIDE DEF S, T, less, more, fewer, all
<1>7. /\ said = {Description(f, less, fewer) : f \in {f \in S : f.area \in Itac}}
      /\ told = {Description(f, more, all) : f \in {f \in T : f.area \in Itac}}
  BY DEF Described
<1> HIDE DEF said, told, Itac
<1>8. \A f \in S : \A texts \in said : Corroborates(texts, f) => \E others \in told : Corroborates(others, f)
  <2> SUFFICES ASSUME NEW f \in S, NEW texts \in said, Corroborates(texts, f)
               PROVE  \E others \in told : Corroborates(others, f)
    OBVIOUS
  <2>1. PICK h \in S : h.area \in Itac /\ texts = Description(h, less, fewer)
    BY <1>7
  <2>2. PICK text \in texts : ReportedUser(f) \in NamesIn(text)
    BY DEF Corroborates
  <2>3. h \in RunAllItacTests(less, fewer) /\ text \in Description(h, less, fewer)
    BY <1>4, <2>1, <2>2
  <2>4. less = more \/ h.type # "DUPLICATE_PAYMENT_RISK" \/ text \notin Tally(h, less)
    <3> SUFFICES ASSUME less # more, h.type = "DUPLICATE_PAYMENT_RISK", text \in Tally(h, less) PROVE FALSE
      OBVIOUS
    <3>1. Corroborates(Tally(h, less), f)
      BY <2>2 DEF Corroborates
    <3> QED BY <1>6, <3>1
  <2>5. \E g \in RunAllItacTests(more, all) : text \in Description(g, more, all)
    BY <1>5, <2>3, <2>4, DescribedKept
  <2>6. PICK g \in RunAllItacTests(more, all) : text \in Description(g, more, all)
    BY <2>5
  <2>7. Description(g, more, all) \in told
    BY <1>4, <1>7, <2>6
  <2>8. Corroborates(Description(g, more, all), f)
    BY <2>2, <2>6 DEF Corroborates
  <2> QED BY <2>7, <2>8
<1>9. Dominated(Corroborated(S, said), Corroborated(T, told))
  BY <1>2, <1>3, <1>8, LinkedDominated DEF Raised
<1>10. IsFiniteSet(Corroborated(S, said)) /\ IsFiniteSet(Corroborated(T, told))
  BY <1>2, CorroboratedRaised DEF Raised
<1> QED BY <1>1, <1>9, <1>10, DominatedScore

\* A file has no rows of a type that none of its sheets is of.
LEMMA NoSheetNoRows ==
  ASSUME NEW file, IsFile(file), NEW type, \A k \in DOMAIN file : DetectDataType(file[k].columns) # type
  PROVE  RecordsOfType(ParseFile(file), type) = <<>>
<1> DEFINE parsed == ParseFile(file)
           rows == RecordsOfType(parsed, type)
<1>1. IsParsed(parsed)
  BY FileParsed
<1>2. \A k \in DOMAIN parsed : parsed[k].data_type # type
  BY DEF ParseFile, ParseSheet
<1> HIDE DEF parsed
<1>3. IsList(rows) /\ {rows[k] : k \in DOMAIN rows} = {}
  BY <1>1, <1>2, RowsOfSheets DEF SheetRows
<1> HIDE DEF rows
<1>4. Len(rows) \in Nat /\ DOMAIN rows = 1..Len(rows) /\ rows \in Seq({rows[k] : k \in DOMAIN rows})
  BY <1>3, ListProperties
<1>5. rows = <<>>
  BY <1>3, <1>4, EmptySeq
<1> QED BY <1>5 DEF rows, parsed

\* A file without a sheet that is neither HR master data nor a list of recovery
\* tests has fewer rows, and the same transactions if the sheet has none.
LEMMA SheetLeftOut ==
  ASSUME NEW file, IsFile(file), NEW s \in DOMAIN file,
         \A k \in DOMAIN file : DetectDataType(file[k].columns) # "hr_master",
         DetectDataType(file[s].columns) # "dr"
  PROVE  /\ FewerThan(ParseFile(Ext!RemoveAt(file, s)), ParseFile(file))
         /\ DetectDataType(file[s].columns) # "transactions" =>
              RecordsOfType(ParseFile(Ext!RemoveAt(file, s)), "transactions")
                = RecordsOfType(ParseFile(file), "transactions")
<1> DEFINE rest == Ext!RemoveAt(file, s)
<1>1. /\ IsFile(rest) /\ Len(rest) = Len(file) - 1
      /\ \A k \in 1..(Len(file) - 1) : rest[k] = file[IF k < s THEN k ELSE k + 1]
  BY SheetRemoved
<1>2. \A type : /\ Embedded(RecordsOfType(ParseFile(rest), type), RecordsOfType(ParseFile(file), type))
                /\ SheetAdds(file[s], type) = <<>> =>
                     RecordsOfType(ParseFile(rest), type) = RecordsOfType(ParseFile(file), type)
  BY FewerRows
<1> HIDE DEF rest
<1>3. IsParsed(ParseFile(rest)) /\ IsParsed(ParseFile(file))
  BY <1>1, FileParsed
<1>4. RecordsOfType(ParseFile(rest), "dr") = RecordsOfType(ParseFile(file), "dr")
  <2>1. SheetAdds(file[s], "dr") = <<>>
    BY DEF SheetAdds, ParseSheet
  <2> QED BY <1>2, <2>1
<1>5. RecordsOfType(ParseFile(file), "hr_master") = <<>>
  BY NoSheetNoRows
<1>6. RecordsOfType(ParseFile(rest), "hr_master") = <<>>
  <2>1. DOMAIN rest = 1..(Len(file) - 1) /\ DOMAIN file = 1..Len(file) /\ Len(file) \in Nat
    BY <1>1, FileParsed
  <2>2. ASSUME NEW k \in DOMAIN rest PROVE \E n \in DOMAIN file : rest[k] = file[n]
    <3> DEFINE n == IF k < s THEN k ELSE k + 1
    <3>1. n \in DOMAIN file
      BY <2>1
    <3> QED BY <1>1, <2>1, <3>1
  <2>3. \A k \in DOMAIN rest : DetectDataType(rest[k].columns) # "hr_master"
    BY <2>2
  <2> QED BY <1>1, <2>3, NoSheetNoRows
<1>7. FewerThan(ParseFile(rest), ParseFile(file))
  BY <1>2, <1>3, <1>4, <1>5, <1>6 DEF FewerThan
<1>8. ASSUME DetectDataType(file[s].columns) # "transactions"
      PROVE  RecordsOfType(ParseFile(rest), "transactions") = RecordsOfType(ParseFile(file), "transactions")
  <2>1. SheetAdds(file[s], "transactions") = <<>>
    BY <1>8 DEF SheetAdds, ParseSheet
  <2> QED BY <1>2, <2>1
<1> QED BY <1>7, <1>8 DEF rest

\* For any files and any rules: leaving a sheet out never makes the audited
\* system look worse, where there is no HR master data, the sheet does not list
\* recovery tests, and no user's id occurs in how often the transactions that
\* are left say a payment was found.
THEOREM EngineLessDataNoWorse == Spec => []LessDataNoWorse
<1>1. EngineIInv => LessDataNoWorse
  <2> SUFFICES ASSUME EngineIInv, Analysed, NEW s \in DOMAIN response.file,
                      \A h \in DOMAIN response.file :
                        DetectDataType(response.file[h].columns) # "hr_master",
                      DetectDataType(response.file[s].columns) # "dr",
                      \/ DetectDataType(response.file[s].columns) # "transactions"
                      \/ ~Miscounted(ParseFile(Ext!RemoveAt(response.file, s)))
               PROVE  Analysis(Ext!RemoveAt(response.file, s)).overall_risk_score
                        <= response.result.overall_risk_score
    BY DEF LessDataNoWorse
  <2>1. response.status = 102
    BY DEF Analysed, EngineIInv, Transacting
  <2>2. PICK file \in Uploads : response = Answer(102, file)
    BY <2>1 DEF EngineIInv, Answers
  <2>3. response.file = file /\ response.result = RunAuditEngine(ParseFile(file))
    BY <2>2 DEF Answer
  <2>4. IsFile(file)
    BY ParsedLists, UploadsAssumption
  <2>5. /\ FewerThan(ParseFile(Ext!RemoveAt(file, s)), ParseFile(file))
        /\ \/ RecordsOfType(ParseFile(Ext!RemoveAt(file, s)), "transactions")
                = RecordsOfType(ParseFile(file), "transactions")
           \/ ~Miscounted(ParseFile(Ext!RemoveAt(file, s)))
    BY <2>3, <2>4, SheetLeftOut
  <2>6. RunAuditEngine(ParseFile(Ext!RemoveAt(file, s))).overall_risk_score
          <= RunAuditEngine(ParseFile(file)).overall_risk_score
    BY <2>5, FewerScoreNoMore, SodMatrixAssumption
  <2>7. Analysis(Ext!RemoveAt(file, s)) = RunAuditEngine(ParseFile(Ext!RemoveAt(file, s)))
    BY DEF Analysis
  <2> QED BY <2>3, <2>6, <2>7
<1> QED BY EngineInvariant, <1>1, PTL
-----------------------------------------------------------------------------
\* Samples (AuditSampling).  The first loop leaves the running totals in
\* prefix; the second walks the same totals, and every pick is the row whose
\* share of the book value its target lies in.
USE DEF Positive, SmallerOf

\* The total before row r, and after the rows passed over.
Before(r) == IF r = 1 THEN 0 ELSE prefix[r - 1]
Reached == IF i = 0 THEN 0 ELSE prefix[i]

\* The running totals are those of the amounts, never fall and end in total.
Totals ==
  /\ Len(prefix) <= Len(amounts)
  /\ \A r \in 1..Len(prefix) : prefix[r] = Before(r) + Positive(amounts[r])
  /\ \A r, q \in 1..Len(prefix) : r <= q => prefix[r] <= prefix[q]
  /\ total = IF prefix = <<>> THEN 0 ELSE prefix[Len(prefix)]

\* Before the second loop nothing is picked; within it the two loops agree and
\* the next target is not behind the row at hand.
Fresh == size = 0 /\ start = 0 /\ cumulative = 0 /\ picks = <<>>
Summing == phase = "sum" => Fresh /\ Len(prefix) = i
Picking ==
  phase = "pick" =>
    /\ total > 0 /\ start <= total /\ size > 0
    /\ Len(prefix) = Len(amounts) /\ cumulative = Reached
    /\ Len(picks) <= size
    /\ i = 0 => picks = <<>>
    /\ (i > 0 /\ Len(picks) < size) => Before(i) * size <= start + Len(picks) * total

\* A monetary sample is drawn from all rows.
Sampled ==
  (phase = "done" /\ total > 0) =>
    start <= total /\ Len(prefix) = Len(amounts) /\ size > 0

\* Every pick's target lies in the amount of its row.
Windows ==
  total > 0 => \A k \in DOMAIN picks :
    /\ picks[k] \in 1..Len(prefix)
    /\ Before(picks[k]) * size <= start + (k - 1) * total
    /\ start + (k - 1) * total <= prefix[picks[k]] * size

SamplingIInv ==
  /\ SampleTypeOK
  /\ phase = "idle" => amounts = <<>> /\ i = 0 /\ total = 0 /\ prefix = <<>> /\ Fresh
  /\ Totals /\ Summing /\ Picking
  /\ SampleIsFull /\ Sampled
  /\ Windows
-----------------------------------------------------------------------------
\* One interval more still fits below as many intervals as are planned.
LEMMA Multiples ==
  ASSUME NEW s \in Nat, NEW k \in Nat, NEW t \in Nat, k < s
  PROVE  k * t + t <= s * t
<1>1. PICK d \in Nat : s = k + 1 + d
  <2>1. s - k - 1 \in Nat
    OBVIOUS
  <2> QED BY <2>1
<1>2. d * t \in Nat
  OBVIOUS
<1>3. s * t = k * t + t + d * t
  BY <1>1
<1> QED BY <1>2, <1>3

\* The size planned for any book value is a number.
LEMMA PlannedType ==
  ASSUME NEW v \in Nat, PlanningAssumption PROVE Planned(v) \in Nat \ {0}
<1>1. (ConfidenceFactor * v + Denominator - 1) \div Denominator \in Int
  BY DEF PlanningAssumption
<1> QED BY <1>1 DEF Planned

\* Appending keeps what a sequence held and adds one position.
LEMMA Appended ==
  ASSUME NEW S, NEW s \in Seq(S), NEW e \in S
  PROVE  /\ Append(s, e) \in Seq(S) /\ Len(Append(s, e)) = Len(s) + 1
         /\ DOMAIN Append(s, e) = 1..(Len(s) + 1) /\ DOMAIN s = 1..Len(s)
         /\ Append(s, e)[Len(s) + 1] = e
         /\ \A k \in 1..Len(s) : Append(s, e)[k] = s[k]
<1>1. Append(s, e) \in Seq(S) /\ Len(Append(s, e)) = Len(s) + 1
  BY AppendProperties
<1>2. DOMAIN Append(s, e) = 1..(Len(s) + 1) /\ DOMAIN s = 1..Len(s)
  BY <1>1, LenProperties
<1>3. Append(s, e)[Len(s) + 1] = e /\ \A k \in 1..Len(s) : Append(s, e)[k] = s[k]
  BY AppendProperties
<1> QED BY <1>1, <1>2, <1>3

\* The invariant holds before anything is requested.
LEMMA SamplingInit == SampleInit => SamplingIInv
BY DEF SampleInit, SamplingIInv, SampleTypeOK, Totals, Summing, Picking, Fresh, SampleIsFull, Sampled, Windows

\* Drawing rows leaves the sums alone and fills the sample.
LEMMA AttributeStep ==
  ASSUME SamplingIInv, NEW population \in Seq(Int), NEW n \in Int,
         AttributeSample(population, n), total = 0, Fresh,
         (i = 0 /\ prefix = <<>>) \/ population = amounts
  PROVE  SamplingIInv'
<1> USE DEF AttributeSample
<1>1. total' = 0 /\ phase' \in {"done", "error"}
  OBVIOUS
<1>2. Totals'
  <2>1. prefix' = prefix /\ total' = total /\ amounts' = population
    OBVIOUS
  <2>2. CASE population = amounts
    BY <2>1, <2>2 DEF SamplingIInv, Totals, Before
  <2>3. CASE prefix = <<>>
    <3>1. Len(prefix') = 0 /\ Len(population) \in Nat
      BY <2>1, <2>3, EmptySeq, LenProperties
    <3> QED BY <1>1, <2>1, <2>3, <3>1 DEF Totals
  <2> QED BY <2>2, <2>3
<1>3. size' \in Nat /\ picks' \in Seq(1..Len(population)) /\ SampleIsFull'
  <2>1. CASE n <= 0
    <3>1. phase' = "error" /\ size' = 0 /\ picks' = <<>>
      BY <2>1 DEF Fresh
    <3> QED BY <3>1, EmptySeq DEF SampleIsFull
  <2>2. CASE n > 0
    <3>1. size' \in Nat /\ picks' \in [1..size' -> 1..Len(population)]
      BY <2>2
    <3>2. picks' \in Seq(1..Len(population)) /\ Len(picks') = size'
      BY <3>1
    <3> QED BY <3>1, <3>2 DEF SampleIsFull
  <2> QED BY <2>1, <2>2
<1>4. SampleTypeOK'
  BY <1>1, <1>3 DEF SamplingIInv, SampleTypeOK, Fresh
<1> QED BY <1>1, <1>2, <1>3, <1>4 DEF SamplingIInv, Summing, Picking, Sampled, Windows

\* A request for monetary units starts the first loop afresh.
LEMMA RequestMusStep ==
  ASSUME SamplingIInv, PlanningAssumption, NEW population \in Populations, RequestMus(population)
  PROVE  SamplingIInv'
<1>1. population \in Seq(Int) /\ Len(population) \in Nat
  BY LenProperties DEF PlanningAssumption
<1>2. /\ amounts' = population /\ phase' \in {"done", "sum"}
      /\ i' = 0 /\ total' = 0 /\ prefix' = <<>> /\ Fresh'
  BY DEF SamplingIInv, RequestMus, Fresh
<1>3. Len(prefix') = 0 /\ prefix' \in Seq(Nat) /\ picks' \in Seq(1..Len(population)) /\ Len(picks') = 0
  BY <1>2, EmptySeq DEF Fresh
<1>4. SampleTypeOK'
  BY <1>1, <1>2, <1>3 DEF SampleTypeOK, Fresh
<1>5. Totals'
  BY <1>1, <1>2, <1>3 DEF Totals
<1> QED
  BY <1>2, <1>3, <1>4, <1>5 DEF SamplingIInv, Summing, Picking, Fresh, SampleIsFull, Sampled, Windows

\* One row more in the first loop: the total and its trace grow together.
LEMMA SumAmountStep == ASSUME SamplingIInv, SumAmount PROVE SamplingIInv'
<1> DEFINE v == total + Positive(amounts[i + 1])
<1>1. /\ i \in Nat /\ i < Len(amounts) /\ Len(amounts) \in Nat /\ Fresh /\ Len(prefix) = i
      /\ total \in Nat /\ prefix \in Seq(Nat) /\ phase = "sum" /\ amounts \in Seq(Int)
  BY LenProperties DEF SamplingIInv, SampleTypeOK, SumAmount, Summing
<1>2. i' = i + 1 /\ total' = v /\ prefix' = Append(prefix, v)
      /\ UNCHANGED <<phase, amounts, size, start, cumulative, picks>>
  BY DEF SumAmount
<1>3. amounts[i + 1] \in Int /\ v \in Nat /\ total <= v
  BY <1>1, ElementOfSeq
<1> HIDE DEF v
<1>4. /\ prefix' \in Seq(Nat) /\ Len(prefix') = i + 1 /\ prefix'[i + 1] = v
      /\ \A r \in 1..i : prefix'[r] = prefix[r] /\ prefix[r] \in Nat
  <2>1. /\ Append(prefix, v) \in Seq(Nat) /\ Len(Append(prefix, v)) = Len(prefix) + 1
        /\ Append(prefix, v)[Len(prefix) + 1] = v
        /\ \A r \in 1..Len(prefix) : Append(prefix, v)[r] = prefix[r]
    BY <1>1, <1>3, Appended
  <2>2. \A r \in 1..Len(prefix) : prefix[r] \in Nat
    BY <1>1, ElementOfSeq
  <2> QED BY <1>1, <1>2, <2>1, <2>2
<1>5. total = IF i = 0 THEN 0 ELSE prefix[i]
  BY <1>1, EmptySeq DEF SamplingIInv, Totals
<1>6. \A r \in 1..Len(prefix') : prefix'[r] = Before(r)' + Positive(amounts'[r])
  <2> SUFFICES ASSUME NEW r \in 1..(i + 1) PROVE prefix'[r] = Before(r)' + Positive(amounts[r])
    BY <1>2, <1>4
  <2>1. CASE r \in 1..i
    <3>1. prefix[r] = Before(r) + Positive(amounts[r])
      BY <1>1, <2>1 DEF SamplingIInv, Totals
    <3>2. Before(r)' = Before(r)
      BY <1>1, <1>4, <2>1 DEF Before
    <3> QED BY <1>4, <2>1, <3>1, <3>2
  <2>2. CASE r = i + 1
    <3>1. Before(r)' = total
      BY <1>1, <1>4, <1>5, <2>2 DEF Before
    <3> QED BY <1>4, <2>2, <3>1 DEF v
  <2> QED BY <1>1, <2>1, <2>2
<1>7. \A r, q \in 1..Len(prefix') : r <= q => prefix'[r] <= prefix'[q]
  <2> SUFFICES ASSUME NEW r \in 1..(i + 1), NEW q \in 1..(i + 1), r <= q
               PROVE  prefix'[r] <= prefix'[q]
    BY <1>4
  <2>1. CASE q \in 1..i
    <3>1. r \in 1..i
      BY <1>1, <2>1
    <3>2. prefix[r] <= prefix[q]
      BY <1>1, <2>1, <3>1 DEF SamplingIInv, Totals
    <3> QED BY <1>4, <2>1, <3>1, <3>2
  <2>2. CASE q = i + 1 /\ r \in 1..i
    <3>1. prefix[r] <= prefix[i] /\ prefix[i] = total /\ prefix[r] \in Nat
      BY <1>1, <1>4, <1>5, <2>2 DEF SamplingIInv, Totals
    <3> QED BY <1>1, <1>3, <1>4, <2>2, <3>1
  <2>3. CASE q = i + 1 /\ r = i + 1
    BY <1>3, <1>4, <2>3
  <2> QED BY <1>1, <2>1, <2>2, <2>3
<1>8. Totals'
  BY <1>1, <1>2, <1>4, <1>6, <1>7, EmptySeq DEF Totals
<1>9. SampleTypeOK'
  BY <1>1, <1>2, <1>3, <1>4 DEF SamplingIInv, SampleTypeOK
<1>10. Windows'
  BY <1>1, <1>2, EmptySeq DEF Windows, Fresh
<1> QED
  BY <1>1, <1>2, <1>4, <1>8, <1>9, <1>10 DEF SamplingIInv, Summing, Picking, Fresh, SampleIsFull, Sampled

\* The plan fixes size and start and hands the totals to the second loop.
LEMMA PlanStep == ASSUME SamplingIInv, PlanningAssumption, Plan PROVE SamplingIInv'
<1>1. /\ total \in Nat /\ total > 0 /\ Len(amounts) \in Nat /\ Fresh /\ Len(prefix) = Len(amounts)
      /\ amounts \in Seq(Int) /\ prefix \in Seq(Nat)
  BY LenProperties DEF SamplingIInv, SampleTypeOK, Plan, Summing
<1>2. Len(amounts) > 0
  BY <1>1, EmptySeq DEF SamplingIInv, Totals
<1>3. size' \in Nat /\ size' > 0
  BY <1>1, <1>2, PlannedType DEF Plan
<1>4. /\ start' \in Nat /\ start' <= total /\ i' = 0 /\ phase' = "pick"
      /\ UNCHANGED <<amounts, total, prefix, cumulative, picks>>
  BY <1>1 DEF Plan
<1>5. Totals'
  BY <1>4 DEF SamplingIInv, Totals, Before
<1>6. SampleTypeOK'
  BY <1>1, <1>3, <1>4 DEF SamplingIInv, SampleTypeOK
<1>7. Picking'
  BY <1>1, <1>3, <1>4, EmptySeq DEF Picking, Reached, Fresh
<1>8. Windows'
  BY <1>1, <1>4, EmptySeq DEF Windows, Fresh
<1> QED BY <1>4, <1>5, <1>6, <1>7, <1>8 DEF SamplingIInv, Summing, SampleIsFull, Sampled

\* A row is left only when its amount does not reach the next target.
LEMMA NextRowStep == ASSUME SamplingIInv, NextRow PROVE SamplingIInv'
<1>1. /\ i \in Nat /\ i < Len(amounts) /\ Len(amounts) \in Nat /\ phase = "pick"
      /\ amounts \in Seq(Int) /\ prefix \in Seq(Nat) /\ picks \in Seq(1..Len(amounts))
      /\ total \in Nat /\ size \in Nat /\ start \in Nat /\ Len(picks) \in Nat
      /\ total > 0 /\ start <= total /\ size > 0 /\ Len(prefix) = Len(amounts)
      /\ cumulative = Reached /\ Len(picks) <= size /\ (i = 0 => picks = <<>>)
  BY LenProperties DEF SamplingIInv, SampleTypeOK, NextRow, Picking
<1>2. /\ i' = i + 1 /\ cumulative' = cumulative + Positive(amounts[i + 1])
      /\ UNCHANGED <<phase, amounts, total, prefix, size, start, picks>>
  BY DEF NextRow
<1>3. Before(i + 1) = cumulative /\ cumulative \in Nat
  BY <1>1, ElementOfSeq DEF Before, Reached
<1>4. prefix[i + 1] = Before(i + 1) + Positive(amounts[i + 1]) /\ prefix[i + 1] \in Nat
  <2>1. i + 1 \in 1..Len(prefix)
    BY <1>1
  <2>2. prefix[i + 1] \in Nat
    BY <1>1, <2>1, ElementOfSeq
  <2> QED BY <2>1, <2>2 DEF SamplingIInv, Totals
<1>5. cumulative' = Reached' /\ cumulative' \in Nat
  BY <1>1, <1>2, <1>3, <1>4 DEF Reached
<1>6. Totals'
  BY <1>2 DEF SamplingIInv, Totals, Before
<1>7. SampleTypeOK'
  BY <1>1, <1>2, <1>5 DEF SamplingIInv, SampleTypeOK
<1>8. Len(picks) < size => (Before(i))' * size <= start + Len(picks) * total
  <2>1. (Before(i))' = cumulative
    BY <1>1, <1>2, <1>3 DEF Before
  <2>2. CASE i = 0
    <3>1. cumulative = 0 /\ Len(picks) * total = 0
      BY <1>1, <2>2, EmptySeq DEF Reached
    <3> QED BY <1>1, <2>1, <3>1
  <2>3. CASE i > 0
    <3>1. Len(picks) < size => ~(cumulative * size >= start + Len(picks) * total)
      BY <2>3 DEF NextRow, TargetReached
    <3>2. cumulative * size \in Int /\ Len(picks) * total \in Int
      BY <1>1, <1>3
    <3> QED BY <1>1, <2>1, <3>1, <3>2
  <2> QED BY <1>1, <2>2, <2>3
<1>9. Picking'
  BY <1>1, <1>2, <1>5, <1>8 DEF Picking
<1>10. Windows'
  BY <1>2 DEF SamplingIInv, Windows, Before
<1> QED BY <1>1, <1>2, <1>6, <1>7, <1>9, <1>10 DEF SamplingIInv, Summing, SampleIsFull, Sampled

\* A pick lies in the amount of its row, and the next target lies ahead of it.
LEMMA PickRowStep == ASSUME SamplingIInv, PickRow PROVE SamplingIInv'
<1>1. /\ i \in Nat /\ i > 0 /\ i <= Len(amounts) /\ Len(amounts) \in Nat /\ phase = "pick"
      /\ amounts \in Seq(Int) /\ prefix \in Seq(Nat) /\ picks \in Seq(1..Len(amounts))
      /\ total \in Nat /\ size \in Nat /\ start \in Nat /\ Len(picks) \in Nat
      /\ total > 0 /\ start <= total /\ size > 0 /\ Len(prefix) = Len(amounts)
      /\ cumulative = prefix[i] /\ cumulative \in Nat
      /\ Len(picks) < size /\ cumulative * size >= start + Len(picks) * total
      /\ Before(i) * size <= start + Len(picks) * total
  BY LenProperties DEF SamplingIInv, SampleTypeOK, PickRow, TargetReached, Picking, Reached
<1>2. /\ picks' = Append(picks, i)
      /\ UNCHANGED <<phase, amounts, i, total, prefix, size, start, cumulative>>
  BY DEF PickRow
<1>3. /\ picks' \in Seq(1..Len(amounts)) /\ Len(picks') = Len(picks) + 1
      /\ picks'[Len(picks) + 1] = i
      /\ \A k \in 1..Len(picks) : picks'[k] = picks[k]
      /\ DOMAIN picks' = 1..(Len(picks) + 1) /\ DOMAIN picks = 1..Len(picks)
  <2>1. i \in 1..Len(amounts)
    BY <1>1
  <2>2. /\ Append(picks, i) \in Seq(1..Len(amounts)) /\ Len(Append(picks, i)) = Len(picks) + 1
        /\ DOMAIN Append(picks, i) = 1..(Len(picks) + 1) /\ DOMAIN picks = 1..Len(picks)
        /\ Append(picks, i)[Len(picks) + 1] = i
        /\ \A k \in 1..Len(picks) : Append(picks, i)[k] = picks[k]
    BY <1>1, <2>1, Appended
  <2> QED BY <1>2, <2>2
<1>4. Totals'
  BY <1>2 DEF SamplingIInv, Totals, Before
<1>5. SampleTypeOK'
  <2>1. SampleTypeOK
    BY DEF SamplingIInv
  <2>2. picks' \in Seq(1..Len(amounts'))
    BY <1>2, <1>3
  <2> QED BY <1>2, <2>1, <2>2 DEF SampleTypeOK
<1>6. Before(i) \in Nat
  <2>1. CASE i = 1
    BY <2>1 DEF Before
  <2>2. CASE i # 1
    <3>1. i - 1 \in 1..Len(prefix)
      BY <1>1, <2>2
    <3>2. prefix[i - 1] \in Nat
      BY <1>1, <3>1, ElementOfSeq
    <3> QED BY <2>2, <3>2 DEF Before
  <2> QED BY <2>1, <2>2
<1>7. Before(i) * size <= start + (Len(picks) + 1) * total
  <2>1. (Len(picks) + 1) * total = Len(picks) * total + total
    BY <1>1
  <2>2. Before(i) * size \in Int /\ Len(picks) * total \in Int
    BY <1>1, <1>6
  <2> QED BY <1>1, <2>1, <2>2
<1>8. Picking'
  <2>1. Reached' = Reached /\ (Before(i))' = Before(i)
    BY <1>2 DEF Reached, Before
  <2>2. cumulative = Reached
    BY <1>1 DEF Reached
  <2>3. Len(picks') <= size /\ Len(picks') = Len(picks) + 1 /\ i # 0
    <3>1. \A n, m \in Nat : n < m => n + 1 <= m
      OBVIOUS
    <3>2. Len(picks) \in Nat /\ size \in Nat /\ Len(picks) < size /\ i > 0 /\ i \in Nat
      BY <1>1
    <3>3. Len(picks') = Len(picks) + 1
      BY <1>3
    <3>4. Len(picks) + 1 <= size
      BY <3>1, <3>2
    <3> QED BY <3>2, <3>3, <3>4
  <2>4. (Before(i))' * size' <= start' + Len(picks') * total'
    BY <1>2, <1>7, <2>1, <2>3
  <2>5. /\ total' > 0 /\ start' <= total' /\ size' > 0 /\ Len(prefix') = Len(amounts')
        /\ cumulative' = Reached' /\ Len(picks') <= size' /\ i' # 0
    BY <1>1, <1>2, <2>1, <2>2, <2>3
  <2> QED BY <2>4, <2>5 DEF Picking
<1>9. Windows'
  <2> DEFINE Fits(k) == /\ picks'[k] \in 1..Len(prefix)
                        /\ Before(picks'[k]) * size <= start + (k - 1) * total
                        /\ start + (k - 1) * total <= prefix[picks'[k]] * size
  <2> SUFFICES ASSUME NEW k \in 1..(Len(picks) + 1) PROVE Fits(k)
    BY <1>2, <1>3 DEF Windows, Before
  <2>1. CASE k \in 1..Len(picks)
    BY <1>1, <1>3, <2>1 DEF SamplingIInv, Windows
  <2>2. CASE k = Len(picks) + 1
    <3>1. picks'[k] = i /\ k - 1 = Len(picks)
      BY <1>1, <1>3, <2>2
    <3>2. i \in 1..Len(prefix)
      BY <1>1
    <3> QED BY <1>1, <3>1, <3>2
  <2>3. k \in 1..Len(picks) \/ k = Len(picks) + 1
    <3>1. \A n \in Nat : \A m \in 1..(n + 1) : m \in 1..n \/ m = n + 1
      OBVIOUS
    <3>2. Len(picks) \in Nat
      BY <1>1
    <3> QED BY <3>1, <3>2
  <2> HIDE DEF Fits
  <2> QED BY <2>1, <2>2, <2>3
<1> QED BY <1>1, <1>2, <1>4, <1>5, <1>8, <1>9 DEF SamplingIInv, Summing, SampleIsFull, Sampled

\* The loop can only end with a full sample: all targets lie within the total.
LEMMA FinishStep == ASSUME SamplingIInv, Finish PROVE SamplingIInv'
<1>1. /\ i = Len(amounts) /\ Len(amounts) \in Nat /\ phase = "pick" /\ prefix \in Seq(Nat)
      /\ total \in Nat /\ size \in Nat /\ start \in Nat /\ Len(picks) \in Nat
      /\ total > 0 /\ start <= total /\ Len(prefix) = Len(amounts)
      /\ cumulative = Reached /\ Len(picks) <= size
  BY LenProperties DEF SamplingIInv, SampleTypeOK, Finish, Picking
<1>2. phase' = "done" /\ UNCHANGED <<amounts, i, total, prefix, size, start, cumulative, picks>>
  BY DEF Finish
<1>3. cumulative = total
  BY <1>1, EmptySeq DEF SamplingIInv, Totals, Reached
<1>4. Len(picks) = size
  <2> SUFFICES ASSUME Len(picks) < size PROVE FALSE
    BY <1>1
  <2>1. Len(picks) * total + total <= size * total
    BY <1>1, Multiples
  <2>2. total * size = size * total /\ Len(picks) * total \in Int /\ size * total \in Int
    BY <1>1
  <2>3. ~(total * size >= start + Len(picks) * total)
    BY <1>3 DEF Finish, TargetReached
  <2> QED BY <1>1, <2>1, <2>2, <2>3
<1>8. size > 0
  BY DEF SamplingIInv, Finish, Picking
<1>5. SampleTypeOK'
  BY <1>2 DEF SamplingIInv, SampleTypeOK
<1>6. Totals' /\ Windows'
  BY <1>2 DEF SamplingIInv, Totals, Windows, Before
<1>7. Sampled'
  BY <1>1, <1>2, <1>8 DEF Sampled
<1> QED BY <1>1, <1>2, <1>4, <1>5, <1>6, <1>7 DEF SamplingIInv, Summing, Picking, SampleIsFull

\* Every step keeps the invariant.
LEMMA SamplingStep == ASSUME PlanningAssumption, SamplingIInv, [SampleNext]_sampleVars PROVE SamplingIInv'
<1>1. CASE \E population \in Populations : RequestMus(population)
  BY <1>1, RequestMusStep
<1>2. ASSUME NEW population \in Populations, NEW n \in SampleSizes,
             RequestAttribute(population, n)
      PROVE  SamplingIInv'
  <2>1. population \in Seq(Int) /\ n \in Int
    BY DEF PlanningAssumption
  <2> QED BY <1>2, <2>1, AttributeStep DEF RequestAttribute, SamplingIInv
<1>3. CASE NoValue
  <2>1. /\ total = 0 /\ Fresh /\ amounts \in Seq(Int) /\ Len(amounts) \in Nat
    BY <1>3, LenProperties DEF NoValue, SamplingIInv, SampleTypeOK, Summing
  <2>2. SmallerOf(25, Len(amounts)) \in Int
    BY <2>1
  <2> QED BY <1>3, <2>1, <2>2, AttributeStep DEF NoValue
<1>4. CASE UNCHANGED sampleVars
  BY <1>4 DEF sampleVars, SamplingIInv, SampleTypeOK, Totals, Summing, Picking, Fresh, SampleIsFull,
              Sampled, Windows, Before, Reached
<1> QED
  BY <1>1, <1>2, <1>3, <1>4, SumAmountStep, PlanStep, PickRowStep, NextRowStep, FinishStep
  DEF SampleNext

\* The amount of a row reaches from the total before it to the total after it,
\* all within the book value.
LEMMA Spans ==
  ASSUME SamplingIInv, NEW r \in 1..Len(prefix)
  PROVE  /\ Before(r) \in Nat /\ prefix[r] \in Nat /\ Positive(amounts[r]) \in Nat
         /\ prefix[r] = Before(r) + Positive(amounts[r])
         /\ prefix[r] <= total
         /\ \A q \in 1..Len(prefix) : (q < r => prefix[q] <= Before(r))
                                       /\ (r < q => prefix[r] <= Before(q))
<1>1. prefix \in Seq(Nat) /\ Len(prefix) \in Nat /\ Len(amounts) \in Nat /\ amounts \in Seq(Int)
  BY LenProperties DEF SamplingIInv, SampleTypeOK
<1>2. prefix[r] \in Nat /\ prefix[r] = Before(r) + Positive(amounts[r])
  BY <1>1, ElementOfSeq DEF SamplingIInv, Totals
<1>3. Before(r) \in Nat
  BY <1>1, ElementOfSeq DEF Before
<1>4. Positive(amounts[r]) \in Nat
  <2>1. amounts[r] \in Int
    BY <1>1, ElementOfSeq DEF SamplingIInv, Totals
  <2> QED BY <2>1
<1>5. prefix[r] <= total
  BY <1>1, EmptySeq DEF SamplingIInv, Totals
<1>6. ASSUME NEW q \in 1..Len(prefix), q < r PROVE prefix[q] <= Before(r)
  <2>1. r # 1 /\ r - 1 \in 1..Len(prefix) /\ q <= r - 1
    BY <1>1, <1>6
  <2> QED BY <2>1 DEF SamplingIInv, Totals, Before
<1>7. ASSUME NEW q \in 1..Len(prefix), r < q PROVE prefix[r] <= Before(q)
  <2>1. q # 1 /\ q - 1 \in 1..Len(prefix) /\ r <= q - 1
    BY <1>1, <1>7
  <2> QED BY <2>1 DEF SamplingIInv, Totals, Before
<1> QED BY <1>2, <1>3, <1>4, <1>5, <1>6, <1>7

\* Arithmetic the solver is given one fact at a time.
LEMMA ProductType == ASSUME NEW a \in Nat, NEW b \in Nat PROVE a * b \in Nat
OBVIOUS

\* What is not less differs by a natural number.
LEMMA Difference == ASSUME NEW a \in Nat, NEW b \in Nat, b <= a PROVE \E d \in Nat : a = b + d
<1>1. a - b \in Nat /\ a = b + (a - b)
  OBVIOUS
<1> QED BY <1>1

\* A product distributes over a sum.
LEMMA Distribute ==
  ASSUME NEW a \in Nat, NEW b \in Nat, NEW s \in Nat
  PROVE  (a + b) * s = a * s + b * s
OBVIOUS

\* Few: all picks of a row lie between its first and its last, whose targets
\* are both within the amount.
LEMMA NotTooOften ==
  ASSUME SamplingIInv, total > 0, NEW row \in 1..Len(prefix)
  PROVE  Times(row) \in Nat /\ Times(row) * total <= Positive(amounts[row]) * size + total
<1> DEFINE K == {k \in DOMAIN picks : picks[k] = row}
           n == Len(picks)
           x == Positive(amounts[row])
<1>1. n \in Nat /\ DOMAIN picks = 1..n /\ total \in Nat /\ size \in Nat /\ start \in Nat
  BY LenProperties DEF SamplingIInv, SampleTypeOK
<1>2. /\ Before(row) \in Nat /\ prefix[row] \in Nat /\ x \in Nat
      /\ prefix[row] = Before(row) + x
  BY Spans
<1>3. Times(row) = Cardinality(K)
  BY DEF Times
<1>4. x * size \in Nat
  BY <1>1, <1>2
<1>5. CASE K = {}
  <2>1. Times(row) = 0
    BY <1>3, <1>5, FS_EmptySet
  <2> QED BY <1>1, <1>4, <2>1
<1>6. CASE K # {}
  <2>1. K \in SUBSET Nat /\ K \in SUBSET (0..n)
    BY <1>1
  <2>2. PICK a \in K : \A k \in K : a <= k
    BY <1>6, <2>1, LeastNat
  <2>3. PICK b \in K : \A k \in K : k <= b
    BY <1>1, <1>6, <2>1, GreatestNat
  <2>4. a \in Nat /\ b \in Nat /\ a <= b /\ a > 0 /\ K \subseteq a..b
    BY <1>1, <2>1, <2>2, <2>3
  <2>5. IsFiniteSet(a..b) /\ Cardinality(a..b) = b - a + 1
    BY <2>4, FS_Interval
  <2>6. IsFiniteSet(K) /\ Cardinality(K) <= b - a + 1 /\ Cardinality(K) \in Nat
    BY <2>4, <2>5, FS_Subset, FS_CardinalityType
  <2>7. /\ Before(row) * size <= start + (a - 1) * total
        /\ start + (b - 1) * total <= prefix[row] * size
    BY <2>2, <2>3 DEF SamplingIInv, Windows
  <2>8. prefix[row] * size = Before(row) * size + x * size
    BY <1>1, <1>2, Distribute
  <2>9. PICK d \in Nat : b = a + d
    BY <2>4, Difference
  <2>10. (b - 1) * total = (a - 1) * total + d * total
    <3>1. a - 1 \in Nat /\ b - 1 = (a - 1) + d
      BY <2>4, <2>9
    <3> QED BY <1>1, <3>1, Distribute
  <2>11. d * total <= x * size
    <3> DEFINE first == (a - 1) * total
               last == (b - 1) * total
               apart == d * total
               low == Before(row) * size
               high == prefix[row] * size
               width == x * size
    <3>1. a - 1 \in Nat /\ b - 1 \in Nat
      BY <2>4
    <3>2. first \in Nat
      BY <1>1, <3>1, ProductType
    <3>3. last \in Nat
      BY <1>1, <3>1, ProductType
    <3>4. apart \in Nat
      BY <1>1, ProductType
    <3>5. low \in Nat
      BY <1>1, <1>2, ProductType
    <3>6. high \in Nat
      BY <1>1, <1>2, ProductType
    <3>7. low <= start + first /\ start + last <= high
      BY <2>7
    <3>8. high = low + width /\ last = first + apart /\ width \in Nat
      BY <1>4, <2>8, <2>10
    <3> HIDE DEF first, last, apart, low, high, width
    <3>9. apart <= width
      BY <1>1, <3>2, <3>3, <3>4, <3>5, <3>6, <3>7, <3>8
    <3> QED BY <3>9 DEF apart, width
  <2>12. Cardinality(K) * total <= d * total + total
    <3>1. PICK e \in Nat : d + 1 = Cardinality(K) + e
      <4> DEFINE c == Cardinality(K)
      <4>1. c \in Nat /\ c <= b - a + 1
        BY <2>6
      <4> HIDE DEF c
      <4>2. d + 1 - c \in Nat /\ d + 1 = c + (d + 1 - c)
        BY <2>9, <2>4, <4>1
      <4>3. \E e \in Nat : d + 1 = c + e
        BY <4>2
      <4> QED BY <4>3 DEF c
    <3>2. /\ (d + 1) * total = Cardinality(K) * total + e * total
          /\ (d + 1) * total = d * total + total
      <4>1. (Cardinality(K) + e) * total = Cardinality(K) * total + e * total
        BY <1>1, <2>6, Distribute
      <4>2. (d + 1) * total = d * total + 1 * total
        BY <1>1, Distribute
      <4>3. 1 * total = total
        BY <1>1
      <4> QED BY <3>1, <4>1, <4>2, <4>3
    <3>3. e * total \in Nat /\ d * total \in Nat /\ Cardinality(K) * total \in Nat
      BY <1>1, <2>6, ProductType
    <3> QED BY <1>1, <3>2, <3>3
  <2>13. Cardinality(K) * total <= x * size + total
    <3> DEFINE rows == Cardinality(K) * total
               apart == d * total
               width == x * size
    <3>1. rows \in Nat
      BY <1>1, <2>6, ProductType
    <3>2. apart \in Nat
      BY <1>1, ProductType
    <3>3. width \in Nat /\ apart <= width /\ rows <= apart + total
      BY <1>4, <2>11, <2>12
    <3> HIDE DEF rows, apart, width
    <3>4. rows <= width + total
      BY <1>1, <3>1, <3>2, <3>3
    <3> QED BY <3>4 DEF rows, width
  <2> HIDE DEF K, x
  <2> QED BY <1>3, <2>6, <2>13 DEF x
<1> QED BY <1>5, <1>6

\* Every target strictly within the amount of a row picks that row.
LEMMA WithinPicks ==
  ASSUME SamplingIInv, total > 0, NEW row \in 1..Len(prefix), NEW k \in DOMAIN picks,
         Before(row) * size < start + (k - 1) * total,
         start + (k - 1) * total < prefix[row] * size
  PROVE  picks[k] = row
<1> DEFINE q == picks[k]
           t == start + (k - 1) * total
<1>1. size \in Nat /\ start \in Nat /\ total \in Nat /\ k \in Int /\ row \in Int /\ t \in Int
  <2>1. k \in 1..Len(picks)
    BY LenProperties DEF SamplingIInv, SampleTypeOK
  <2> QED BY <2>1, LenProperties DEF SamplingIInv, SampleTypeOK
<1>2. q \in 1..Len(prefix) /\ Before(q) * size <= t /\ t <= prefix[q] * size
  BY DEF SamplingIInv, Windows
<1> HIDE DEF q, t
<1>3. /\ Before(q) \in Nat /\ prefix[q] \in Nat /\ Before(row) \in Nat /\ prefix[row] \in Nat
      /\ (q < row => prefix[q] <= Before(row)) /\ (row < q => prefix[row] <= Before(q))
  BY <1>2, Spans
<1>4. \A y, z \in Nat : y <= z => y * size <= z * size
  <2> SUFFICES ASSUME NEW y \in Nat, NEW z \in Nat, y <= z PROVE y * size <= z * size
    OBVIOUS
  <2>1. PICK d \in Nat : z = y + d
    BY Difference
  <2>2. z * size = y * size + d * size
    BY <1>1, <2>1, Distribute
  <2>3. d * size \in Nat /\ y * size \in Nat
    BY <1>1
  <2> QED BY <2>2, <2>3
<1>5. Before(row) * size < t /\ t < prefix[row] * size
  BY DEF t
<1>6. /\ Before(q) * size \in Nat /\ prefix[q] * size \in Nat
      /\ Before(row) * size \in Nat /\ prefix[row] * size \in Nat
  <2>1. Before(q) * size \in Nat
    BY <1>1, <1>3, ProductType
  <2>2. prefix[q] * size \in Nat
    BY <1>1, <1>3, ProductType
  <2>3. Before(row) * size \in Nat
    BY <1>1, <1>3, ProductType
  <2>4. prefix[row] * size \in Nat
    BY <1>1, <1>3, ProductType
  <2> QED BY <2>1, <2>2, <2>3, <2>4
<1>7. ~(q < row)
  <2> SUFFICES ASSUME q < row PROVE FALSE
    OBVIOUS
  <2>1. prefix[q] * size <= Before(row) * size
    BY <1>3, <1>4
  <2> QED BY <1>1, <1>2, <1>5, <1>6, <2>1
<1>8. ~(row < q)
  <2> SUFFICES ASSUME row < q PROVE FALSE
    OBVIOUS
  <2>1. prefix[row] * size <= Before(q) * size
    BY <1>3, <1>4
  <2> QED BY <1>1, <1>2, <1>5, <1>6, <2>1
<1>9. q = row
  BY <1>1, <1>2, <1>7, <1>8
<1> QED BY <1>9 DEF q

\* Many: between the last target before a row's amount and the first one after
\* it, which are at least the amount apart, all targets pick the row.
LEMMA OftenEnough ==
  ASSUME SamplingIInv, total > 0, phase = "done", NEW row \in 1..Len(prefix)
  PROVE  Positive(amounts[row]) * size <= Times(row) * total + total
<1> DEFINE t(k) == start + (k - 1) * total
           lo == Before(row) * size
           hi == prefix[row] * size
           x == Positive(amounts[row])
           Below == {k \in 1..size : t(k) <= lo} \cup {0}
           Above == {k \in 1..size : t(k) >= hi} \cup {size + 1}
           K == {k \in DOMAIN picks : picks[k] = row}
<1>1. /\ size \in Nat /\ size > 0 /\ start \in Nat /\ total \in Nat /\ start <= total
      /\ DOMAIN picks = 1..size
  BY LenProperties DEF SamplingIInv, SampleTypeOK, SampleIsFull, Sampled
<1>2. /\ Before(row) \in Nat /\ prefix[row] \in Nat /\ x \in Nat
      /\ prefix[row] = Before(row) + x /\ prefix[row] <= total
  BY Spans
<1>3. lo \in Nat /\ hi \in Nat /\ x * size \in Nat /\ hi = lo + x * size
  <2>1. lo \in Nat
    BY <1>1, <1>2, ProductType
  <2>2. hi \in Nat
    BY <1>1, <1>2, ProductType
  <2>3. x * size \in Nat
    BY <1>1, <1>2, ProductType
  <2>4. (Before(row) + x) * size = Before(row) * size + x * size
    BY <1>1, <1>2, Distribute
  <2>5. hi = lo + x * size
    BY <1>2, <2>4
  <2> QED BY <2>1, <2>2, <2>3, <2>5
<1>4. \A k \in Int : t(k) \in Int
  BY <1>1
<1>5. hi <= total * size
  <2>1. PICK d \in Nat : total = prefix[row] + d
    <3>1. prefix[row] <= total
      BY <1>2
    <3>2. prefix[row] \in Nat
      BY <1>2
    <3> QED BY <1>1, <3>1, <3>2, Difference
  <2>2. total * size = hi + d * size
    <3>1. (prefix[row] + d) * size = prefix[row] * size + d * size
      BY <1>1, <1>2, Distribute
    <3> QED BY <2>1, <3>1
  <2>3. d * size \in Nat
    BY <1>1, ProductType
  <2>4. hi \in Nat
    BY <1>3
  <2> HIDE DEF hi
  <2> QED BY <2>2, <2>3, <2>4
<1>6. t(0) <= lo
  <2>1. t(0) = start - total
    BY <1>1
  <2>2. lo \in Nat
    BY <1>3
  <2> HIDE DEF t, lo
  <2> QED BY <1>1, <2>1, <2>2
<1>7. hi <= t(size + 1)
  <2>1. t(size + 1) = start + total * size
    BY <1>1
  <2>2. hi \in Nat /\ total * size \in Nat
    BY <1>1, <1>3, ProductType
  <2> HIDE DEF t, hi
  <2> QED BY <1>1, <1>5, <2>1, <2>2
<1>8. PICK q \in Below : \A k \in Below : k <= q
  <2>1. Below \in SUBSET (0..size) /\ Below # {}
    BY <1>1
  <2> QED BY <1>1, <2>1, GreatestNat
<1>9. PICK p \in Above : \A k \in Above : p <= k
  <2>1. Above \in SUBSET Nat /\ Above # {}
    BY <1>1
  <2> QED BY <2>1, LeastNat
<1>10. q \in 0..size /\ t(q) <= lo /\ p \in 1..(size + 1) /\ hi <= t(p)
  <2>1. t(p) \in Int
    BY <1>1, <1>4
  <2>2. hi \in Int
    BY <1>3
  <2> HIDE DEF t, lo, hi
  <2>3. q \in 0..size /\ t(q) <= lo
    BY <1>1, <1>6
  <2>4. p \in 1..(size + 1) /\ hi <= t(p)
    BY <1>1, <1>7, <2>1, <2>2
  <2> QED BY <2>3, <2>4
<1>11. \A k \in (q + 1)..(p - 1) : k \in K
  <2> SUFFICES ASSUME NEW k \in (q + 1)..(p - 1) PROVE k \in K
    OBVIOUS
  <2>1. k \in 1..size /\ k > q /\ k < p
    BY <1>1, <1>10
  <2>2. k \notin Below /\ k \notin Above
    BY <1>8, <1>9, <1>10, <2>1
  <2>3. lo < t(k) /\ t(k) < hi
    BY <1>3, <1>4, <2>1, <2>2
  <2> QED BY <1>1, <2>1, <2>3, WithinPicks
<1>12. Times(row) \in Nat /\ p - q - 1 <= Times(row)
  <2>1. IsFiniteSet(1..size) /\ K \in SUBSET (1..size)
    BY <1>1, FS_Interval
  <2>2. IsFiniteSet(K) /\ Cardinality(K) \in Nat
    BY <2>1, FS_Subset, FS_CardinalityType
  <2>3. Cardinality((q + 1)..(p - 1)) <= Cardinality(K)
    BY <1>11, <2>2, FS_Subset
  <2>4. Cardinality((q + 1)..(p - 1)) = IF q + 1 > p - 1 THEN 0 ELSE (p - 1) - (q + 1) + 1
    BY <1>10, FS_Interval
  <2> QED BY <1>10, <2>2, <2>3, <2>4 DEF Times
<1>13. x * size <= t(p) - t(q)
  <2> DEFINE width == x * size
  <2>1. lo \in Nat /\ hi \in Nat /\ width \in Nat /\ hi = lo + width
    BY <1>3
  <2>2. t(p) \in Int /\ t(q) \in Int
    BY <1>1, <1>4, <1>10
  <2> HIDE DEF t, lo, hi, width
  <2>3. width <= t(p) - t(q)
    BY <1>10, <2>1, <2>2
  <2> QED BY <2>3 DEF width
<1>14. t(p) - t(q) <= Times(row) * total + total
  <2> DEFINE m == Times(row)
  <2>1. m \in Nat /\ p - q - 1 <= m /\ p \in Nat /\ q \in Nat
    BY <1>1, <1>10, <1>12
  <2> HIDE DEF m
  <2>2. PICK d \in Nat : m + 1 + q = p + d
    <3>1. m + 1 + q \in Nat /\ p <= m + 1 + q
      BY <2>1
    <3> QED BY <2>1, <3>1, Difference
  <2>3. (m + 1 + q) * total = m * total + total + q * total
    <3>1. (m + 1 + q) * total = (m + 1) * total + q * total
      BY <1>1, <2>1, Distribute
    <3>2. (m + 1) * total = m * total + 1 * total
      BY <1>1, <2>1, Distribute
    <3>3. 1 * total = total
      BY <1>1
    <3> QED BY <3>1, <3>2, <3>3
  <2>4. (p + d) * total = p * total + d * total
    BY <1>1, <2>1, Distribute
  <2>5. t(p) = start + p * total - total
    BY <1>1, <2>1
  <2>6. t(q) = start + q * total - total
    BY <1>1, <2>1
  <2> DEFINE mt == m * total
             pt == p * total
             qt == q * total
             dt == d * total
  <2>7. mt \in Nat
    BY <1>1, <2>1, ProductType
  <2>8. pt \in Nat
    BY <1>1, <2>1, ProductType
  <2>9. qt \in Nat
    BY <1>1, <2>1, ProductType
  <2>10. dt \in Nat
    BY <1>1, <2>1, ProductType
  <2>11. mt + total + qt = pt + dt
    BY <2>2, <2>3, <2>4
  <2>12. t(p) = start + pt - total /\ t(q) = start + qt - total
    BY <2>5, <2>6
  <2> HIDE DEF mt, pt, qt, dt, t
  <2>13. t(p) - t(q) <= mt + total
    BY <1>1, <2>7, <2>8, <2>9, <2>10, <2>11, <2>12
  <2> QED BY <2>13 DEF mt, m
<1>15. Times(row) * total \in Nat
  BY <1>1, <1>12, ProductType
<1> DEFINE picked == Times(row) * total
           width == x * size
<1>16. /\ picked \in Nat /\ width \in Nat /\ t(p) \in Int /\ t(q) \in Int
       /\ width <= t(p) - t(q) /\ t(p) - t(q) <= picked + total
  BY <1>1, <1>3, <1>4, <1>10, <1>13, <1>14, <1>15
<1> HIDE DEF picked, width, t
<1>17. width <= picked + total
  BY <1>1, <1>16
<1> QED BY <1>17 DEF picked, width
-----------------------------------------------------------------------------
\* Both loops keep the invariant, whatever is sent and wherever the random
\* start lies.
THEOREM SampleInvariant == SampleSpec => []SamplingIInv
<1>1. SamplingIInv /\ [SampleNext]_sampleVars => SamplingIInv'
  BY SamplingStep, PlanningAssumption
<1> QED BY SamplingInit, <1>1, PTL DEF SampleSpec

\* The counters of the loops stay within the population, and only rows of the
\* population are ever picked.
THEOREM SampleTypeCorrect == SampleSpec => []SampleTypeOK
<1>1. SamplingIInv => SampleTypeOK
  BY DEF SamplingIInv
<1> QED BY SampleInvariant, <1>1, PTL

\* The loop over the intervals never runs out of rows before the sample holds
\* as many as were planned.
THEOREM SampleAlwaysFull == SampleSpec => []SampleIsFull
<1>1. SamplingIInv => SampleIsFull
  BY DEF SamplingIInv
<1> QED BY SampleInvariant, <1>1, PTL

\* Every row is picked as often as its share of the book value entitles it to,
\* give or take once.
THEOREM SelectionAlwaysProportional == SampleSpec => []SelectionIsProportional
<1>1. SamplingIInv => SelectionIsProportional
  <2> SUFFICES ASSUME SamplingIInv, phase = "done", total > 0, NEW row \in 1..Len(amounts)
               PROVE  /\ Times(row) * total <= Positive(amounts[row]) * size + total
                      /\ Positive(amounts[row]) * size <= Times(row) * total + total
    BY DEF SelectionIsProportional
  <2>1. row \in 1..Len(prefix)
    BY DEF SamplingIInv, Sampled
  <2> QED BY <2>1, NotTooOften, OftenEnough
<1> QED BY SampleInvariant, <1>1, PTL
==================================================================================
