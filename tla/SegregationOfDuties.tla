-------------------------- MODULE SegregationOfDuties --------------------------
(***************************************************************************)
(* Conflicting duties (engine/sod.py) and the table of roles by user they  *)
(* are looked for in (extract_user_roles of engine/parser.py).             *)
(***************************************************************************)
EXTENDS ControlTest, Sequences

CONSTANTS
  SodMatrix,  \* the rules: [duties : two keywords, type, risk]
  Roles,      \* role names
  DutiesOf    \* DutiesOf[role]: the keywords its name contains

\* Rules of one conflict type carry one risk level, as in the source's matrix.
ASSUME SodMatrixAssumption ==
  /\ IsFiniteSet(SodMatrix)
  /\ \A rule \in SodMatrix : Cardinality(rule.duties) = 2 /\ rule.risk \in RiskLevels
  /\ \A a, b \in SodMatrix : a.type = b.type => a.risk = b.risk
ASSUME RolesAssumption == DutiesOf \in [Roles -> SUBSET UNION {rule.duties : rule \in SodMatrix}]

\* A variant in which a later row of a user replaces an earlier one.
LastRoles(rows) ==
  LET named == {i \in DOMAIN rows : rows[i].user_id # "" /\ rows[i].roles # {}}
      Later(user) == CHOOSE i \in named : /\ rows[i].user_id = user
                                          /\ \A j \in named : rows[j].user_id = user => j <= i
  IN [user \in {rows[i].user_id : i \in named} |-> rows[Later(user)].roles]

\* One row per user or one row per role: the roles of all rows of a user.
\* Rows without a user or a role are skipped.
UserRoles(rows) ==
  LET named == {i \in DOMAIN rows : rows[i].user_id # "" /\ rows[i].roles # {}}
      users == {rows[i].user_id : i \in named}
  IN [user \in users |-> UNION {rows[i].roles : i \in {j \in named : rows[j].user_id = user}}]

\* _role_matches_keyword: a keyword matches a role whose name contains it.
RoleMatchesKeyword(role, keyword) == keyword \in DutiesOf[role]

\* A pair of roles, in either order, that covers the two duties of a rule.
Toxic(pair, rule) ==
  \E a, b \in pair : \E ka, kb \in rule.duties :
    /\ a # b /\ ka # kb
    /\ RoleMatchesKeyword(a, ka) /\ RoleMatchesKeyword(b, kb)

\* combinations(roles, 2): two entries of the list, which has no duplicates.
Pairs(roles) == {pair \in SUBSET roles : Cardinality(pair) = 2}

\* At most one finding per user and conflict type, whichever pair and rule of
\* the type came first.
DetectSodConflicts(user_roles) ==
  UNION {{Finding("ITGC-SOD", <<"user", user>>, user, rule.type, rule.risk) :
            rule \in {r \in SodMatrix : \E pair \in Pairs(user_roles[user]) : Toxic(pair, r)}} :
         user \in DOMAIN user_roles}
===============================================================================
