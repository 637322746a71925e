---------------------------- MODULE AccountDbProofs ----------------------------
(***************************************************************************)
(* Proofs about AccountDb and, in the second half, about its callers in    *)
(* EmailPool, for every set of addresses and accounts.  Each operator that *)
(* rewrites the allocation table gets one lemma: it yields a table, it     *)
(* never takes an address out of Taken, and it keeps the primary flags     *)
(* right (Safe).  The theorems follow action by action.                    *)
(***************************************************************************)
EXTENDS EmailPool, FiniteSetTheorems, TLAPS

Table == [Emails -> Allocation \cup {NoRow}]

\* No address leaves Taken between the tables rs and ss.
Keeps(rs, ss) == \A e \in Emails : rs[e].status \in Taken => ss[e].status \in Taken

Agrees(rs) == \A e \in Emails : rs[e].isPrimary <=> rs[e].primary = e

\* What a handler or a backfill statement that turns rs into ss must do.
Safe(rs, ss) == ss \in Table /\ Keeps(rs, ss) /\ (Agrees(rs) => Agrees(ss))

-----------------------------------------------------------------------------
(* Rows.                                                                   *)

LEMMA RowCases ==
    ASSUME NEW rs \in Table, NEW e \in Emails
    PROVE  \/ rs[e] \in Allocation /\ rs[e].status # "NONE" /\ RowExists(rs, e)
           \/ /\ rs[e] = NoRow /\ rs[e].status = "NONE" /\ ~rs[e].isPrimary
              /\ ~RowExists(rs, e)
  BY DEF Table, Allocation, NoRow, RowExists, AllocationStatus, Open, Taken, Dead

LEMMA SafeReflexive ==
    ASSUME NEW rs \in Table
    PROVE  Safe(rs, rs)
  BY DEF Safe, Keeps

LEMMA SafeTransitive ==
    ASSUME NEW rs, NEW ss, NEW ts, Safe(rs, ss), Safe(ss, ts)
    PROVE  Safe(rs, ts)
  BY DEF Safe, Keeps

\* Writing one row is safe when the row is one, agrees and keeps Taken.
LEMMA SafeRow ==
    ASSUME NEW rs \in Table, NEW e \in Emails, NEW row \in Allocation,
           rs[e].status \in Taken => row.status \in Taken,
           Agrees(rs) => (row.isPrimary <=> row.primary = e)
    PROVE  Safe(rs, [rs EXCEPT ![e] = row])
  BY DEF Safe, Keeps, Agrees, Table

\* ... and so is writing every row by such a rule.
LEMMA SafeRows ==
    ASSUME NEW rs \in Table, NEW ss \in Table,
           \A e \in Emails : rs[e].status \in Taken => ss[e].status \in Taken,
           \A e \in Emails : \/ ss[e].isPrimary <=> ss[e].primary = e
                             \/ /\ ss[e].isPrimary = rs[e].isPrimary
                                /\ ss[e].primary = rs[e].primary
    PROVE  Safe(rs, ss)
  BY DEF Safe, Keeps, Agrees

LEMMA TakenStatuses ==
    /\ Taken \subseteq AllocationStatus
    /\ Open \subseteq AllocationStatus
    /\ "NONE" \notin AllocationStatus
    /\ Dead \subseteq Taken
    /\ {"ASSIGNED", "REGISTERED"} \subseteq Taken
    /\ \A st \in AllocationStatus : st \in Open <=> st \notin Taken
  BY DEF Taken, AllocationStatus, Open, Dead

\* A refresh never opens a taken address.
LEMMA RefreshKeepsTaken ==
    ASSUME NEW current \in Taken, NEW incoming \in AllocationStatus,
           CanRefresh(current, incoming)
    PROVE  incoming \in Taken
  BY DEF CanRefresh, Taken, AllocationStatus, Open, Dead

-----------------------------------------------------------------------------
(* Handlers.                                                               *)

LEMMA SafeRefreshPrimary ==
    ASSUME NEW rs \in Table, NEW p \in Emails
    PROVE  Safe(rs, RefreshPrimary(rs, p))
  <1>1. CASE /\ rs[p].isPrimary
             /\ rs[p].status \notin Dead
             /\ \E c \in Emails : rs[c].primary = p /\ rs[c].status = "REGISTERED"
    <2> DEFINE row == [rs[p] EXCEPT !.status = "REGISTERED", !.splittable = TRUE]
    <2>1. rs[p] \in Allocation
      BY <1>1, RowCases
    <2>2. row \in Allocation /\ row.status \in Taken
          /\ row.isPrimary = rs[p].isPrimary /\ row.primary = rs[p].primary
      BY <2>1, TakenStatuses DEF Allocation
    <2>3. RefreshPrimary(rs, p) = [rs EXCEPT ![p] = row]
      BY <1>1 DEF RefreshPrimary, Table
    <2>4. Agrees(rs) => (row.isPrimary <=> row.primary = p)
      BY <2>2 DEF Agrees
    <2> HIDE DEF row
    <2>5. Safe(rs, [rs EXCEPT ![p] = row])
      BY <2>2, <2>4, SafeRow
    <2> QED
      BY <2>3, <2>5
  <1>2. CASE ~ (/\ rs[p].isPrimary
                /\ rs[p].status \notin Dead
                /\ \E c \in Emails : rs[c].primary = p /\ rs[c].status = "REGISTERED")
    BY <1>2, SafeReflexive DEF RefreshPrimary
  <1> QED
    BY <1>1, <1>2

LEMMA SafeUpsertRow ==
    ASSUME NEW rs \in Table, NEW e \in Emails, NEW p \in Emails,
           NEW st \in AllocationStatus, NEW spl \in BOOLEAN
    PROVE  Safe(rs, UpsertRow(rs, e, p, st, spl))
  <1>1. CASE RowExists(rs, e)
    <2> DEFINE row == [rs[e] EXCEPT
                         !.primary = p,
                         !.isPrimary = (p = e),
                         !.status = IF CanRefresh(rs[e].status, st) THEN st ELSE @,
                         !.splittable = @ \/ spl]
               ss == [rs EXCEPT ![e] = row]
    <2>1. rs[e] \in Allocation
      BY <1>1, RowCases
    <2>2. row \in Allocation
      BY <2>1 DEF Allocation
    <2>3. rs[e].status \in Taken => row.status \in Taken
      BY <2>1, RefreshKeepsTaken DEF Allocation
    <2>4. row.isPrimary <=> row.primary = e
      BY <2>1 DEF Allocation
    <2>5. Safe(rs, ss)
      BY <2>2, <2>3, <2>4, SafeRow
    <2>6. UpsertRow(rs, e, p, st, spl) = RefreshPrimary(ss, p)
      BY <1>1 DEF UpsertRow
    <2> HIDE DEF ss
    <2> QED
      BY <2>5, <2>6, SafeRefreshPrimary, SafeTransitive DEF Safe
  <1>2. CASE ~RowExists(rs, e)
    <2> DEFINE row == [primary |-> p, isPrimary |-> (p = e), status |-> st,
                       splittable |-> spl, assigned |-> None]
    <2>1. row \in Allocation
      BY DEF Allocation
    <2>2. rs[e].status \notin Taken
      BY <1>2, TakenStatuses DEF RowExists
    <2>3. UpsertRow(rs, e, p, st, spl) = [rs EXCEPT ![e] = row]
      BY <1>2 DEF UpsertRow
    <2>4. row.isPrimary <=> row.primary = e
      OBVIOUS
    <2> HIDE DEF row
    <2>5. Safe(rs, [rs EXCEPT ![e] = row])
      BY <2>1, <2>2, <2>4, SafeRow
    <2> QED
      BY <2>3, <2>5
  <1> QED
    BY <1>1, <1>2

LEMMA SafeClaimRow ==
    ASSUME NEW rs \in Table, NEW e \in Emails, NEW a \in Accounts, RowExists(rs, e)
    PROVE  Safe(rs, ClaimRow(rs, e, a)) /\ ClaimRow(rs, e, a)[e].status = "ASSIGNED"
  <1> DEFINE row == [rs[e] EXCEPT !.status = "ASSIGNED", !.assigned = a]
  <1>1. rs[e] \in Allocation
    BY RowCases
  <1>2. row \in Allocation /\ row.status = "ASSIGNED"
        /\ row.isPrimary = rs[e].isPrimary /\ row.primary = rs[e].primary
    BY <1>1, TakenStatuses DEF Allocation
  <1>3. ClaimRow(rs, e, a) = [rs EXCEPT ![e] = row]
    BY DEF ClaimRow, Table
  <1>4. Safe(rs, [rs EXCEPT ![e] = row])
    BY <1>2, TakenStatuses, SafeRow DEF Agrees
  <1> QED
    BY <1>2, <1>3, <1>4 DEF Table

LEMMA SafeAliasRow ==
    ASSUME NEW rs \in Table, NEW p \in Emails, NEW alias \in Emails,
           NEW a \in Accounts, alias # p, ~RowExists(rs, alias)
    PROVE  Safe(rs, AliasRow(rs, p, alias, a))
  <1> DEFINE row == [primary |-> p, isPrimary |-> FALSE, status |-> "ASSIGNED",
                     splittable |-> FALSE, assigned |-> a]
  <1>1. row \in Allocation /\ row.status \in Taken /\ ~row.isPrimary /\ row.primary # alias
    BY TakenStatuses DEF Allocation
  <1>2. AliasRow(rs, p, alias, a) = [rs EXCEPT ![alias] = row]
    BY DEF AliasRow
  <1> QED
    BY <1>1, <1>2, SafeRow

LEMMA SafeAssignRow ==
    ASSUME NEW rs \in Table, NEW e \in Emails, NEW a \in Accounts
    PROVE  Safe(rs, AssignRow(rs, e, a)) /\ AssignRow(rs, e, a)[e].status \in Taken
  <1>1. CASE ~RowExists(rs, e)
    <2> DEFINE row == [primary |-> Canonical[e], isPrimary |-> (Canonical[e] = e),
                       status |-> "ASSIGNED", splittable |-> FALSE, assigned |-> a]
    <2>1. row \in Allocation /\ row.status \in Taken /\ (row.isPrimary <=> row.primary = e)
      BY CanonicalAssumption, TakenStatuses DEF Allocation
    <2>2. AssignRow(rs, e, a) = [rs EXCEPT ![e] = row]
      BY <1>1 DEF AssignRow
    <2> HIDE DEF row
    <2>3. Safe(rs, [rs EXCEPT ![e] = row])
      BY <2>1, SafeRow
    <2>4. [rs EXCEPT ![e] = row][e] = row
      BY DEF Table
    <2> QED
      BY <2>1, <2>2, <2>3, <2>4
  <1>2. CASE RowExists(rs, e) /\ (CanRefresh(rs[e].status, "ASSIGNED") \/ rs[e].assigned = a)
    BY <1>2, SafeClaimRow, TakenStatuses DEF AssignRow
  <1>3. CASE RowExists(rs, e) /\ ~CanRefresh(rs[e].status, "ASSIGNED") /\ rs[e].assigned # a
    <2>1. rs[e].status \in AllocationStatus \ Open
      BY <1>3, RowCases DEF CanRefresh, Allocation
    <2> QED
      BY <1>3, <2>1, SafeReflexive, TakenStatuses DEF AssignRow
  <1> QED
    BY <1>1, <1>2, <1>3

LEMMA SafeBlockFamily ==
    ASSUME NEW rs \in Table, NEW p \in Emails
    PROVE  Safe(rs, BlockFamily(rs, p))
  <1> DEFINE ss == BlockFamily(rs, p)
  <1>1. \A x \in Emails : /\ ss[x] \in Allocation \cup {NoRow}
                          /\ rs[x].status \in Taken => ss[x].status \in Taken
                          /\ ss[x].isPrimary = rs[x].isPrimary
                          /\ ss[x].primary = rs[x].primary
    <2> TAKE x \in Emails
    <2>1. CASE x = p /\ rs[x].isPrimary /\ rs[x].status # "USER_ALREADY_EXISTS"
      <3>1. rs[x] \in Allocation
        BY <2>1, RowCases
      <3>2. ss[x] = [rs[x] EXCEPT !.status = "BLOCKED", !.splittable = FALSE]
        BY <2>1 DEF BlockFamily
      <3> QED
        BY <3>1, <3>2, TakenStatuses DEF Allocation, Dead
    <2>2. CASE /\ ~(x = p /\ rs[x].isPrimary /\ rs[x].status # "USER_ALREADY_EXISTS")
               /\ rs[x].primary = p /\ ~rs[x].isPrimary /\ rs[x].status = "AVAILABLE"
      <3>1. rs[x] \in Allocation
        BY <2>2, RowCases
      <3>2. ss[x] = [rs[x] EXCEPT !.status = "BLOCKED"]
        BY <2>2 DEF BlockFamily
      <3> QED
        BY <3>1, <3>2, TakenStatuses DEF Allocation, Dead
    <2>3. CASE /\ ~(x = p /\ rs[x].isPrimary /\ rs[x].status # "USER_ALREADY_EXISTS")
               /\ ~(rs[x].primary = p /\ ~rs[x].isPrimary /\ rs[x].status = "AVAILABLE")
      <3>1. ss[x] = rs[x]
        BY <2>3 DEF BlockFamily
      <3> QED
        BY <3>1 DEF Table
    <2> QED
      BY <2>1, <2>2, <2>3
  <1>2. ss \in Table
    BY <1>1 DEF Table, BlockFamily
  <1> HIDE DEF ss
  <1>3. Safe(rs, ss)
    BY <1>1, <1>2, SafeRows
  <1> QED
    BY <1>3 DEF ss

LEMMA SafeMarkRow ==
    ASSUME NEW rs \in Table, NEW e \in Emails, NEW st \in MarkStatus
    PROVE  Safe(rs, MarkRow(rs, e, st))
  <1>1. CASE ~RowExists(rs, e)
    BY <1>1, SafeReflexive DEF MarkRow
  <1>2. CASE RowExists(rs, e)
    <2> DEFINE row == [rs[e] EXCEPT
                         !.status = st,
                         !.splittable = IF st \in Dead THEN FALSE
                                        ELSE @ \/ (st = "REGISTERED" /\ rs[e].isPrimary)]
               ss == [rs EXCEPT ![e] = row]
    <2>1. rs[e] \in Allocation
      BY <1>2, RowCases
    <2>2. st \in Taken /\ st \in AllocationStatus
      BY TakenStatuses DEF MarkStatus, Dead
    <2>3. row \in Allocation /\ row.status = st
          /\ row.isPrimary = rs[e].isPrimary /\ row.primary = rs[e].primary
      BY <2>1, <2>2 DEF Allocation
    <2>4. Agrees(rs) => (row.isPrimary <=> row.primary = e)
      BY <2>3 DEF Agrees
    <2>5. rs[e].primary \in Emails
      BY <2>1 DEF Allocation
    <2>6. MarkRow(rs, e, st) \in
            {ss, RefreshPrimary(ss, rs[e].primary), BlockFamily(ss, rs[e].primary)}
      BY <1>2 DEF MarkRow
    <2> HIDE DEF row
    <2>7. Safe(rs, ss)
      BY <2>2, <2>3, <2>4, SafeRow
    <2> HIDE DEF ss
    <2>8. ss \in Table
      BY <2>7 DEF Safe
    <2>9. /\ Safe(ss, RefreshPrimary(ss, rs[e].primary))
          /\ Safe(ss, BlockFamily(ss, rs[e].primary))
      BY <2>5, <2>8, SafeRefreshPrimary, SafeBlockFamily
    <2> QED
      BY <2>6, <2>7, <2>9, SafeTransitive
  <1> QED
    BY <1>1, <1>2

-----------------------------------------------------------------------------
(* Backfill.                                                               *)

LEMMA SafeBackfillRow ==
    ASSUME NEW row \in Allocation \cup {NoRow}, NEW e \in Emails, NEW a \in Accounts,
           NEW incoming \in {"USER_ALREADY_EXISTS", "REGISTERED", "ASSIGNED"},
           row.status = "NONE" => row = NoRow
    PROVE  LET new == BackfillRow(row, e, a, incoming)
           IN  /\ new \in Allocation
               /\ row.status \in Taken => new.status \in Taken
               /\ new.isPrimary <=> new.primary = e
  <1> DEFINE new == BackfillRow(row, e, a, incoming)
  <1>1. /\ row.status \in AllocationStatus \/ row.status = "NONE"
        /\ row.splittable \in BOOLEAN
    <2>1. CASE row \in Allocation
      BY <2>1 DEF Allocation
    <2>2. CASE row = NoRow
      BY <2>2 DEF NoRow
    <2> QED
      BY <2>1, <2>2
  <1>2. incoming \in Taken /\ incoming \in AllocationStatus
    BY TakenStatuses DEF Dead
  <1>3. new.status \in {incoming, row.status}
        /\ (row.status = "NONE" => new.status = incoming)
    BY DEF BackfillRow
  <1>4. new.splittable \in BOOLEAN
    BY <1>1 DEF BackfillRow
  <1>5. new = [primary |-> Canonical[e], isPrimary |-> (Canonical[e] = e),
               status |-> new.status, splittable |-> new.splittable, assigned |-> a]
    BY DEF BackfillRow
  <1>6. Canonical[e] \in Emails
    BY CanonicalAssumption
  <1> DEFINE st == new.status
             spl == new.splittable
             flag == Canonical[e] = e
  <1> HIDE DEF st, spl, new
  <1>7. new.status \in AllocationStatus /\ (row.status \in Taken => new.status \in Taken)
    BY <1>1, <1>2, <1>3
  <1>8. new = [primary |-> Canonical[e], isPrimary |-> flag,
               status |-> st, splittable |-> spl, assigned |-> a]
    BY <1>5 DEF st, spl
  <1>9. st \in AllocationStatus /\ spl \in BOOLEAN /\ flag \in BOOLEAN
    BY <1>4, <1>7 DEF st, spl
  <1>10. new \in Allocation /\ (new.isPrimary <=> new.primary = e)
    BY <1>6, <1>8, <1>9 DEF Allocation
  <1> QED
    BY <1>7, <1>10 DEF new

LEMMA SafeBackfillFromAccounts ==
    ASSUME NEW rs \in Table, NEW as
    PROVE  Safe(rs, BackfillFromAccounts(rs, as))
  <1> DEFINE ss == BackfillFromAccounts(rs, as)
  <1>1. \A e \in Emails : /\ ss[e] \in Allocation \cup {NoRow}
                          /\ rs[e].status \in Taken => ss[e].status \in Taken
                          /\ \/ ss[e].isPrimary <=> ss[e].primary = e
                             \/ /\ ss[e].isPrimary = rs[e].isPrimary
                                /\ ss[e].primary = rs[e].primary
    <2> TAKE e \in Emails
    <2>1. CASE \E a \in Accounts : as[a].email = e
      <3> DEFINE owner == CHOOSE a \in Accounts : as[a].email = e
                 incoming == StatusOfAccount(as[owner])
      <3>1. owner \in Accounts
        BY <2>1
      <3>2. incoming \in {"USER_ALREADY_EXISTS", "REGISTERED", "ASSIGNED"}
        BY DEF StatusOfAccount
      <3>3. ss[e] = BackfillRow(rs[e], e, owner, incoming)
        BY <2>1 DEF BackfillFromAccounts
      <3>4. rs[e] \in Allocation \cup {NoRow} /\ (rs[e].status = "NONE" => rs[e] = NoRow)
        BY RowCases DEF Table
      <3> HIDE DEF owner, incoming, ss
      <3> QED
        BY <3>1, <3>2, <3>3, <3>4, SafeBackfillRow
    <2>2. CASE ~ \E a \in Accounts : as[a].email = e
      <3>1. ss[e] = rs[e]
        BY <2>2 DEF BackfillFromAccounts
      <3> QED
        BY <3>1 DEF Table
    <2> QED
      BY <2>1, <2>2
  <1>2. ss \in Table
    BY <1>1 DEF Table, BackfillFromAccounts
  <1> HIDE DEF ss
  <1>3. Safe(rs, ss)
    BY <1>1, <1>2, SafeRows
  <1> QED
    BY <1>3 DEF ss

\* What the last three statements do: they change a row's status and splittable
\* flag, if they change it at all.
StatusRule(rs, ss) ==
    \A e \in Emails :
      \/ ss[e] = rs[e]
      \/ /\ RowExists(rs, e)
         /\ \E st \in {"REGISTERED", "BLOCKED"}, spl \in BOOLEAN :
              ss[e] = [rs[e] EXCEPT !.status = st, !.splittable = spl]

LEMMA SafeStatusRule ==
    ASSUME NEW rs \in Table, NEW ss,
           ss = [e \in Emails |-> ss[e]], StatusRule(rs, ss)
    PROVE  Safe(rs, ss)
  <1>1. \A e \in Emails : /\ ss[e] \in Allocation \cup {NoRow}
                          /\ rs[e].status \in Taken => ss[e].status \in Taken
                          /\ ss[e].isPrimary = rs[e].isPrimary
                          /\ ss[e].primary = rs[e].primary
    <2> TAKE e \in Emails
    <2>1. CASE ss[e] = rs[e]
      BY <2>1 DEF Table
    <2>2. CASE /\ RowExists(rs, e)
               /\ \E st \in {"REGISTERED", "BLOCKED"}, spl \in BOOLEAN :
                    ss[e] = [rs[e] EXCEPT !.status = st, !.splittable = spl]
      <3>1. PICK st \in {"REGISTERED", "BLOCKED"}, spl \in BOOLEAN :
              ss[e] = [rs[e] EXCEPT !.status = st, !.splittable = spl]
        BY <2>2
      <3>2. rs[e] \in Allocation
        BY <2>2, RowCases
      <3>3. st \in Taken /\ st \in AllocationStatus
        BY TakenStatuses DEF Dead
      <3> QED
        BY <3>1, <3>2, <3>3 DEF Allocation
    <2> QED
      BY <2>1, <2>2 DEF StatusRule
  <1>2. ss \in Table
    BY <1>1 DEF Table
  <1> QED
    BY <1>1, <1>2, SafeRows

LEMMA PromotePrimariesRule ==
    ASSUME NEW rs \in Table
    PROVE  StatusRule(rs, PromotePrimaries(rs))
  <1>1. \A e \in Emails :
          \/ PromotePrimaries(rs)[e] = rs[e]
          \/ /\ rs[e].isPrimary
             /\ PromotePrimaries(rs)[e] = [rs[e] EXCEPT !.status = "REGISTERED", !.splittable = TRUE]
    BY DEF PromotePrimaries
  <1>2. \A e \in Emails : rs[e].isPrimary => RowExists(rs, e)
    BY RowCases
  <1> QED
    BY <1>1, <1>2 DEF StatusRule

LEMMA SafePromotePrimaries ==
    ASSUME NEW rs \in Table
    PROVE  Safe(rs, PromotePrimaries(rs))
  <1>1. PromotePrimaries(rs) = [e \in Emails |-> PromotePrimaries(rs)[e]]
    BY DEF PromotePrimaries
  <1> QED
    BY <1>1, PromotePrimariesRule, SafeStatusRule

LEMMA BlockPrimariesRule ==
    ASSUME NEW rs \in Table
    PROVE  StatusRule(rs, BlockPrimaries(rs))
  <1>1. \A e \in Emails :
          \/ BlockPrimaries(rs)[e] = rs[e]
          \/ /\ rs[e].isPrimary
             /\ BlockPrimaries(rs)[e] = [rs[e] EXCEPT !.status = "BLOCKED", !.splittable = FALSE]
    BY DEF BlockPrimaries
  <1>2. \A e \in Emails : rs[e].isPrimary => RowExists(rs, e)
    BY RowCases
  <1> QED
    BY <1>1, <1>2 DEF StatusRule

LEMMA SafeBlockPrimaries ==
    ASSUME NEW rs \in Table
    PROVE  Safe(rs, BlockPrimaries(rs))
  <1>1. BlockPrimaries(rs) = [e \in Emails |-> BlockPrimaries(rs)[e]]
    BY DEF BlockPrimaries
  <1> QED
    BY <1>1, BlockPrimariesRule, SafeStatusRule

LEMMA BlockAliasesRule ==
    ASSUME NEW rs \in Table
    PROVE  StatusRule(rs, BlockAliases(rs))
  <1>1. \A e \in Emails :
          \/ BlockAliases(rs)[e] = rs[e]
          \/ /\ rs[e].status = "AVAILABLE"
             /\ BlockAliases(rs)[e] = [rs[e] EXCEPT !.status = "BLOCKED", !.splittable = FALSE]
    BY DEF BlockAliases
  <1>2. \A e \in Emails : rs[e].status = "AVAILABLE" => RowExists(rs, e)
    BY RowCases
  <1> QED
    BY <1>1, <1>2 DEF StatusRule

LEMMA SafeBlockAliases ==
    ASSUME NEW rs \in Table
    PROVE  Safe(rs, BlockAliases(rs))
  <1>1. BlockAliases(rs) = [e \in Emails |-> BlockAliases(rs)[e]]
    BY DEF BlockAliases
  <1> QED
    BY <1>1, BlockAliasesRule, SafeStatusRule

LEMMA SafeBackfillStatement ==
    ASSUME NEW rs \in Table, NEW as, NEW n \in 0..3
    PROVE  Safe(rs, BackfillStatement(rs, as, n))
  <1>1. /\ BackfillStatement(rs, as, 0) = BackfillFromAccounts(rs, as)
        /\ BackfillStatement(rs, as, 1) = PromotePrimaries(rs)
        /\ BackfillStatement(rs, as, 2) = BlockPrimaries(rs)
        /\ BackfillStatement(rs, as, 3) = BlockAliases(rs)
    BY DEF BackfillStatement
  <1>2. n = 0 \/ n = 1 \/ n = 2 \/ n = 3
    OBVIOUS
  <1> QED
    BY <1>1, <1>2, SafeBackfillFromAccounts, SafePromotePrimaries, SafeBlockPrimaries,
       SafeBlockAliases

-----------------------------------------------------------------------------
(* Owners and families: from rs to ss, an address somebody was given keeps *)
(* its owner, and a row is written with its own address or the canonical   *)
(* one as its primary.                                                     *)

Final == {"ASSIGNED", "REGISTERED"} \cup Dead

Owned(row) == row.status \in Final /\ row.assigned # None

OwnersStay(rs, ss) ==
    \A e \in Emails : Owned(rs[e]) => Owned(ss[e]) /\ ss[e].assigned = rs[e].assigned

\* The primaries an address can have.
Kin(e) == {e, Canonical[e]}

FamiliesStay(rs, ss) ==
    \A e \in Emails :
      RowExists(ss, e) =>
        \/ ss[e].primary \in Kin(e)
        \/ RowExists(rs, e) /\ ss[e].primary = rs[e].primary

Follows(rs, ss) == OwnersStay(rs, ss) /\ FamiliesStay(rs, ss)

LEMMA FollowsTransitive ==
    ASSUME NEW rs, NEW ss, NEW ts, Follows(rs, ss), Follows(ss, ts)
    PROVE  Follows(rs, ts)
  BY DEF Follows, OwnersStay, FamiliesStay

\* Rows that keep owner and primary, and end in a final status when they change.
LEMMA FollowsStatus ==
    ASSUME NEW rs, NEW ss,
           \A e \in Emails :
             \/ ss[e] = rs[e]
             \/ /\ RowExists(rs, e)
                /\ ss[e].primary = rs[e].primary /\ ss[e].assigned = rs[e].assigned
                /\ ss[e].status \in Final
    PROVE  Follows(rs, ss)
  BY DEF Follows, OwnersStay, FamiliesStay, Owned, RowExists

LEMMA FollowsRow ==
    ASSUME NEW rs \in Table, NEW e \in Emails, NEW row \in Allocation,
           Owned(rs[e]) => Owned(row) /\ row.assigned = rs[e].assigned,
           \/ row.primary \in Kin(e)
           \/ RowExists(rs, e) /\ row.primary = rs[e].primary
    PROVE  Follows(rs, [rs EXCEPT ![e] = row])
  BY DEF Follows, OwnersStay, FamiliesStay, RowExists, Table

LEMMA FinalStatuses ==
    /\ {"ASSIGNED", "REGISTERED", "BLOCKED", "USER_ALREADY_EXISTS"} = Final
    /\ "NONE" \notin Final /\ Open \cap Final = {}
    /\ \A current \in Final, incoming \in AllocationStatus :
         CanRefresh(current, incoming) => incoming \in Final
    /\ \A current \in Final : ~CanRefresh(current, "ASSIGNED")
  BY DEF Final, Dead, Open, CanRefresh

LEMMA RowFields ==
    ASSUME NEW row \in Allocation, NEW st, NEW spl
    PROVE  LET new == [row EXCEPT !.status = st, !.splittable = spl]
           IN  new.status = st /\ new.primary = row.primary /\ new.assigned = row.assigned
  BY DEF Allocation

LEMMA FollowsRefreshPrimary ==
    ASSUME NEW rs \in Table, NEW p \in Emails
    PROVE  Follows(rs, RefreshPrimary(rs, p))
  <1> DEFINE row == [rs[p] EXCEPT !.status = "REGISTERED", !.splittable = TRUE]
  <1>1. CASE rs[p].isPrimary
    <2>1. rs[p] \in Allocation /\ RowExists(rs, p)
      BY <1>1, RowCases
    <2>2. row.status = "REGISTERED" /\ row.primary = rs[p].primary /\ row.assigned = rs[p].assigned
      BY <2>1, RowFields
    <2>3. RefreshPrimary(rs, p) = rs \/ RefreshPrimary(rs, p) = [rs EXCEPT ![p] = row]
      BY <2>1 DEF RefreshPrimary, Table
    <2> HIDE DEF row
    <2>4. \A e \in Emails : e # p => RefreshPrimary(rs, p)[e] = rs[e]
      BY <2>3 DEF Table
    <2>5. RefreshPrimary(rs, p)[p] \in {rs[p], row}
      BY <2>3 DEF Table
    <2> QED
      BY <2>1, <2>2, <2>4, <2>5, FollowsStatus, FinalStatuses
  <1>2. CASE ~rs[p].isPrimary
    BY <1>2, FollowsStatus DEF RefreshPrimary
  <1> QED
    BY <1>1, <1>2

LEMMA FollowsUpsertRow ==
    ASSUME NEW rs \in Table, NEW e \in Emails, NEW p \in Kin(e),
           NEW st \in AllocationStatus, NEW spl \in BOOLEAN
    PROVE  Follows(rs, UpsertRow(rs, e, p, st, spl))
  <1>0. p \in Emails
    BY CanonicalAssumption DEF Kin
  <1>1. CASE RowExists(rs, e)
    <2> DEFINE row == [rs[e] EXCEPT
                         !.primary = p,
                         !.isPrimary = (p = e),
                         !.status = IF CanRefresh(rs[e].status, st) THEN st ELSE @,
                         !.splittable = @ \/ spl]
               ss == [rs EXCEPT ![e] = row]
    <2>1. rs[e] \in Allocation
      BY <1>1, RowCases
    <2>2. row \in Allocation /\ row.primary = p /\ row.assigned = rs[e].assigned
      BY <1>0, <2>1 DEF Allocation
    <2>3. row.status = IF CanRefresh(rs[e].status, st) THEN st ELSE rs[e].status
      BY <2>1 DEF Allocation
    <2>4. UpsertRow(rs, e, p, st, spl) = RefreshPrimary(ss, p)
      BY <1>1 DEF UpsertRow
    <2> HIDE DEF row
    <2>5. Owned(rs[e]) => Owned(row)
      BY <2>2, <2>3, FinalStatuses DEF Owned
    <2>6. Follows(rs, ss)
      BY <2>2, <2>5, FollowsRow
    <2>7. ss \in Table
      BY <2>2 DEF Table
    <2> HIDE DEF ss
    <2> QED
      BY <1>0, <2>4, <2>6, <2>7, FollowsRefreshPrimary, FollowsTransitive
  <1>2. CASE ~RowExists(rs, e)
    <2> DEFINE row == [primary |-> p, isPrimary |-> (p = e), status |-> st,
                       splittable |-> spl, assigned |-> None]
    <2>1. UpsertRow(rs, e, p, st, spl) = [rs EXCEPT ![e] = row]
      BY <1>2 DEF UpsertRow
    <2>2. row \in Allocation /\ row.primary \in Kin(e) /\ ~Owned(rs[e])
      BY <1>0, <1>2, FinalStatuses DEF Allocation, Owned, RowExists
    <2> HIDE DEF row
    <2> QED
      BY <2>1, <2>2, FollowsRow
  <1> QED
    BY <1>1, <1>2

LEMMA FollowsClaimRow ==
    ASSUME NEW rs \in Table, NEW e \in Emails, NEW a \in Accounts, RowExists(rs, e),
           rs[e].status \notin Final \/ rs[e].assigned = a
    PROVE  Follows(rs, ClaimRow(rs, e, a))
  <1> DEFINE row == [rs[e] EXCEPT !.status = "ASSIGNED", !.assigned = a]
  <1>1. rs[e] \in Allocation
    BY RowCases
  <1>2. row \in Allocation /\ row.status = "ASSIGNED" /\ row.assigned = a
        /\ row.primary = rs[e].primary
    BY <1>1, TakenStatuses DEF Allocation
  <1>3. ClaimRow(rs, e, a) = [rs EXCEPT ![e] = row]
    BY DEF ClaimRow, Table
  <1> HIDE DEF row
  <1>4. Owned(rs[e]) => Owned(row) /\ row.assigned = rs[e].assigned
    BY <1>2, FinalStatuses DEF Owned
  <1> QED
    BY <1>2, <1>3, <1>4, FollowsRow

LEMMA FollowsAliasRow ==
    ASSUME NEW rs \in Table, NEW p \in Emails, NEW alias \in Emails,
           NEW a \in Accounts, Canonical[alias] = p, ~RowExists(rs, alias)
    PROVE  Follows(rs, AliasRow(rs, p, alias, a))
  <1> DEFINE row == [primary |-> p, isPrimary |-> FALSE, status |-> "ASSIGNED",
                     splittable |-> FALSE, assigned |-> a]
  <1>1. row \in Allocation /\ row.primary \in Kin(alias) /\ ~Owned(rs[alias])
    BY TakenStatuses, FinalStatuses DEF Allocation, Kin, Owned, RowExists
  <1>2. AliasRow(rs, p, alias, a) = [rs EXCEPT ![alias] = row]
    BY DEF AliasRow
  <1> HIDE DEF row
  <1> QED
    BY <1>1, <1>2, FollowsRow

LEMMA FollowsAssignRow ==
    ASSUME NEW rs \in Table, NEW e \in Emails, NEW a \in Accounts
    PROVE  Follows(rs, AssignRow(rs, e, a))
  <1>1. CASE ~RowExists(rs, e)
    <2> DEFINE row == [primary |-> Canonical[e], isPrimary |-> (Canonical[e] = e),
                       status |-> "ASSIGNED", splittable |-> FALSE, assigned |-> a]
    <2>1. row \in Allocation /\ row.primary \in Kin(e) /\ ~Owned(rs[e])
      BY <1>1, CanonicalAssumption, TakenStatuses, FinalStatuses DEF Allocation, Kin, Owned, RowExists
    <2>2. AssignRow(rs, e, a) = [rs EXCEPT ![e] = row]
      BY <1>1 DEF AssignRow
    <2> HIDE DEF row
    <2> QED
      BY <2>1, <2>2, FollowsRow
  <1>2. CASE RowExists(rs, e) /\ (CanRefresh(rs[e].status, "ASSIGNED") \/ rs[e].assigned = a)
    <2>1. rs[e].status \notin Final \/ rs[e].assigned = a
      BY <1>2, FinalStatuses
    <2> QED
      BY <1>2, <2>1, FollowsClaimRow DEF AssignRow
  <1>3. CASE RowExists(rs, e) /\ ~(CanRefresh(rs[e].status, "ASSIGNED") \/ rs[e].assigned = a)
    BY <1>3, FollowsStatus DEF AssignRow
  <1> QED
    BY <1>1, <1>2, <1>3

LEMMA FollowsBlockFamily ==
    ASSUME NEW rs \in Table, NEW p \in Emails
    PROVE  Follows(rs, BlockFamily(rs, p))
  <1> DEFINE ss == BlockFamily(rs, p)
  <1>1. ASSUME NEW x \in Emails
        PROVE  \/ ss[x] = rs[x]
               \/ /\ RowExists(rs, x)
                  /\ ss[x].primary = rs[x].primary /\ ss[x].assigned = rs[x].assigned
                  /\ ss[x].status \in Final
    <2>1. CASE rs[x] \in Allocation /\ RowExists(rs, x)
      <3>1. ss[x] \in {rs[x], [rs[x] EXCEPT !.status = "BLOCKED", !.splittable = FALSE],
                       [rs[x] EXCEPT !.status = "BLOCKED"]}
        BY DEF BlockFamily
      <3> QED
        BY <2>1, <3>1, FinalStatuses DEF Allocation
    <2>2. CASE rs[x] = NoRow
      BY <2>2 DEF BlockFamily, NoRow
    <2> QED
      BY <2>1, <2>2, RowCases
  <1> HIDE DEF ss
  <1>2. Follows(rs, ss)
    BY <1>1, FollowsStatus
  <1> QED
    BY <1>2 DEF ss

LEMMA FollowsMarkRow ==
    ASSUME NEW rs \in Table, NEW e \in Emails, NEW st \in MarkStatus
    PROVE  Follows(rs, MarkRow(rs, e, st))
  <1>1. CASE ~RowExists(rs, e)
    BY <1>1, FollowsStatus DEF MarkRow
  <1>2. CASE RowExists(rs, e)
    <2> DEFINE row == [rs[e] EXCEPT
                         !.status = st,
                         !.splittable = IF st \in Dead THEN FALSE
                                        ELSE @ \/ (st = "REGISTERED" /\ rs[e].isPrimary)]
               ss == [rs EXCEPT ![e] = row]
    <2>1. rs[e] \in Allocation
      BY <1>2, RowCases
    <2>2. st \in Final /\ st \in AllocationStatus
      BY FinalStatuses, TakenStatuses DEF MarkStatus, Dead
    <2>3. row \in Allocation /\ row.status = st
          /\ row.assigned = rs[e].assigned /\ row.primary = rs[e].primary
      BY <2>1, <2>2 DEF Allocation
    <2>4. rs[e].primary \in Emails
      BY <2>1 DEF Allocation
    <2>5. MarkRow(rs, e, st) \in
            {ss, RefreshPrimary(ss, rs[e].primary), BlockFamily(ss, rs[e].primary)}
      BY <1>2 DEF MarkRow
    <2> HIDE DEF row
    <2>6. Follows(rs, ss)
      BY <1>2, <2>2, <2>3, FollowsRow DEF Owned
    <2>7. ss \in Table
      BY <2>3 DEF Table
    <2> HIDE DEF ss
    <2> QED
      BY <2>4, <2>5, <2>6, <2>7, FollowsRefreshPrimary, FollowsBlockFamily, FollowsTransitive
  <1> QED
    BY <1>1, <1>2

\* The backfill statements after the first.
LEMMA FollowsStatusRule ==
    ASSUME NEW rs \in Table, NEW ss, StatusRule(rs, ss)
    PROVE  Follows(rs, ss)
  <1>1. ASSUME NEW e \in Emails
        PROVE  \/ ss[e] = rs[e]
               \/ /\ RowExists(rs, e)
                  /\ ss[e].primary = rs[e].primary /\ ss[e].assigned = rs[e].assigned
                  /\ ss[e].status \in Final
    <2>1. CASE ss[e] = rs[e]
      BY <2>1
    <2>2. CASE RowExists(rs, e) /\ ss[e] # rs[e]
      <3>1. PICK st \in {"REGISTERED", "BLOCKED"}, spl \in BOOLEAN :
              ss[e] = [rs[e] EXCEPT !.status = st, !.splittable = spl]
        BY <2>2 DEF StatusRule
      <3>2. rs[e] \in Allocation /\ st \in Final
        BY <2>2, RowCases, FinalStatuses
      <3> QED
        BY <2>2, <3>1, <3>2, RowFields
    <2> QED
      BY <2>1, <2>2 DEF StatusRule
  <1> QED
    BY <1>1, FollowsStatus

-----------------------------------------------------------------------------
(* Steps.                                                                  *)

\* Every step rewrites the table safely, keeps the accounts well typed and
\* leaves the address of every account that it keeps alone.
StepIsSafe ==
    /\ Safe(rows, rows')
    /\ accounts' \in [Accounts -> Account \cup {NoAccount}]
    /\ phase' \in 0..Serving
    /\ \A a \in Accounts :
         AccountExists(accounts', a) =>
           \/ AccountExists(accounts, a) /\ accounts'[a].email = accounts[a].email
           \/ accounts'[a].email \in Emails /\ rows'[accounts'[a].email].status \in Taken

LEMMA AccountCases ==
    ASSUME TypeOK, NEW a \in Accounts
    PROVE  \/ accounts[a] \in Account /\ AccountExists(accounts, a)
           \/ accounts[a] = NoAccount /\ ~AccountExists(accounts, a)
  <1>1. CASE accounts[a] \in Account
    BY <1>1 DEF Account, AccountStatus, AccountExists
  <1>2. CASE accounts[a] = NoAccount
    BY <1>2 DEF NoAccount, AccountExists
  <1> QED
    BY <1>1, <1>2 DEF TypeOK

LEMMA AccountRequestIsSafe ==
    ASSUME TypeOK, AccountRequest, phase' = phase
    PROVE  StepIsSafe
  <1> USE DEF TypeOK
  <1>1. rows \in Table /\ Safe(rows, rows)
    BY SafeReflexive DEF Table
  <1>2. ASSUME NEW a \in Accounts, NEW e \in Emails, CreateAccount(a, e)
        PROVE  StepIsSafe
    <2> DEFINE account == [email |-> e, status |-> "CREATED", tokens |-> FALSE]
    <2>1. account \in Account
      BY DEF Account, AccountStatus
    <2>2. accounts' = [accounts EXCEPT ![a] = account] /\ rows' = AssignRow(rows, e, a)
      BY <1>2 DEF CreateAccount
    <2>3. accounts' \in [Accounts -> Account \cup {NoAccount}]
      BY <2>1, <2>2
    <2>4. Safe(rows, rows') /\ rows'[e].status \in Taken
      BY <1>1, <2>2, SafeAssignRow
    <2>5. accounts'[a].email = e /\ \A b \in Accounts \ {a} : accounts'[b] = accounts[b]
      BY <2>2
    <2> QED
      BY <2>3, <2>4, <2>5 DEF StepIsSafe, AccountExists
  <1>3. ASSUME NEW a \in Accounts, NEW st \in UpdateStatus \cup {None}, NEW tokens \in BOOLEAN,
               UpdateAccount(a, st, tokens), st = None \/ st \in UpdateStatus
        PROVE  StepIsSafe
    <2> DEFINE status == IF st = None THEN accounts[a].status ELSE st
               flag == accounts[a].tokens \/ tokens
               account == [accounts[a] EXCEPT !.status = status, !.tokens = flag]
    <2>1. accounts[a] \in Account /\ AccountExists(accounts, a)
      BY <1>3, AccountCases DEF UpdateAccount
    <2>2. status \in AccountStatus /\ flag \in BOOLEAN
      BY <1>3, <2>1, StatusAssumption DEF Account
    <2> HIDE DEF status, flag
    <2>3. account \in Account /\ account.email = accounts[a].email
      BY <2>1, <2>2 DEF Account
    <2>4. accounts' = [accounts EXCEPT ![a] = account] /\ rows' = rows
      BY <1>3, <2>1 DEF UpdateAccount, status, flag, Account
    <2> HIDE DEF account
    <2>5. accounts' \in [Accounts -> Account \cup {NoAccount}]
      BY <2>3, <2>4
    <2>6. accounts'[a].email = accounts[a].email
          /\ \A b \in Accounts \ {a} : accounts'[b] = accounts[b]
      BY <2>3, <2>4
    <2> QED
      BY <1>1, <2>1, <2>4, <2>5, <2>6 DEF StepIsSafe, AccountExists
  <1>4. ASSUME NEW a \in Accounts, DeleteAccount(a)
        PROVE  StepIsSafe
    BY <1>1, <1>4 DEF DeleteAccount, StepIsSafe, AccountExists, NoAccount
  <1> QED
    BY <1>2, <1>3, <1>4 DEF AccountRequest

LEMMA AllocationRequestIsSafe ==
    ASSUME TypeOK, AllocationRequest, phase' = phase
    PROVE  StepIsSafe
  <1>1. rows \in Table
    BY DEF TypeOK, Table
  <1>2. PICK e \in Emails :
          \/ \E st \in UpsertStatus, p \in {e, Canonical[e]} :
               UpsertGPTEmailAllocation(e, p, st)
          \/ \E a \in Accounts, requirePrimary \in BOOLEAN :
               ClaimGPTEmailAllocation(e, a, requirePrimary)
          \/ \E a \in Accounts, alias \in Emails :
               CreateGPTEmailAliasAllocation(e, alias, a)
          \/ \E st \in MarkStatus : MarkGPTEmailAllocationStatus(e, st)
    BY DEF AllocationRequest
  <1>3. ASSUME NEW st \in UpsertStatus, NEW p \in {e, Canonical[e]},
               UpsertGPTEmailAllocation(e, p, st)
        PROVE  Safe(rows, rows') /\ accounts' = accounts
    <2>1. p \in Emails /\ st \in AllocationStatus
      BY CanonicalAssumption, StatusAssumption
    <2> QED
      BY <1>1, <1>3, <2>1, SafeUpsertRow DEF UpsertGPTEmailAllocation
  <1>4. ASSUME NEW a \in Accounts, NEW requirePrimary \in BOOLEAN,
               ClaimGPTEmailAllocation(e, a, requirePrimary)
        PROVE  Safe(rows, rows') /\ accounts' = accounts
    BY <1>1, <1>4, SafeClaimRow DEF ClaimGPTEmailAllocation, Claimable, RowExists
  <1>5. ASSUME NEW a \in Accounts, NEW alias \in Emails,
               CreateGPTEmailAliasAllocation(e, alias, a)
        PROVE  Safe(rows, rows') /\ accounts' = accounts
    BY <1>1, <1>5, SafeAliasRow DEF CreateGPTEmailAliasAllocation
  <1>6. ASSUME NEW st \in MarkStatus, MarkGPTEmailAllocationStatus(e, st)
        PROVE  Safe(rows, rows') /\ accounts' = accounts
    BY <1>1, <1>6, SafeMarkRow DEF MarkGPTEmailAllocationStatus
  <1>7. Safe(rows, rows') /\ accounts' = accounts
    BY <1>2, <1>3, <1>4, <1>5, <1>6
  <1> QED
    BY <1>7 DEF StepIsSafe, TypeOK, AccountExists

LEMMA NextIsSafe ==
    ASSUME TypeOK, [Next]_vars
    PROVE  StepIsSafe
  <1>1. rows \in Table /\ Safe(rows, rows)
    BY SafeReflexive DEF TypeOK, Table
  <1>2. CASE Request
    BY <1>2, AccountRequestIsSafe, AllocationRequestIsSafe DEF Request
  <1>3. CASE BackfillStep
    <2>1. phase \in 0..3 /\ phase' = phase + 1 /\ accounts' = accounts
          /\ rows' = BackfillStatement(rows, accounts, phase)
      BY <1>3 DEF BackfillStep, TypeOK, Serving
    <2>2. Safe(rows, rows')
      BY <1>1, <2>1, SafeBackfillStatement
    <2> QED
      BY <2>1, <2>2 DEF StepIsSafe, TypeOK, AccountExists, Serving
  <1>4. CASE Serve
    BY <1>1, <1>4 DEF Serve, StepIsSafe, TypeOK, AccountExists, Serving
  <1>5. CASE Restart
    BY <1>1, <1>5 DEF Restart, StepIsSafe, TypeOK, AccountExists, Serving
  <1>6. CASE UNCHANGED vars
    BY <1>1, <1>6 DEF vars, StepIsSafe, TypeOK, AccountExists
  <1> QED
    BY <1>2, <1>3, <1>4, <1>5, <1>6 DEF Next

-----------------------------------------------------------------------------
(* Theorems.                                                               *)

\* Both tables stay well typed: no handler or backfill statement writes a
\* partial row, a row for an unknown address or an unknown status.
THEOREM TypeCorrect == Spec => []TypeOK
  <1>1. Init => TypeOK
    BY DEF Init, TypeOK, Serving
  <1>2. TypeOK /\ [Next]_vars => TypeOK'
    BY NextIsSafe DEF StepIsSafe, Safe, Table, TypeOK
  <1> QED
    BY <1>1, <1>2, PTL DEF Spec

\* An address that was given away, or set aside, never returns to the pool.
THEOREM NeverBack == Spec => NeverBackInPool
  <1>1. TypeOK /\ [Next]_vars =>
          [\A e \in Emails : rows[e].status \in Taken => rows'[e].status \in Taken]_vars
    BY NextIsSafe DEF StepIsSafe, Safe, Keeps
  <1> QED
    BY <1>1, TypeCorrect, PTL DEF Spec, NeverBackInPool

\* The address of a live account exists as a row nobody can claim.
THEOREM AccountsAreOutOfPool == Spec => []AccountEmailNotInPool
  <1>1. Init => AccountEmailNotInPool
    BY DEF Init, AccountEmailNotInPool, AccountExists, NoAccount
  <1>2. TypeOK /\ AccountEmailNotInPool /\ [Next]_vars => AccountEmailNotInPool'
    <2> SUFFICES ASSUME TypeOK, AccountEmailNotInPool, [Next]_vars,
                        NEW a \in Accounts, AccountExists(accounts', a)
                 PROVE  rows'[accounts'[a].email].status \in Taken
      BY DEF AccountEmailNotInPool
    <2>1. StepIsSafe
      BY NextIsSafe
    <2>2. CASE AccountExists(accounts, a) /\ accounts'[a].email = accounts[a].email
      <3>1. accounts[a].email \in Emails
        BY <2>2, AccountCases DEF Account
      <3>2. rows[accounts[a].email].status \in Taken
        BY <2>2 DEF AccountEmailNotInPool
      <3> QED
        BY <2>1, <2>2, <3>1, <3>2 DEF StepIsSafe, Safe, Keeps
    <2> QED
      BY <2>1, <2>2 DEF StepIsSafe
  <1> QED
    BY <1>1, <1>2, TypeCorrect, PTL DEF Spec

\* The primary flag of every row says whether the row is its own primary.
THEOREM PrimaryFlags == Spec => []PrimaryFlagAgrees
  <1>1. Init => PrimaryFlagAgrees
    BY NoneAssumption DEF Init, PrimaryFlagAgrees, NoRow
  <1>2. TypeOK /\ PrimaryFlagAgrees /\ [Next]_vars => PrimaryFlagAgrees'
    BY NextIsSafe DEF StepIsSafe, Safe, Agrees, PrimaryFlagAgrees
  <1> QED
    BY <1>1, <1>2, TypeCorrect, PTL DEF Spec

\* What the handlers keep between the two tables, for any number of addresses and
\* accounts and any order of requests and restarts.
THEOREM TablesAlwaysAgree == Spec => []TablesAgree
  BY TypeCorrect, PrimaryFlags, AccountsAreOutOfPool, PTL DEF TablesAgree

-----------------------------------------------------------------------------
(* Owners.                                                                 *)

\* Requests, and the backfill statements after the first.
LEMMA RequestFollows ==
    ASSUME TypeOK, Request
    PROVE  Follows(rows, rows')
  <1>1. rows \in Table
    BY DEF TypeOK, Table
  <1>2. ASSUME rows' = rows PROVE Follows(rows, rows')
    BY <1>2, FollowsStatus
  <1>3. CASE AccountRequest
    <2>1. ASSUME NEW a \in Accounts, NEW e \in Emails, CreateAccount(a, e)
          PROVE  Follows(rows, rows')
      BY <1>1, <2>1, FollowsAssignRow DEF CreateAccount
    <2>2. (\E a \in Accounts, e \in Emails : CreateAccount(a, e)) \/ rows' = rows
      BY <1>3 DEF AccountRequest, UpdateAccount, DeleteAccount
    <2> QED
      BY <1>2, <2>1, <2>2
  <1>4. CASE AllocationRequest
    <2>1. PICK e \in Emails :
            \/ \E st \in UpsertStatus, p \in {e, Canonical[e]} :
                 UpsertGPTEmailAllocation(e, p, st)
            \/ \E a \in Accounts, requirePrimary \in BOOLEAN :
                 ClaimGPTEmailAllocation(e, a, requirePrimary)
            \/ \E a \in Accounts, alias \in Emails :
                 CreateGPTEmailAliasAllocation(e, alias, a)
            \/ \E st \in MarkStatus : MarkGPTEmailAllocationStatus(e, st)
      BY <1>4 DEF AllocationRequest
    <2>2. ASSUME NEW st \in UpsertStatus, NEW p \in {e, Canonical[e]},
                 UpsertGPTEmailAllocation(e, p, st)
          PROVE  Follows(rows, rows')
      <3>1. p \in Kin(e) /\ st \in AllocationStatus
        BY StatusAssumption DEF Kin
      <3> QED
        BY <1>1, <2>2, <3>1, FollowsUpsertRow DEF UpsertGPTEmailAllocation
    <2>3. ASSUME NEW a \in Accounts, NEW requirePrimary \in BOOLEAN,
                 ClaimGPTEmailAllocation(e, a, requirePrimary)
          PROVE  Follows(rows, rows')
      <3>1. RowExists(rows, e) /\ rows[e].status \notin Final
        BY <2>3 DEF ClaimGPTEmailAllocation, Claimable, RowExists, Final, Dead
      <3> QED
        BY <1>1, <2>3, <3>1, FollowsClaimRow DEF ClaimGPTEmailAllocation
    <2>4. ASSUME NEW a \in Accounts, NEW alias \in Emails,
                 CreateGPTEmailAliasAllocation(e, alias, a)
          PROVE  Follows(rows, rows')
      BY <1>1, <2>4, FollowsAliasRow DEF CreateGPTEmailAliasAllocation
    <2>5. ASSUME NEW st \in MarkStatus, MarkGPTEmailAllocationStatus(e, st)
          PROVE  Follows(rows, rows')
      BY <1>1, <2>5, FollowsMarkRow DEF MarkGPTEmailAllocationStatus
    <2> QED
      BY <2>1, <2>2, <2>3, <2>4, <2>5
  <1> QED
    BY <1>3, <1>4 DEF Request

LEMMA StatementRule ==
    ASSUME TypeOK, BackfillStep, phase # 0
    PROVE  StatusRule(rows, rows')
  <1>1. rows \in Table /\ phase \in 1..3
    BY DEF TypeOK, Table, BackfillStep, Serving
  <1>2. rows' = IF phase = 1 THEN PromotePrimaries(rows)
                ELSE IF phase = 2 THEN BlockPrimaries(rows) ELSE BlockAliases(rows)
    BY <1>1 DEF BackfillStep, BackfillStatement
  <1> QED
    BY <1>1, <1>2, PromotePrimariesRule, BlockPrimariesRule, BlockAliasesRule

\* An address that is assigned, registered or dead keeps its owner: of all that
\* writes the table, only the first backfill statement names another one.
THEOREM OwnersAreStable == Spec => OwnerIsStable
  <1>1. TypeOK /\ [Next]_vars =>
          [\A e \in Emails :
             /\ rows[e].status \in {"ASSIGNED", "REGISTERED"} \cup Dead
             /\ rows[e].assigned # None
             /\ rows'[e].assigned # rows[e].assigned
             => phase = 0]_vars
    <2> SUFFICES ASSUME TypeOK, [Next]_vars, phase # 0,
                        NEW e \in Emails, Owned(rows[e])
                 PROVE  rows'[e].assigned = rows[e].assigned
      BY DEF Owned, Final
    <2>1. CASE Request
      BY <2>1, RequestFollows DEF Follows, OwnersStay
    <2>2. CASE BackfillStep
      <3>1. rows \in Table
        BY DEF TypeOK, Table
      <3>2. Follows(rows, rows')
        BY <2>2, <3>1, StatementRule, FollowsStatusRule
      <3> QED
        BY <3>2 DEF Follows, OwnersStay
    <2>3. CASE Serve \/ Restart \/ UNCHANGED vars
      BY <2>3 DEF Serve, Restart, vars
    <2> QED
      BY <2>1, <2>2, <2>3 DEF Next
  <1> QED
    BY <1>1, TypeCorrect, PTL DEF Spec, OwnerIsStable

-----------------------------------------------------------------------------
(* What the backfill repairs.  Each statement establishes its part and     *)
(* keeps those of the statements before it, because no request comes in    *)
(* between.                                                                *)

\* accounts.email is unique.
EmailsDiffer ==
    \A a, b \in Accounts :
      a # b /\ AccountExists(accounts, a) => accounts[a].email # accounts[b].email

KinRows == \A e \in Emails : RowExists(rows, e) => rows[e].primary \in Kin(e)

\* An alias that exists already has a dead primary.
PrimariesBlocked ==
    \A e \in Emails :
      RowExists(rows, e) /\ ~rows[e].isPrimary /\ rows[e].status = "USER_ALREADY_EXISTS"
        /\ rows[rows[e].primary].isPrimary
        => rows[rows[e].primary].status \in Dead

\* A dead primary has no alias to claim.
AliasesBlocked ==
    \A e \in Emails :
      RowExists(rows, e) /\ ~rows[e].isPrimary /\ rows[rows[e].primary].status \in Dead
        => rows[e].status # "AVAILABLE"

RowsMatch == \A a \in Accounts : AccountExists(accounts, a) => RowMatchesAccount(a)

BackfillInv ==
    /\ TypeOK /\ PrimaryFlagAgrees /\ EmailsDiffer /\ KinRows
    /\ phase \in 1..4 => RowsMatch
    /\ phase \in 3..4 => PrimariesBlocked
    /\ phase = 4 => AliasesBlocked

LEMMA EmailsStayDifferent ==
    ASSUME TypeOK, EmailsDiffer, [Next]_vars
    PROVE  EmailsDiffer'
  <1>1. \A b \in Accounts : AccountExists(accounts, b) \/ accounts[b].email = None
    BY AccountCases DEF NoAccount
  <1>2. ASSUME NEW a \in Accounts, NEW e \in Emails, CreateAccount(a, e)
        PROVE  EmailsDiffer'
    <2>1. accounts' = [accounts EXCEPT ![a] = [email |-> e, status |-> "CREATED",
                                               tokens |-> FALSE]]
          /\ \A b \in Accounts : accounts[b].email # e
      BY <1>2 DEF CreateAccount
    <2>2. accounts'[a].email = e /\ \A b \in Accounts \ {a} : accounts'[b] = accounts[b]
      BY <2>1 DEF TypeOK
    <2> QED
      BY <2>1, <2>2 DEF EmailsDiffer, AccountExists
  <1>3. ASSUME NEW a \in Accounts, NEW st, NEW tokens, UpdateAccount(a, st, tokens)
        PROVE  EmailsDiffer'
    <2>1. accounts[a] \in Account /\ AccountExists(accounts, a)
      BY <1>3, AccountCases DEF UpdateAccount
    <2>2. accounts'[a].email = accounts[a].email
          /\ \A b \in Accounts \ {a} : accounts'[b] = accounts[b]
      BY <1>3, <2>1 DEF UpdateAccount, TypeOK, Account
    <2> QED
      BY <2>1, <2>2 DEF EmailsDiffer, AccountExists
  <1>4. ASSUME NEW a \in Accounts, DeleteAccount(a)
        PROVE  EmailsDiffer'
    <2>1. accounts' = [accounts EXCEPT ![a] = NoAccount]
      BY <1>4 DEF DeleteAccount
    <2>2. accounts'[a] = NoAccount /\ \A b \in Accounts \ {a} : accounts'[b] = accounts[b]
      BY <2>1 DEF TypeOK
    <2>3. \A b \in Accounts : AccountExists(accounts, b) => accounts[b].email # None
      BY AccountCases, NoneAssumption DEF Account
    <2> QED
      BY <2>2, <2>3 DEF EmailsDiffer, AccountExists, NoAccount
  <1>5. ASSUME accounts' = accounts PROVE EmailsDiffer'
    BY <1>5 DEF EmailsDiffer, AccountExists
  <1>6. \/ \E a \in Accounts, e \in Emails : CreateAccount(a, e)
        \/ \E a \in Accounts : \E st, tokens : UpdateAccount(a, st, tokens)
        \/ \E a \in Accounts : DeleteAccount(a)
        \/ accounts' = accounts
    <2>1. CASE AccountRequest
      BY <2>1 DEF AccountRequest
    <2>2. CASE AllocationRequest \/ BackfillStep \/ Serve \/ Restart \/ UNCHANGED vars
      BY <2>2 DEF AllocationRequest, UpsertGPTEmailAllocation, ClaimGPTEmailAllocation,
                  CreateGPTEmailAliasAllocation, MarkGPTEmailAllocationStatus,
                  BackfillStep, Serve, Restart, vars
    <2> QED
      BY <2>1, <2>2 DEF Next, Request
  <1> QED
    BY <1>2, <1>3, <1>4, <1>5, <1>6

LEMMA KinStays ==
    ASSUME TypeOK, KinRows, [Next]_vars
    PROVE  KinRows'
  <1>1. ASSUME Follows(rows, rows') PROVE KinRows'
    BY <1>1 DEF Follows, FamiliesStay, KinRows, RowExists
  <1>2. CASE Request
    BY <1>1, <1>2, RequestFollows
  <1>3. CASE BackfillStep /\ phase # 0
    <2>1. rows \in Table
      BY DEF TypeOK, Table
    <2> QED
      BY <1>1, <1>3, <2>1, StatementRule, FollowsStatusRule
  <1>4. CASE BackfillStep /\ phase = 0
    <2>1. rows' = BackfillFromAccounts(rows, accounts)
      BY <1>4 DEF BackfillStep, BackfillStatement
    <2>2. \A e \in Emails : rows'[e] = rows[e] \/ rows'[e].primary = Canonical[e]
      BY <2>1 DEF BackfillFromAccounts, BackfillRow
    <2> QED
      BY <2>2 DEF KinRows, Kin, RowExists
  <1>5. CASE Serve \/ Restart \/ UNCHANGED vars
    BY <1>5 DEF Serve, Restart, vars, KinRows, RowExists
  <1> QED
    BY <1>2, <1>3, <1>4, <1>5 DEF Next

\* The first statement gives the row of every account its owner and status.
LEMMA FirstStatement ==
    ASSUME TypeOK, EmailsDiffer, BackfillStep, phase = 0
    PROVE  RowsMatch'
  <1>1. rows' = BackfillFromAccounts(rows, accounts) /\ accounts' = accounts
    BY DEF BackfillStep, BackfillStatement
  <1>2. ASSUME NEW a \in Accounts, AccountExists(accounts, a)
        PROVE  RowMatchesAccount(a)'
    <2> DEFINE e == accounts[a].email
               incoming == StatusOfAccount(accounts[a])
    <2>1. e \in Emails
      BY <1>2, AccountCases DEF Account
    <2>2. (CHOOSE b \in Accounts : accounts[b].email = e) = a
      BY <1>2 DEF EmailsDiffer
    <2>3. rows'[e] = BackfillRow(rows[e], e, a, incoming)
      BY <1>1, <2>1, <2>2 DEF BackfillFromAccounts
    <2>4. incoming \in {"USER_ALREADY_EXISTS", "REGISTERED", "ASSIGNED"}
      BY DEF StatusOfAccount
    <2>5. rows'[e].assigned = a
      BY <2>3 DEF BackfillRow
    <2>6. incoming = "REGISTERED" => rows'[e].status \in {"REGISTERED"} \cup Dead
      BY <2>3 DEF BackfillRow, Dead
    <2>7. incoming = "USER_ALREADY_EXISTS" => rows'[e].status = "USER_ALREADY_EXISTS"
      BY <2>3 DEF BackfillRow
    <2>8. accounts'[a].email = e /\ StatusOfAccount(accounts'[a]) = incoming
      BY <1>1
    <2> HIDE DEF e, incoming
    <2> QED
      BY <2>5, <2>6, <2>7, <2>8 DEF RowMatchesAccount
  <1> QED
    BY <1>1, <1>2 DEF RowsMatch, AccountExists

\* The later ones leave an address that exists already alone, ...
LEMMA ExistingStays ==
    ASSUME TypeOK, BackfillStep, phase # 0, NEW e \in Emails
    PROVE  /\ rows[e].status = "USER_ALREADY_EXISTS" => rows'[e] = rows[e]
           /\ rows'[e] # rows[e] =>
                 /\ rows'[e].status \in {"REGISTERED", "BLOCKED"}
                 /\ rows'[e].primary = rows[e].primary
                 /\ rows'[e].isPrimary = rows[e].isPrimary
                 /\ rows'[e].assigned = rows[e].assigned
  <1>1. phase \in 1..3 /\ rows' = BackfillStatement(rows, accounts, phase)
    BY DEF TypeOK, BackfillStep, Serving
  <1>2. rows' \in {PromotePrimaries(rows), BlockPrimaries(rows), BlockAliases(rows)}
    BY <1>1 DEF BackfillStatement
  <1>3. rows[e].status = "USER_ALREADY_EXISTS" => rows'[e] = rows[e]
    BY <1>2 DEF PromotePrimaries, BlockPrimaries, BlockAliases, Dead
  <1>4. rows'[e] # rows[e] =>
          /\ RowExists(rows, e)
          /\ \E st \in {"REGISTERED", "BLOCKED"}, spl \in BOOLEAN :
               rows'[e] = [rows[e] EXCEPT !.status = st, !.splittable = spl]
    BY StatementRule DEF StatusRule
  <1>5. RowExists(rows, e) => rows[e] \in Allocation
    BY RowCases DEF TypeOK, Table
  <1> QED
    BY <1>3, <1>4, <1>5 DEF Allocation

\* ... and so the rows of the accounts.
LEMMA MatchStays ==
    ASSUME TypeOK, RowsMatch, BackfillStep, phase # 0
    PROVE  RowsMatch'
  <1>1. accounts' = accounts
    BY DEF BackfillStep
  <1>2. ASSUME NEW a \in Accounts, AccountExists(accounts, a)
        PROVE  RowMatchesAccount(a)'
    <2>1. accounts[a].email \in Emails
      BY <1>2, AccountCases DEF Account
    <2>2. RowMatchesAccount(a)
      BY <1>2 DEF RowsMatch
    <2> QED
      BY <1>1, <2>1, <2>2, ExistingStays DEF RowMatchesAccount, Dead
  <1> QED
    BY <1>1, <1>2 DEF RowsMatch, AccountExists

LEMMA BlockPrimariesBlocks ==
    ASSUME TypeOK, PrimaryFlagAgrees, BackfillStep, phase = 2
    PROVE  PrimariesBlocked'
  <1>1. rows' = BlockPrimaries(rows)
    BY DEF BackfillStep, BackfillStatement
  <1>2. ASSUME NEW e \in Emails, RowExists(rows', e), ~rows'[e].isPrimary,
               rows'[e].status = "USER_ALREADY_EXISTS", rows'[rows'[e].primary].isPrimary
        PROVE  rows'[rows'[e].primary].status \in Dead
    <2> DEFINE q == rows[e].primary
    <2>1. rows'[e] = rows[e] /\ rows[e] \in Allocation
      BY <1>2, ExistingStays, RowCases DEF TypeOK, Table
    <2>2. q \in Emails /\ e \in Emails \ {q}
      BY <1>2, <2>1 DEF Allocation, PrimaryFlagAgrees
    <2>3. rows[q].isPrimary /\ rows[q] \in Allocation
      BY <1>2, <2>1, <2>2, ExistingStays, RowCases DEF TypeOK, Table
    <2>4. CASE rows[q].status = "USER_ALREADY_EXISTS"
      BY <2>1, <2>2, <2>4, ExistingStays DEF Dead
    <2>5. CASE rows[q].status # "USER_ALREADY_EXISTS"
      <3>1. \E c \in Emails \ {q} : rows[c].primary = q /\ rows[c].status = "USER_ALREADY_EXISTS"
        BY <1>2, <2>1, <2>2
      <3>2. rows'[q] = [rows[q] EXCEPT !.status = "BLOCKED", !.splittable = FALSE]
        BY <1>1, <2>2, <2>3, <2>5, <3>1 DEF BlockPrimaries
      <3>3. rows'[q].status = "BLOCKED"
        BY <2>3, <3>2 DEF Allocation
      <3> QED
        BY <2>1, <3>3 DEF Dead
    <2> QED
      BY <2>4, <2>5
  <1> QED
    BY <1>2 DEF PrimariesBlocked, RowExists

LEMMA BlockAliasesBlocks ==
    ASSUME TypeOK, PrimaryFlagAgrees, KinRows, PrimariesBlocked, BackfillStep, phase = 3
    PROVE  PrimariesBlocked' /\ AliasesBlocked'
  <1>1. rows' = BlockAliases(rows)
    BY DEF BackfillStep, BackfillStatement
  <1>2. \A e \in Emails : rows[e].isPrimary => rows'[e] = rows[e]
    BY <1>1 DEF BlockAliases
  <1>3. \A e \in Emails : rows'[e].status \in {"USER_ALREADY_EXISTS", "AVAILABLE"} =>
                            rows'[e] = rows[e]
    BY ExistingStays
  <1>4. ASSUME NEW e \in Emails, rows'[e] = rows[e], RowExists(rows, e), ~rows[e].isPrimary
        PROVE  /\ rows[e].primary \in Emails
               /\ RowExists(rows, rows[e].primary) => rows[rows[e].primary].isPrimary
    <2> DEFINE q == rows[e].primary
    <2>1. q \in Emails /\ q # e
      BY <1>4, RowCases DEF TypeOK, Table, Allocation, PrimaryFlagAgrees
    <2>2. Kin(q) = {q}
      BY <1>4, <2>1, CanonicalAssumption DEF KinRows, Kin
    <2> QED
      BY <2>1, <2>2 DEF KinRows, PrimaryFlagAgrees
  <1>5. PrimariesBlocked'
    <2> SUFFICES ASSUME NEW e \in Emails, RowExists(rows', e), ~rows'[e].isPrimary,
                        rows'[e].status = "USER_ALREADY_EXISTS",
                        rows'[rows'[e].primary].isPrimary
                 PROVE  rows'[rows'[e].primary].status \in Dead
      BY DEF PrimariesBlocked, RowExists
    <2>1. rows'[e] = rows[e] /\ RowExists(rows, e)
      BY <1>3 DEF RowExists
    <2>2. rows[e].primary \in Emails
      BY <1>4, <2>1
    <2>3. rows[rows[e].primary].isPrimary
      BY <2>1, <2>2, ExistingStays
    <2> QED
      BY <1>2, <2>1, <2>2, <2>3 DEF PrimariesBlocked
  <1>6. AliasesBlocked'
    <2> SUFFICES ASSUME NEW e \in Emails, RowExists(rows', e), ~rows'[e].isPrimary,
                        rows'[rows'[e].primary].status \in Dead,
                        rows'[e].status = "AVAILABLE"
                 PROVE  FALSE
      BY DEF AliasesBlocked, RowExists
    <2> DEFINE q == rows[e].primary
    <2>1. rows'[e] = rows[e] /\ RowExists(rows, e)
      BY <1>3 DEF RowExists
    <2>2. q \in Emails /\ (RowExists(rows, q) => rows[q].isPrimary)
      BY <1>4, <2>1
    <2>3. rows[q].status \notin Dead
      <3>1. CASE rows[q].status \in Dead
        <4>1. rows'[e] = [rows[e] EXCEPT !.status = "BLOCKED", !.splittable = FALSE]
          BY <1>1, <2>1, <3>1 DEF BlockAliases
        <4>2. rows[e] \in Allocation
          BY <2>1, RowCases DEF TypeOK, Table
        <4> QED
          BY <4>1, <4>2 DEF Allocation
      <3> QED
        BY <3>1
    <2>4. ~RowExists(rows, q)
      BY <1>2, <2>1, <2>2, <2>3
    <2>5. rows'[q] = rows[q]
      BY <1>1, <2>2, <2>4 DEF BlockAliases, RowExists
    <2> QED
      BY <2>1, <2>3, <2>5
  <1> QED
    BY <1>5, <1>6

\* When account-db begins to serve after a complete backfill, every account has its
\* row, and no family with a dead primary or an existing alias can be split: for any
\* families and accounts, whatever the statements were interrupted by before.
THEOREM BackfillRepairs == Spec => []RestartRepairs
  <1>1. Init => BackfillInv
    BY NoneAssumption DEF Init, BackfillInv, TypeOK, Serving, PrimaryFlagAgrees, EmailsDiffer,
                          KinRows, RowExists, AccountExists, NoRow, NoAccount
  <1>2. BackfillInv /\ [Next]_vars => BackfillInv'
    <2> SUFFICES ASSUME BackfillInv, [Next]_vars PROVE BackfillInv'
      OBVIOUS
    <2> USE DEF BackfillInv
    <2>1. TypeOK' /\ PrimaryFlagAgrees' /\ EmailsDiffer' /\ KinRows'
      <3>1. StepIsSafe
        BY NextIsSafe
      <3> QED
        BY <3>1, EmailsStayDifferent, KinStays
           DEF StepIsSafe, Safe, Agrees, Table, TypeOK, PrimaryFlagAgrees
    <2>2. CASE BackfillStep
      <3>1. phase \in 0..3 /\ phase' = phase + 1
        BY <2>2 DEF BackfillStep, TypeOK, Serving
      <3>2. CASE phase = 0
        BY <2>1, <2>2, <3>1, <3>2, FirstStatement
      <3>3. CASE phase = 1
        BY <2>1, <2>2, <3>1, <3>3, MatchStays
      <3>4. CASE phase = 2
        BY <2>1, <2>2, <3>1, <3>4, MatchStays, BlockPrimariesBlocks
      <3>5. CASE phase = 3
        BY <2>1, <2>2, <3>1, <3>5, MatchStays, BlockAliasesBlocks
      <3> QED
        BY <3>1, <3>2, <3>3, <3>4, <3>5
    <2>3. CASE Request \/ Serve \/ Restart
      BY <2>1, <2>3 DEF Request, Serve, Restart, Serving
    <2>4. CASE UNCHANGED vars
      BY <2>4 DEF vars, TypeOK, PrimaryFlagAgrees, EmailsDiffer, KinRows, RowsMatch,
                  RowMatchesAccount, PrimariesBlocked, AliasesBlocked, AccountExists, RowExists
    <2> QED
      BY <2>2, <2>3, <2>4 DEF Next
  <1>3. BackfillInv => RestartRepairs
    BY DEF BackfillInv, RestartRepairs, RestartRowsMatchAccounts, RestartBlocksFamilies,
           FamilyBlocked, RowsMatch, PrimariesBlocked, AliasesBlocked
  <1> QED
    BY <1>1, <1>2, <1>3, PTL DEF Spec

-----------------------------------------------------------------------------
(* EmailPool: the callers.                                                 *)

\* What a registration job holds at each of its steps.
JobOK(job) ==
    /\ job.pc \in {"create", "mark", "markExists"} => job.email \in Emails
    /\ job.pc \in EnsureStep \cup PersistStep \cup {"browser"} =>
         job.attempts \in 1..MaxAttempts
    /\ job.pc # "idle" => job.jobs \in 1..MaxJobs

JobsOK == \A a \in Accounts : JobOK(reg[a])

PoolInv == PoolTypeOK /\ JobsOK

LEMMA ReportedStatuses ==
    /\ Reported \subseteq UpsertStatus
    /\ Reported \subseteq AllocationStatus
    /\ "NONE" \notin Reported
    /\ AllocationOf("NONE") = "NONE"
    /\ \A st \in Outcomes : AllocationOf(st) \in Reported
  BY CallersAssumption, OutcomesAssumption
     DEF Reported, AllocationOf, AuthStatus, AllocationStatus, Open, Taken

LEMMA MailboxesAreEmails == Mailboxes \subseteq Emails
  BY PoolAssumption

\* An attempt that ends leaves a job that is over or starts the activity again.
LEMMA EndedJob ==
    ASSUME NEW job \in Job, JobOK(job)
    PROVE  /\ Ended(job) \in Job /\ JobOK(Ended(job))
           /\ Ended(job).pc \in {"idle", "get", "persist"}
           /\ Ended(job).jobs = job.jobs
           /\ Ended(job).pc = "get" => /\ job.pc \in EnsureStep
                                       /\ Ended(job).attempts = job.attempts + 1
           /\ Ended(job).pc = "persist" => job.pc \in PersistStep
           /\ Ended(job).pc = "idle" => \/ job.pc \notin EnsureStep
                                        \/ job.attempts = MaxAttempts
  <1>1. job = [pc |-> job.pc, spec |-> job.spec, email |-> job.email, todo |-> job.todo,
               attempts |-> job.attempts, jobs |-> job.jobs]
        /\ job.pc \in JobStep /\ job.spec \in Emails \cup {None} /\ job.todo \in SUBSET Emails
        /\ job.attempts \in 0..MaxAttempts /\ job.jobs \in 0..MaxJobs
    BY DEF Job
    <1>2. CASE job.pc = "idle"
    BY <1>1, <1>2 DEF Ended, EnsureStep, PersistStep, JobOK
  <1>3. CASE job.pc \in EnsureStep \cup PersistStep /\ job.attempts < MaxAttempts
    <2> DEFINE pc == IF job.pc \in EnsureStep THEN "get" ELSE "persist"
    <2>1. Ended(job) = [pc |-> pc, spec |-> job.spec, email |-> None, todo |-> {},
                        attempts |-> job.attempts + 1, jobs |-> job.jobs]
      BY <1>1, <1>3 DEF Ended, EnsureStep, PersistStep
    <2>2. pc \in JobStep /\ pc \in {"get", "persist"}
          /\ (pc = "get" => job.pc \in EnsureStep) /\ (pc = "persist" => job.pc \in PersistStep)
      BY <1>3 DEF JobStep, EnsureStep, PersistStep
    <2>3. job.attempts \in 1..MaxAttempts /\ job.attempts + 1 \in 1..MaxAttempts
      BY <1>3, PoolAssumption DEF JobOK
    <2> HIDE DEF pc
    <2>4. Ended(job) \in Job
      BY <1>1, <2>1, <2>2, <2>3, PoolAssumption DEF Job
    <2>5. Ended(job).pc = pc /\ Ended(job).attempts = job.attempts + 1 /\ Ended(job).jobs = job.jobs
      BY <2>1
    <2>6. job.pc # "idle"
      BY <1>3 DEF EnsureStep, PersistStep
    <2> QED
      BY <1>3, <2>2, <2>3, <2>4, <2>5, <2>6 DEF JobOK
  <1>4. CASE job.pc # "idle" /\ ~(job.pc \in EnsureStep \cup PersistStep /\ job.attempts < MaxAttempts)
    <2>1. Ended(job) = [NoJob EXCEPT !.jobs = job.jobs]
      BY <1>4 DEF Ended, JobOver
    <2>2. Ended(job) = [pc |-> "idle", spec |-> None, email |-> None, todo |-> {},
                        attempts |-> 0, jobs |-> job.jobs]
      BY <2>1 DEF NoJob
    <2>3. job.pc \in EnsureStep => job.attempts = MaxAttempts
      BY <1>4, PoolAssumption DEF JobOK
    <2>4. Ended(job) \in Job
      BY <1>1, <2>2, PoolAssumption DEF Job, JobStep
    <2>5. Ended(job).pc = "idle" /\ Ended(job).jobs = job.jobs
      BY <2>2
    <2> QED
      BY <2>3, <2>4, <2>5 DEF EnsureStep, PersistStep, JobOK
  <1> QED
    BY <1>2, <1>3, <1>4

\* The addresses account a has a claim on: the rows that name it, its own, and the
\* one the attempt under way is to create it with.
Held(a) ==
    {e \in Emails : \/ rows[e].assigned = a
                    \/ accounts[a].email = e
                    \/ reg[a].pc = "create" /\ reg[a].email = e}

\* A step after which the tables give nobody an address it had no claim on ...
NoneHandedOut ==
    \A a \in Accounts, e \in Emails :
      rows'[e].assigned = a \/ accounts'[a].email = e => e \in Held(a)

\* ... and one that gives the address e to account a.
HandsOut(e, a) ==
    /\ rows[e].status \notin Taken /\ rows'[e].status \in Taken
    /\ rows'[e].assigned = a
    /\ \A x \in Emails \ {e} : rows'[x] = rows[x]
    /\ accounts' = accounts

\* What one step of its job does to it: a job is started, leaves EnsureAccount, takes
\* the address of its request, goes through a listing, is given an address, reports
\* and persists, is over, or its attempt ends.
Goes(old, new, pcs) == new.pc \in pcs /\ new.attempts = old.attempts /\ new.jobs = old.jobs

Started(old, new) ==
    /\ old.pc = "idle" /\ new.pc = "get"
    /\ new.attempts = 1 /\ new.jobs = old.jobs + 1 /\ old.jobs < MaxJobs

LeavesEnsure(old, new) ==
    /\ old.pc \in EnsureStep /\ new.pc = "browser"
    /\ new.attempts = 1 /\ new.jobs = old.jobs

TakesRequested(old, new) ==
    /\ old.pc = "get" /\ Goes(old, new, {"create"})
    /\ new.spec \in Emails /\ new.email = new.spec

Listing(old, new) ==
    /\ old.pc \in EnsureStep \ {"create"}
    /\ Goes(old, new, {"list", "claim", "split"})

GivenAddress(a, old, new, e) ==
    /\ old.pc \in {"claim", "split"} /\ Goes(old, new, {"create"})
    /\ new.email = e
    /\ HandsOut(e, a)

Reports(old, new) ==
    /\ old.pc \in {"browser"} \cup PersistStep \cup ExistsStep
    /\ Goes(old, new, {"persist", "exists", "mark", "markExists"})
    /\ old.pc \in {"browser", "persist"} \/ new.pc = "markExists"
    /\ new.pc \in {"mark", "markExists"} => new.email \in Emails

Over(old, new) ==
    old.pc \in PersistStep \cup ExistsStep /\ new = JobOver(old)

OwnMoves(old, new) ==
    \/ Started(old, new) \/ LeavesEnsure(old, new) \/ TakesRequested(old, new)
    \/ Listing(old, new) \/ Reports(old, new) \/ Over(old, new) \/ new = Ended(old)

Moves(a, old, new) ==
    \/ OwnMoves(old, new) /\ NoneHandedOut
    \/ \E e \in Emails : GivenAddress(a, old, new, e)

LEMMA MovesKeepJobs ==
    ASSUME NEW a, NEW old \in Job, JobOK(old), NEW new \in Job, Moves(a, old, new)
    PROVE  JobOK(new)
  <1> old.jobs \in 0..MaxJobs /\ MaxJobs \in Nat /\ MaxAttempts \in Nat \ {0}
    BY PoolAssumption DEF Job
  <1> USE DEF JobOK, EnsureStep, PersistStep, ExistsStep, Goes
  <1>1. CASE Started(old, new)
    BY <1>1 DEF Started
  <1>2. CASE LeavesEnsure(old, new)
    BY <1>2 DEF LeavesEnsure
  <1>3. CASE TakesRequested(old, new)
    BY <1>3 DEF TakesRequested
  <1>4. CASE Listing(old, new)
    BY <1>4 DEF Listing
  <1>5. ASSUME NEW e \in Emails, GivenAddress(a, old, new, e) PROVE JobOK(new)
    BY <1>5 DEF GivenAddress
  <1>6. CASE Reports(old, new)
    BY <1>6 DEF Reports
  <1>7. CASE Over(old, new)
    <2>1. new.pc = "idle"
      BY <1>7 DEF Over, JobOver, NoJob
    <2> QED
      BY <2>1
  <1>8. CASE new = Ended(old)
    BY <1>8, EndedJob
  <1> QED
    BY <1>1, <1>2, <1>3, <1>4, <1>5, <1>6, <1>7, <1>8 DEF Moves, OwnMoves

-----------------------------------------------------------------------------
(* Who the rows name.                                                      *)

AssignedStays(rs, ss) == \A e \in Emails : ss[e].assigned = rs[e].assigned

LEMMA AssignedStatusRule ==
    ASSUME NEW rs \in Table, NEW ss, StatusRule(rs, ss)
    PROVE  AssignedStays(rs, ss)
  <1>1. ASSUME NEW e \in Emails PROVE ss[e].assigned = rs[e].assigned
    <2>1. CASE ss[e] = rs[e]
      BY <2>1
    <2>2. ASSUME NEW st \in {"REGISTERED", "BLOCKED"}, NEW spl \in BOOLEAN, RowExists(rs, e),
                 ss[e] = [rs[e] EXCEPT !.status = st, !.splittable = spl]
          PROVE  ss[e].assigned = rs[e].assigned
      <3>1. rs[e] \in Allocation
        BY <2>2, RowCases
      <3> QED
        BY <2>2, <3>1, RowFields
    <2> QED
      BY <2>1, <2>2, Zenon DEF StatusRule
  <1> QED
    BY <1>1 DEF AssignedStays

LEMMA AssignedRefreshPrimary ==
    ASSUME NEW rs \in Table, NEW p \in Emails
    PROVE  AssignedStays(rs, RefreshPrimary(rs, p))
  <1>1. rs[p].isPrimary => rs[p] \in Allocation
    BY RowCases
  <1>2. rs[p].isPrimary =>
          [rs[p] EXCEPT !.status = "REGISTERED", !.splittable = TRUE].assigned = rs[p].assigned
    BY <1>1, RowFields
  <1> DEFINE row == [rs[p] EXCEPT !.status = "REGISTERED", !.splittable = TRUE]
  <1>3. RefreshPrimary(rs, p) = rs
        \/ (rs[p].isPrimary /\ RefreshPrimary(rs, p) = [rs EXCEPT ![p] = row])
    BY DEF RefreshPrimary, Table
  <1> HIDE DEF row
  <1>4. rs[p].isPrimary => row.assigned = rs[p].assigned
    BY <1>2 DEF row
  <1> QED
    BY <1>3, <1>4 DEF AssignedStays, Table

LEMMA AssignedUpsertRow ==
    ASSUME NEW rs \in Table, NEW e \in Emails, NEW st \in AllocationStatus, NEW spl \in BOOLEAN
    PROVE  AssignedStays(rs, UpsertRow(rs, e, e, st, spl))
  <1>1. CASE RowExists(rs, e)
    <2> DEFINE row == [rs[e] EXCEPT
                         !.primary = e,
                         !.isPrimary = (e = e),
                         !.status = IF CanRefresh(rs[e].status, st) THEN st ELSE @,
                         !.splittable = @ \/ spl]
               ss == [rs EXCEPT ![e] = row]
    <2>1. rs[e] \in Allocation
      BY <1>1, RowCases
    <2>2. row \in Allocation /\ row.assigned = rs[e].assigned
      BY <2>1 DEF Allocation
    <2>3. UpsertRow(rs, e, e, st, spl) = RefreshPrimary(ss, e)
      BY <1>1 DEF UpsertRow
    <2> HIDE DEF row
    <2>4. ss \in Table /\ AssignedStays(rs, ss)
      BY <2>2 DEF Table, AssignedStays
    <2> HIDE DEF ss
    <2> QED
      BY <2>3, <2>4, AssignedRefreshPrimary DEF AssignedStays
  <1>2. CASE ~RowExists(rs, e)
    <2> DEFINE row == [primary |-> e, isPrimary |-> (e = e), status |-> st,
                       splittable |-> spl, assigned |-> None]
    <2>1. UpsertRow(rs, e, e, st, spl) = [rs EXCEPT ![e] = row]
      BY <1>2 DEF UpsertRow
    <2>2. row.assigned = None /\ rs[e].assigned = None
      BY <1>2, RowCases DEF NoRow
    <2> HIDE DEF row
    <2> QED
      BY <2>1, <2>2 DEF AssignedStays, Table
  <1> QED
    BY <1>1, <1>2

LEMMA AssignedBlockFamily ==
    ASSUME NEW rs \in Table, NEW p \in Emails
    PROVE  AssignedStays(rs, BlockFamily(rs, p))
  <1>1. ASSUME NEW x \in Emails
        PROVE  BlockFamily(rs, p)[x].assigned = rs[x].assigned
    <2>1. rs[x].isPrimary \/ rs[x].status = "AVAILABLE" => rs[x] \in Allocation
      BY RowCases
    <2>2. \/ BlockFamily(rs, p)[x] = rs[x]
          \/ /\ rs[x] \in Allocation
             /\ \/ BlockFamily(rs, p)[x] = [rs[x] EXCEPT !.status = "BLOCKED", !.splittable = FALSE]
                \/ BlockFamily(rs, p)[x] = [rs[x] EXCEPT !.status = "BLOCKED"]
      BY <2>1 DEF BlockFamily
    <2> QED
      BY <2>2 DEF Allocation
  <1> QED
    BY <1>1 DEF AssignedStays

LEMMA AssignedMarkRow ==
    ASSUME NEW rs \in Table, NEW e \in Emails, NEW st \in MarkStatus
    PROVE  AssignedStays(rs, MarkRow(rs, e, st))
  <1>1. CASE ~RowExists(rs, e)
    BY <1>1 DEF MarkRow, AssignedStays
  <1>2. CASE RowExists(rs, e)
    <2> DEFINE row == [rs[e] EXCEPT
                         !.status = st,
                         !.splittable = IF st \in Dead THEN FALSE
                                        ELSE @ \/ (st = "REGISTERED" /\ rs[e].isPrimary)]
               ss == [rs EXCEPT ![e] = row]
    <2>1. rs[e] \in Allocation
      BY <1>2, RowCases
    <2>2. st \in AllocationStatus
      BY TakenStatuses DEF MarkStatus, Dead
    <2>3. row \in Allocation /\ row.assigned = rs[e].assigned
      BY <2>1, <2>2 DEF Allocation
    <2>4. rs[e].primary \in Emails
      BY <2>1 DEF Allocation
    <2>5. MarkRow(rs, e, st) \in
            {ss, RefreshPrimary(ss, rs[e].primary), BlockFamily(ss, rs[e].primary)}
      BY <1>2 DEF MarkRow
    <2> HIDE DEF row
    <2>6. ss \in Table /\ AssignedStays(rs, ss)
      BY <2>3 DEF Table, AssignedStays
    <2> HIDE DEF ss
    <2>7. /\ AssignedStays(ss, RefreshPrimary(ss, rs[e].primary))
          /\ AssignedStays(ss, BlockFamily(ss, rs[e].primary))
      BY <2>4, <2>6, AssignedRefreshPrimary, AssignedBlockFamily
    <2> QED
      BY <2>5, <2>6, <2>7 DEF AssignedStays
  <1> QED
    BY <1>1, <1>2

LEMMA SameTables ==
    ASSUME UNCHANGED <<accounts, rows>>
    PROVE  NoneHandedOut
  BY DEF NoneHandedOut, Held

LEMMA SameAssigned ==
    ASSUME accounts' = accounts, AssignedStays(rows, rows')
    PROVE  NoneHandedOut
  BY DEF NoneHandedOut, Held, AssignedStays

LEMMA NoneByCreate ==
    ASSUME PoolInv, NEW a \in Accounts, reg[a].pc = "create", CreateAccount(a, reg[a].email)
    PROVE  NoneHandedOut
  <1> DEFINE e == reg[a].email
  <1>1. e \in Emails /\ rows \in Table /\ accounts \in [Accounts -> Account \cup {NoAccount}]
    BY DEF PoolInv, JobsOK, JobOK, PoolTypeOK, TypeOK, Table
  <1>2. \A x \in Emails : rows'[x].assigned = rows[x].assigned \/ (x = e /\ rows'[x].assigned = a)
    <2>1. rows' = AssignRow(rows, e, a)
      BY DEF CreateAccount
    <2>2. CASE ~RowExists(rows, e)
      <3> DEFINE row == [primary |-> Canonical[e], isPrimary |-> (Canonical[e] = e),
                         status |-> "ASSIGNED", splittable |-> FALSE, assigned |-> a]
      <3>1. rows' = [rows EXCEPT ![e] = row]
        BY <2>1, <2>2 DEF AssignRow
      <3>2. row.assigned = a
        OBVIOUS
      <3> HIDE DEF row
      <3> QED
        BY <1>1, <3>1, <3>2 DEF Table
    <2>3. CASE RowExists(rows, e) /\ rows' = ClaimRow(rows, e, a)
      <3> DEFINE row == [rows[e] EXCEPT !.status = "ASSIGNED", !.assigned = a]
      <3>1. rows' = [rows EXCEPT ![e] = row]
        BY <1>1, <2>3 DEF ClaimRow, Table
      <3>2. row.assigned = a
        BY <1>1, <2>3, RowCases DEF Allocation
      <3> HIDE DEF row
      <3> QED
        BY <1>1, <3>1, <3>2 DEF Table
    <2>4. CASE rows' = rows
      BY <2>4
    <2> QED
      BY <2>1, <2>2, <2>3, <2>4 DEF AssignRow
  <1>3. \A b \in Accounts : accounts'[b].email = accounts[b].email
                            \/ (b = a /\ accounts'[b].email = e)
    BY <1>1 DEF CreateAccount
  <1> QED
    BY <1>1, <1>2, <1>3 DEF NoneHandedOut, Held

LEMMA NoneByDelete ==
    ASSUME PoolInv, NEW a \in Accounts, DeleteAccount(a)
    PROVE  NoneHandedOut
  <1>1. \A b \in Accounts : accounts'[b] = accounts[b] \/ accounts'[b].email = None
    BY DEF DeleteAccount, PoolInv, PoolTypeOK, TypeOK, NoAccount
  <1> QED
    BY <1>1, NoneAssumption DEF NoneHandedOut, Held, DeleteAccount

LEMMA NoneByUpdate ==
    ASSUME PoolInv, NEW a \in Accounts, NEW st, NEW tokens, UpdateAccount(a, st, tokens)
    PROVE  NoneHandedOut
  <1>1. TypeOK
    BY DEF PoolInv, PoolTypeOK
  <1>2. accounts[a] \in Account
    BY <1>1, AccountCases DEF UpdateAccount
  <1>3. accounts'[a].email = accounts[a].email
        /\ \A b \in Accounts \ {a} : accounts'[b] = accounts[b]
    BY <1>1, <1>2 DEF UpdateAccount, TypeOK, Account
  <1> QED
    BY <1>3, Zenon DEF NoneHandedOut, Held, UpdateAccount

LEMMA NoneByMark ==
    ASSUME PoolInv, NEW e \in Emails, NEW st \in MarkStatus, MarkGPTEmailAllocationStatus(e, st)
    PROVE  NoneHandedOut
  BY AssignedMarkRow, SameAssigned
     DEF MarkGPTEmailAllocationStatus, PoolInv, PoolTypeOK, TypeOK, Table

LEMMA NoneByUpsert ==
    ASSUME PoolInv, NEW e \in Emails, NEW st \in AllocationStatus,
           UpsertGPTEmailAllocation(e, e, st)
    PROVE  NoneHandedOut
  <1>1. (e = e /\ st = "REGISTERED") \in BOOLEAN
    OBVIOUS
  <1>2. rows \in Table
    BY DEF PoolInv, PoolTypeOK, TypeOK, Table
  <1>3. AssignedStays(rows, UpsertRow(rows, e, e, st, e = e /\ st = "REGISTERED"))
    BY <1>1, <1>2, AssignedUpsertRow
  <1> QED
    BY <1>3, SameAssigned DEF UpsertGPTEmailAllocation

LEMMA NoneByBackfill ==
    ASSUME PoolInv, BackfillStep
    PROVE  NoneHandedOut
  <1>0. TypeOK /\ accounts' = accounts /\ rows \in Table
    BY DEF BackfillStep, PoolInv, PoolTypeOK, TypeOK, Table
  <1>1. CASE phase = 0
    <2>1. rows' = BackfillFromAccounts(rows, accounts)
      BY <1>1 DEF BackfillStep, BackfillStatement
    <2>2. ASSUME NEW e \in Emails
          PROVE  rows'[e].assigned = rows[e].assigned
                 \/ accounts[rows'[e].assigned].email = e
      <3>1. CASE \E a \in Accounts : accounts[a].email = e
        <4> DEFINE owner == CHOOSE a \in Accounts : accounts[a].email = e
                   incoming == StatusOfAccount(accounts[owner])
        <4>1. accounts[owner].email = e
          BY <3>1
        <4>2. rows'[e] = BackfillRow(rows[e], e, owner, incoming)
          BY <2>1, <3>1 DEF BackfillFromAccounts
        <4> HIDE DEF owner, incoming
        <4>3. rows'[e].assigned = owner
          BY <4>2 DEF BackfillRow
        <4> QED
          BY <4>1, <4>3
      <3>2. CASE ~ \E a \in Accounts : accounts[a].email = e
        BY <2>1, <3>2 DEF BackfillFromAccounts
      <3> QED
        BY <3>1, <3>2
    <2> QED
      BY <1>0, <2>2 DEF NoneHandedOut, Held
  <1>2. CASE phase # 0
    BY <1>0, <1>2, StatementRule, AssignedStatusRule, SameAssigned
  <1> QED
    BY <1>1, <1>2

LEMMA Steps ==
    /\ JobStep = {"idle", "browser", "get", "list", "claim", "split", "create",
                  "persist", "mark", "exists", "markExists"}
    /\ 1 \in 0..MaxAttempts
  BY PoolAssumption DEF JobStep, EnsureStep, PersistStep, ExistsStep

LEMMA StartMoves ==
    ASSUME PoolInv, NEW a \in Accounts, NEW spec \in Emails \cup {None}, StartJob(a, spec)
    PROVE  \E new \in Job : Moves(a, reg[a], new) /\ reg' = [reg EXCEPT ![a] = new]
  <1> DEFINE old == reg[a]
             n == old.jobs + 1
             new == [NoJob EXCEPT !.pc = "get", !.spec = spec, !.attempts = 1, !.jobs = n]
  <1>1. old.jobs \in 0..MaxJobs /\ old.jobs < MaxJobs /\ old.pc = "idle"
    BY DEF PoolInv, PoolTypeOK, Job, StartJob, At
  <1>2. n \in 0..MaxJobs
    BY <1>1, PoolAssumption
  <1>3. reg' = [reg EXCEPT ![a] = new]
    BY DEF StartJob
  <1> HIDE DEF n, new
  <1>4. new \in Job /\ new.pc = "get" /\ new.attempts = 1 /\ new.jobs = n
    <2>1. new = [NoJob EXCEPT !.pc = "get", !.spec = spec, !.attempts = 1, !.jobs = n]
      BY Zenon DEF new
    <2>2. NoJob \in Job
      BY Steps, PoolAssumption DEF NoJob, Job
    <2> QED
      BY <1>2, <2>1, <2>2, Steps DEF Job
  <1>5. Started(old, new)
    BY <1>1, <1>4 DEF Started, n
  <1>6. NoneHandedOut
    BY SameTables, Zenon DEF StartJob, accountDbVars
  <1> QED
    BY <1>3, <1>4, <1>5, <1>6 DEF Moves, OwnMoves

LEMMA ClaimHandsOut ==
    ASSUME PoolInv, NEW e \in Emails, NEW a \in Accounts, NEW requirePrimary,
           ClaimGPTEmailAllocation(e, a, requirePrimary)
    PROVE  HandsOut(e, a)
  <1>1. rows \in Table /\ rows[e].status = "AVAILABLE" /\ rows' = ClaimRow(rows, e, a)
        /\ accounts' = accounts
    BY DEF PoolInv, PoolTypeOK, TypeOK, Table, ClaimGPTEmailAllocation, Claimable
  <1>2. rows[e] \in Allocation /\ rows[e].status \notin Taken
    BY <1>1, RowCases DEF Taken, Dead
  <1> DEFINE row == [rows[e] EXCEPT !.status = "ASSIGNED", !.assigned = a]
  <1>3. rows' = [rows EXCEPT ![e] = row]
    BY <1>1 DEF ClaimRow, Table
  <1>4. row.status \in Taken /\ row.assigned = a
    BY <1>2, TakenStatuses DEF Allocation
  <1> HIDE DEF row
  <1> QED
    BY <1>1, <1>2, <1>3, <1>4 DEF HandsOut, Table

LEMMA AliasHandsOut ==
    ASSUME PoolInv, NEW p \in Emails, NEW alias \in Emails, NEW a \in Accounts,
           CreateGPTEmailAliasAllocation(p, alias, a)
    PROVE  HandsOut(alias, a)
  <1>1. rows \in Table /\ ~RowExists(rows, alias) /\ rows' = AliasRow(rows, p, alias, a)
        /\ accounts' = accounts
    BY DEF PoolInv, PoolTypeOK, TypeOK, Table, CreateGPTEmailAliasAllocation
  <1>2. rows[alias].status \notin Taken
    BY <1>1, TakenStatuses DEF RowExists
  <1> DEFINE row == [primary |-> p, isPrimary |-> FALSE, status |-> "ASSIGNED",
                     splittable |-> FALSE, assigned |-> a]
  <1>3. rows' = [rows EXCEPT ![alias] = row]
    BY <1>1 DEF AliasRow
  <1>4. row.status \in Taken /\ row.assigned = a
    BY TakenStatuses
  <1> HIDE DEF row
  <1> QED
    BY <1>1, <1>2, <1>3, <1>4 DEF HandsOut, Table

LEMMA EnsureMoves ==
    ASSUME PoolInv, NEW a \in Accounts, EnsureAccount(a)
    PROVE  \E new \in Job : Moves(a, reg[a], new) /\ reg' = [reg EXCEPT ![a] = new]
  <1> DEFINE old == reg[a]
  <1>0. old \in Job /\ JobOK(old) /\ reg \in [Accounts -> Job]
        /\ old.todo \in SUBSET Emails /\ old.attempts \in 0..MaxAttempts
        /\ old.spec \in Emails \cup {None} /\ old.email \in Emails \cup {None}
    BY DEF PoolInv, PoolTypeOK, JobsOK, Job
  <1>t. \/ GetAccountFound(a) \/ GetAccountError(a) \/ ListAvailable(a)
        \/ ListSplittable(a) \/ CreateAccountExists(a)
        => NoneHandedOut
    BY SameTables, Zenon DEF GetAccountFound, GetAccountError, ListAvailable, ListSplittable,
                             CreateAccountExists, accountDbVars
  <1>1. CASE GetAccountFound(a) \/ CreateAccountExists(a)
    <2>1. old.pc \in EnsureStep /\ [old EXCEPT !.pc = "browser", !.attempts = 1] \in Job
      BY <1>0, <1>1, Steps DEF GetAccountFound, CreateAccountExists, At, EnsureStep, Job
    <2>2. reg' = [reg EXCEPT ![a] = [old EXCEPT !.pc = "browser", !.attempts = 1]]
      BY <1>0, <1>1 DEF GetAccountFound, CreateAccountExists, Job
    <2>3. LeavesEnsure(old, [old EXCEPT !.pc = "browser", !.attempts = 1])
      BY <2>1 DEF LeavesEnsure
    <2> QED
      BY <1>1, <1>t, <2>1, <2>2, <2>3 DEF Moves, OwnMoves
  <1>2. CASE GetAccountError(a)
    <2> DEFINE pc == IF old.spec = None THEN "list" ELSE "create"
    <2>1. old.pc = "get" /\ [old EXCEPT !.pc = pc, !.email = old.spec] \in Job
      BY <1>0, <1>2, Steps DEF GetAccountError, At, Job
    <2>2. reg' = [reg EXCEPT ![a] = [old EXCEPT !.pc = pc, !.email = old.spec]]
      BY <1>0, <1>2 DEF GetAccountError, Job
    <2>3. \/ TakesRequested(old, [old EXCEPT !.pc = pc, !.email = old.spec])
          \/ Listing(old, [old EXCEPT !.pc = pc, !.email = old.spec])
      BY <1>0, <2>1 DEF TakesRequested, Listing, Goes, EnsureStep
    <2> QED
      BY <1>2, <1>t, <2>1, <2>2, <2>3 DEF Moves, OwnMoves
  <1>3. CASE ListAvailable(a) \/ ListSplittable(a)
    <2>1. PICK pc \in {"claim", "split"}, todo \in SUBSET Emails :
            reg' = [reg EXCEPT ![a].pc = pc, ![a].todo = todo]
      BY <1>3 DEF ListAvailable, ListSplittable
    <2>2. old.pc \in {"list", "claim"}
      BY <1>3 DEF ListAvailable, ListSplittable, At
    <2>3. reg' = [reg EXCEPT ![a] = [old EXCEPT !.pc = pc, !.todo = todo]]
      BY <1>0, <2>1 DEF Job
    <2>4. [old EXCEPT !.pc = pc, !.todo = todo] \in Job
      BY <1>0, Steps DEF Job
    <2>5. Listing(old, [old EXCEPT !.pc = pc, !.todo = todo])
      BY <2>2 DEF Listing, Goes, EnsureStep
    <2> QED
      BY <1>3, <1>t, <2>3, <2>4, <2>5 DEF Moves, OwnMoves
  <1>4. ASSUME NEW e \in Emails, Claim(a, e) \/ Split(a, e)
        PROVE  \E new \in Job : Moves(a, reg[a], new) /\ reg' = [reg EXCEPT ![a] = new]
    <2> DEFINE Gives(x) ==
                 reg' = [reg EXCEPT ![a].pc = "create", ![a].email = x, ![a].todo = {}]
               Strikes == reg' = [reg EXCEPT ![a].todo = old.todo \ {e}]
    <2> HIDE DEF Gives, Strikes
    <2>1. old.pc = "claim" \/ old.pc = "split"
      BY <1>4, Zenon DEF Claim, Split, At
    <2>2. (\E x \in Emails : Gives(x) /\ HandsOut(x, a)) \/ (Strikes /\ NoneHandedOut)
      <3>1. CASE Claim(a, e)
        BY <3>1, ClaimHandsOut, SameTables, Zenon DEF Claim, Gives, Strikes
      <3>2. CASE Split(a, e)
        BY <3>2, AliasHandsOut, SameTables, Zenon DEF Split, Gives, Strikes
      <3> QED
        BY <1>4, <3>1, <3>2
    <2>3. ASSUME NEW x \in Emails, Gives(x), HandsOut(x, a)
          PROVE  \E new \in Job : Moves(a, reg[a], new) /\ reg' = [reg EXCEPT ![a] = new]
      <3>1. reg' = [reg EXCEPT ![a] = [old EXCEPT !.pc = "create", !.email = x, !.todo = {}]]
        BY <1>0, <2>3 DEF Job, Gives
      <3>2. [old EXCEPT !.pc = "create", !.email = x, !.todo = {}] \in Job
        BY <1>0, Steps DEF Job
      <3>3. GivenAddress(a, old, [old EXCEPT !.pc = "create", !.email = x, !.todo = {}], x)
        BY <2>1, <2>3 DEF GivenAddress, Goes
      <3> QED
        BY <3>1, <3>2, <3>3 DEF Moves
    <2>4. ASSUME Strikes, NoneHandedOut
          PROVE  \E new \in Job : Moves(a, reg[a], new) /\ reg' = [reg EXCEPT ![a] = new]
      <3>1. reg' = [reg EXCEPT ![a] = [old EXCEPT !.todo = old.todo \ {e}]]
        BY <1>0, <2>4 DEF Job, Strikes
      <3>2. [old EXCEPT !.todo = old.todo \ {e}] \in Job
        BY <1>0, <2>1, Steps DEF Job
      <3>3. Listing(old, [old EXCEPT !.todo = old.todo \ {e}])
        BY <2>1 DEF Listing, Goes, EnsureStep
      <3> QED
        BY <2>4, <3>1, <3>2, <3>3 DEF Moves, OwnMoves
    <2> QED
      BY <2>2, <2>3, <2>4
  <1>5. CASE CreateAccountStep(a)
    <2>1. old.pc = "create"
      BY <1>5 DEF CreateAccountStep, At
    <2>n. NoneHandedOut
      BY <1>5, <2>1, NoneByCreate DEF CreateAccountStep
    <2>2. CASE reg' = [reg EXCEPT ![a].pc = "browser", ![a].attempts = 1]
      <3>1. reg' = [reg EXCEPT ![a] = [old EXCEPT !.pc = "browser", !.attempts = 1]]
        BY <1>0, <2>2 DEF Job
      <3>2. [old EXCEPT !.pc = "browser", !.attempts = 1] \in Job
        BY <1>0, Steps DEF Job
      <3>3. LeavesEnsure(old, [old EXCEPT !.pc = "browser", !.attempts = 1])
        BY <2>1 DEF LeavesEnsure, EnsureStep
      <3> QED
        BY <2>n, <3>1, <3>2, <3>3 DEF Moves, OwnMoves
    <2>3. CASE reg' = [reg EXCEPT ![a] = Ended(reg[a])]
      BY <1>0, <2>n, <2>3, EndedJob DEF Moves, OwnMoves
    <2> QED
      BY <1>5, <2>2, <2>3 DEF CreateAccountStep
  <1> QED
    BY <1>1, <1>2, <1>3, <1>4, <1>5 DEF EnsureAccount

LEMMA JobMoves ==
    ASSUME PoolInv, NEW a \in Accounts, JobAction(a)
    PROVE  \E new \in Job : Moves(a, reg[a], new) /\ reg' = [reg EXCEPT ![a] = new]
  <1> DEFINE old == reg[a]
  <1>0. old \in Job /\ JobOK(old) /\ reg \in [Accounts -> Job]
        /\ old.todo \in SUBSET Emails /\ old.attempts \in 0..MaxAttempts
        /\ old.spec \in Emails \cup {None} /\ old.email \in Emails \cup {None}
    BY DEF PoolInv, PoolTypeOK, JobsOK, Job
  <1>1. CASE AttemptEnds(a)
    BY <1>0, <1>1, EndedJob, SameTables DEF AttemptEnds, accountDbVars, Moves, OwnMoves
  <1>2. CASE PersistMark(a) \/ ExistsMark(a)
    <2>1. old.pc \in {"mark", "markExists"} /\ reg' \in {[reg EXCEPT ![a] = JobOver(old)],
                                                         [reg EXCEPT ![a] = Ended(old)]}
      BY <1>2 DEF PersistMark, ExistsMark, Mark, At
    <2>n. NoneHandedOut
      <3>1. old.email \in Emails
        BY <1>0, <2>1 DEF JobOK
      <3>2. \E st \in MarkStatus : MarkGPTEmailAllocationStatus(old.email, st)
        BY <1>2, Zenon DEF PersistMark, ExistsMark, Mark, MarkStatus
      <3> QED
        BY <3>1, <3>2, NoneByMark
    <2>2. JobOver(old) \in Job
      <3>1. JobOver(old) = [pc |-> "idle", spec |-> None, email |-> None, todo |-> {},
                            attempts |-> 0, jobs |-> old.jobs]
        BY DEF JobOver, NoJob
      <3> QED
        BY <1>0, <3>1, Steps, PoolAssumption DEF Job
    <2>3. Over(old, JobOver(old))
      BY <2>1 DEF Over, PersistStep, ExistsStep
    <2> QED
      BY <1>0, <2>n, <2>1, <2>2, <2>3, EndedJob DEF Moves, OwnMoves
  <1>3. ASSUME NEW pc \in {"persist", "exists", "mark", "markExists"}, NEW email \in Emails \cup {None},
               reg' = [reg EXCEPT ![a].pc = pc, ![a].email = email],
               old.pc \in {"browser", "persist"} \/ (old.pc = "exists" /\ pc = "markExists"),
               pc \in {"mark", "markExists"} => email \in Emails,
               NoneHandedOut
        PROVE  \E new \in Job : Moves(a, reg[a], new) /\ reg' = [reg EXCEPT ![a] = new]
    <2>1. reg' = [reg EXCEPT ![a] = [old EXCEPT !.pc = pc, !.email = email]]
      BY <1>0, <1>3 DEF Job
    <2>2. [old EXCEPT !.pc = pc, !.email = email] \in Job
      BY <1>0, Steps DEF Job
    <2>3. Reports(old, [old EXCEPT !.pc = pc, !.email = email])
      BY <1>3 DEF Reports, Goes, PersistStep, ExistsStep
    <2> QED
      BY <1>3, <2>1, <2>2, <2>3 DEF Moves, OwnMoves
  <1>4. ASSUME NEW outcome \in {"persist", "exists"}, BrowserReports(a, outcome)
        PROVE  \E new \in Job : Moves(a, reg[a], new) /\ reg' = [reg EXCEPT ![a] = new]
    BY <1>3, <1>4, NoneAssumption, SameTables DEF BrowserReports, At, accountDbVars
  <1>5. CASE PersistAccount(a) \/ ExistsAccount(a)
    <2>1. accounts[a].email \in Emails
      BY <1>5, AccountCases DEF PersistAccount, ExistsAccount, UpdateAccount, PoolInv, PoolTypeOK, Account
    <2>2. NoneHandedOut
      BY <1>5, NoneByUpdate, SameTables, Zenon DEF PersistAccount, ExistsAccount
    <2> QED
      BY <1>3, <1>5, <2>1, <2>2 DEF PersistAccount, ExistsAccount, At
  <1> QED
    BY <1>1, <1>2, <1>4, <1>5, EnsureMoves DEF JobAction, Persist

-----------------------------------------------------------------------------
(* The composition implements AccountDb.                                   *)

LEMMA ServedRequest ==
    ASSUME Serves, AccountRequest \/ AllocationRequest
    PROVE  Next
  BY DEF Serves, Request, Next

LEMMA EnsureIsStep ==
    ASSUME PoolInv, NEW a \in Accounts, EnsureAccount(a)
    PROVE  [Next]_vars
  <1>0. reg[a].pc = "create" => reg[a].email \in Emails
    BY DEF PoolInv, JobsOK, JobOK
  <1>1. CASE GetAccountFound(a) \/ GetAccountError(a) \/ ListAvailable(a)
             \/ ListSplittable(a) \/ CreateAccountExists(a)
    BY <1>1, Zenon DEF GetAccountFound, GetAccountError, ListAvailable, ListSplittable,
                       CreateAccountExists, Serves, vars, accountDbVars
  <1>2. ASSUME NEW e \in Emails, Claim(a, e) PROVE [Next]_vars
    <2>1. CASE UNCHANGED <<accounts, rows>>
      BY <1>2, <2>1, Zenon DEF Claim, Serves, vars
    <2>2. CASE ClaimGPTEmailAllocation(e, a, ~rows[e].isPrimary)
      <3>1. \/ ClaimGPTEmailAllocation(e, a, TRUE)
            \/ ClaimGPTEmailAllocation(e, a, FALSE)
        BY <2>2, Zenon DEF ClaimGPTEmailAllocation, Claimable
      <3>2. AllocationRequest
        BY <3>1, Zenon DEF AllocationRequest
      <3> QED
        BY <1>2, <3>2, ServedRequest, Zenon DEF Claim
    <2> QED
      BY <1>2, <2>1, <2>2, Zenon DEF Claim
  <1>3. ASSUME NEW p \in Emails, Split(a, p) PROVE [Next]_vars
    <2>1. CASE UNCHANGED <<accounts, rows>>
      BY <1>3, <2>1, Zenon DEF Split, Serves, vars
    <2>2. CASE \E alias \in Emails : CreateGPTEmailAliasAllocation(p, alias, a)
      <3>1. AllocationRequest
        BY <2>2, Zenon DEF AllocationRequest
      <3> QED
        BY <1>3, <3>1, ServedRequest, Zenon DEF Split
    <2> QED
      BY <1>3, <2>1, <2>2, Zenon DEF Split
  <1>4. CASE CreateAccountStep(a)
    <2>1. AccountRequest
      BY <1>0, <1>4, Zenon DEF CreateAccountStep, At, AccountRequest
    <2> QED
      BY <1>4, <2>1, ServedRequest, Zenon DEF CreateAccountStep
  <1> QED
    BY <1>1, <1>2, <1>3, <1>4, Zenon DEF EnsureAccount

LEMMA UpdateIsStep ==
    ASSUME Serves, NEW a \in Accounts,
           NEW st \in {"REGISTERED", "USER_ALREADY_EXISTS", "DEACTIVATED"},
           NEW tokens \in BOOLEAN, UpdateAccount(a, st, tokens)
    PROVE  Next
  <1>1. st \in UpdateStatus \cup {None}
    BY CallersAssumption
  <1>2. AccountRequest
    BY <1>1, Zenon DEF AccountRequest
  <1> QED
    BY <1>2, ServedRequest

LEMMA JobIsStep ==
    ASSUME PoolInv, NEW a \in Accounts, JobAction(a)
    PROVE  [Next]_vars
  <1>0. reg[a].pc \in {"mark", "markExists"} => reg[a].email \in Emails
    BY DEF PoolInv, JobsOK, JobOK
  <1>1. ASSUME NEW outcome, BrowserReports(a, outcome) PROVE [Next]_vars
    BY <1>1, Zenon DEF BrowserReports, vars, accountDbVars
  <1>2. CASE AttemptEnds(a)
    BY <1>2, Zenon DEF AttemptEnds, vars, accountDbVars
  <1>3. CASE PersistAccount(a)
    <2>1. Serves /\ UpdateAccount(a, "REGISTERED", TRUE)
      BY <1>3, Zenon DEF PersistAccount
    <2> QED
      BY <2>1, UpdateIsStep
  <1>4. CASE ExistsAccount(a)
    <2>1. Serves /\ (UpdateAccount(a, "USER_ALREADY_EXISTS", FALSE) \/ UNCHANGED <<accounts, rows>>)
      BY <1>4, Zenon DEF ExistsAccount
    <2> QED
      BY <2>1, UpdateIsStep DEF Serves, vars
  <1>5. ASSUME NEW step \in {"mark", "markExists"}, NEW st \in MarkStatus, Mark(a, step, st)
        PROVE  [Next]_vars
    <2>1. AllocationRequest
      BY <1>0, <1>5, Zenon DEF Mark, At, AllocationRequest
    <2> QED
      BY <1>5, <2>1, ServedRequest, Zenon DEF Mark
  <1>6. CASE PersistMark(a) \/ ExistsMark(a)
    BY <1>5, <1>6 DEF PersistMark, ExistsMark, MarkStatus
  <1> QED
    BY <1>1, <1>2, <1>3, <1>4, <1>6, EnsureIsStep DEF JobAction, Persist

LEMMA MailboxIsStep ==
    ASSUME PoolInv, NEW m \in Mailboxes, MailboxAction(m)
    PROVE  [Next]_vars
  <1>1. CASE \E st \in Outcomes : ImportMailbox(m, st) \/ OAuthResult(m, st)
    BY <1>1, Zenon DEF ImportMailbox, OAuthResult, vars, accountDbVars
  <1>2. CASE DropPending(m) \/ WatcherMarksAuthFailed(m) \/ DeleteMailbox(m)
    BY <1>2, Zenon DEF DropPending, WatcherMarksAuthFailed, DeleteMailbox, vars, accountDbVars
  <1>3. ASSUME NEW st \in Reported, Serves, UpsertGPTEmailAllocation(m, m, st)
        PROVE  Next
    <2>1. AllocationRequest
      BY <1>3, ReportedStatuses, MailboxesAreEmails DEF AllocationRequest
    <2> QED
      BY <1>3, <2>1, ServedRequest
  <1>4. CASE UpsertPending(m)
    BY <1>3, <1>4 DEF UpsertPending, PoolInv, PoolTypeOK
  <1>5. CASE SyncOne(m)
    BY <1>3, <1>5 DEF SyncOne, PoolInv, PoolTypeOK
  <1> QED
    BY <1>1, <1>2, <1>4, <1>5 DEF MailboxAction

LEMMA PoolStepIsStep ==
    ASSUME PoolInv, [PoolNext]_poolVars
    PROVE  [Next]_vars
  <1>1. ASSUME NEW a \in Accounts, NEW spec, StartJob(a, spec) PROVE [Next]_vars
    BY <1>1, Zenon DEF StartJob, vars, accountDbVars
  <1>2. ASSUME NEW a \in Accounts, DirectAction(a) PROVE [Next]_vars
    <2>1. CASE DeleteAccount(a)
      BY <1>2, <2>1, ServedRequest DEF DirectAction, AccountRequest
    <2> QED
      BY <1>2, <2>1, UpdateIsStep DEF DirectAction
  <1>3. CASE OrchestratorStops \/ OrchestratorStarts \/ SyncDone
    BY <1>3, Zenon DEF OrchestratorStops, OrchestratorStarts, SyncDone, vars, accountDbVars
  <1>4. CASE AccountDbAction
    BY <1>4, Zenon DEF AccountDbAction, Next
  <1>5. CASE UNCHANGED poolVars
    BY <1>5 DEF poolVars, vars
  <1> QED
    BY <1>1, <1>2, <1>3, <1>4, <1>5, JobIsStep, MailboxIsStep, Zenon DEF PoolNext

\* What a step does to the jobs: one of them moves, all of them end, or none changes.
Moved(a) == \E new \in Job : Moves(a, reg[a], new) /\ reg' = [reg EXCEPT ![a] = new]

LEMMA PoolStepJobs ==
    ASSUME PoolInv, [PoolNext]_poolVars
    PROVE  \/ \E a \in Accounts : Moved(a)
           \/ reg' = reg /\ NoneHandedOut
           \/ reg' = [a \in Accounts |-> Ended(reg[a])] /\ NoneHandedOut
  <1>1. ASSUME NEW a \in Accounts, NEW spec \in Emails \cup {None}, StartJob(a, spec)
        PROVE  Moved(a)
    BY <1>1, StartMoves DEF Moved
  <1>2. ASSUME NEW a \in Accounts, JobAction(a) PROVE Moved(a)
    BY <1>2, JobMoves DEF Moved
  <1>3. ASSUME NEW a \in Accounts, DirectAction(a) PROVE reg' = reg /\ NoneHandedOut
    BY <1>3, NoneByDelete, NoneByUpdate, Zenon DEF DirectAction
  <1>4. ASSUME NEW m \in Mailboxes, MailboxAction(m) PROVE reg' = reg /\ NoneHandedOut
    <2>1. CASE \/ \E st \in Outcomes : ImportMailbox(m, st) \/ OAuthResult(m, st)
               \/ DropPending(m) \/ WatcherMarksAuthFailed(m) \/ DeleteMailbox(m)
      BY <2>1, SameTables, Zenon DEF ImportMailbox, OAuthResult, DropPending,
                                     WatcherMarksAuthFailed, DeleteMailbox, accountDbVars
    <2>2. ASSUME NEW st \in Reported, UpsertGPTEmailAllocation(m, m, st) PROVE NoneHandedOut
      BY <2>2, NoneByUpsert, MailboxesAreEmails, ReportedStatuses
    <2>3. CASE UpsertPending(m)
      BY <2>2, <2>3 DEF UpsertPending, PoolInv, PoolTypeOK
    <2>4. CASE SyncOne(m)
      BY <2>2, <2>4 DEF SyncOne, PoolInv, PoolTypeOK
    <2> QED
      BY <1>4, <2>1, <2>3, <2>4 DEF MailboxAction
  <1>5. CASE OrchestratorStops
    BY <1>5, SameTables, Zenon DEF OrchestratorStops, accountDbVars
  <1>6. CASE OrchestratorStarts \/ SyncDone \/ UNCHANGED poolVars
    BY <1>6, SameTables, Zenon DEF OrchestratorStarts, SyncDone, accountDbVars, poolVars
  <1>7. CASE AccountDbAction
    BY <1>7, NoneByBackfill, SameTables, Zenon DEF AccountDbAction, Serve, Restart
  <1> QED
    BY <1>1, <1>2, <1>3, <1>4, <1>5, <1>6, <1>7, Zenon DEF PoolNext

LEMMA JobsStayOK ==
    ASSUME PoolInv, [PoolNext]_poolVars
    PROVE  reg' \in [Accounts -> Job] /\ JobsOK'
  <1>0. reg \in [Accounts -> Job] /\ \A a \in Accounts : JobOK(reg[a])
    BY DEF PoolInv, PoolTypeOK, JobsOK
  <1>1. ASSUME NEW a \in Accounts, Moved(a)
        PROVE  reg' \in [Accounts -> Job] /\ JobsOK'
    <2>1. PICK new \in Job : Moves(a, reg[a], new) /\ reg' = [reg EXCEPT ![a] = new]
      BY <1>1 DEF Moved
    <2>2. JobOK(new)
      BY <1>0, <2>1, MovesKeepJobs
    <2> QED
      BY <1>0, <2>1, <2>2 DEF JobsOK
  <1>2. CASE reg' = reg
    BY <1>0, <1>2 DEF JobsOK
  <1>3. CASE reg' = [a \in Accounts |-> Ended(reg[a])]
    BY <1>0, <1>3, EndedJob DEF JobsOK
  <1> QED
    BY <1>1, <1>2, <1>3, PoolStepJobs

MailboxTypeOK ==
    /\ auth \in [Mailboxes -> AuthStatus \cup {"NONE"}]
    /\ pending \in [Mailboxes -> Reported \cup {"NONE"}]
    /\ toSync \in [Mailboxes -> Reported \cup {"NONE"}]
    /\ up \in {"down", "syncing", "up"}

LEMMA MailboxesStayOK ==
    ASSUME PoolInv, [PoolNext]_poolVars
    PROVE  MailboxTypeOK'
  <1>0. MailboxTypeOK
    BY DEF PoolInv, PoolTypeOK, MailboxTypeOK
  <1> USE DEF MailboxTypeOK
  <1>1. ASSUME mailboxVars' = mailboxVars PROVE MailboxTypeOK'
    BY <1>0, <1>1 DEF mailboxVars
  <1>2. ASSUME NEW a \in Accounts,
               \/ \E spec : StartJob(a, spec)
               \/ JobAction(a)
               \/ DirectAction(a)
        PROVE  mailboxVars' = mailboxVars
    BY <1>2, Zenon DEF StartJob, JobAction, DirectAction, EnsureAccount, GetAccountFound,
         GetAccountError, ListAvailable, Claim, Split, ListSplittable, CreateAccountStep,
         CreateAccountExists, BrowserReports, Persist, PersistAccount, PersistMark, ExistsAccount,
         ExistsMark, Mark, AttemptEnds, Serves
  <1>3. ASSUME NEW m \in Mailboxes, MailboxAction(m) PROVE MailboxTypeOK'
    <2>1. ASSUME NEW st \in Outcomes, ImportMailbox(m, st) \/ OAuthResult(m, st)
          PROVE  MailboxTypeOK'
      BY <1>0, <2>1, ReportedStatuses, OutcomesAssumption DEF ImportMailbox, OAuthResult
    <2>2. CASE UpsertPending(m) \/ DropPending(m)
      BY <1>0, <2>2 DEF UpsertPending, DropPending
    <2>3. CASE WatcherMarksAuthFailed(m) \/ DeleteMailbox(m)
      BY <1>0, <2>3 DEF WatcherMarksAuthFailed, DeleteMailbox, AuthStatus
    <2>4. CASE SyncOne(m)
      BY <1>0, <2>4 DEF SyncOne
    <2> QED
      BY <1>3, <2>1, <2>2, <2>3, <2>4 DEF MailboxAction
  <1>4. CASE OrchestratorStops
    BY <1>0, <1>4 DEF OrchestratorStops
  <1>5. CASE OrchestratorStarts
    <2>1. \A st \in AuthStatus \cup {"NONE"} : AllocationOf(st) \in Reported \cup {"NONE"}
      BY DEF Reported, AllocationOf
    <2> QED
      BY <1>0, <1>5, <2>1 DEF OrchestratorStarts
  <1>6. CASE SyncDone
    BY <1>0, <1>6 DEF SyncDone
  <1>7. CASE AccountDbAction \/ UNCHANGED poolVars
    BY <1>1, <1>7, Zenon DEF AccountDbAction, poolVars, mailboxVars
  <1> QED
    BY <1>1, <1>2, <1>3, <1>4, <1>5, <1>6, <1>7, Zenon DEF PoolNext

LEMMA PoolInit0 == PoolInit => PoolInv
  <1> SUFFICES ASSUME PoolInit PROVE PoolInv
    OBVIOUS
  <1>1. NoJob \in Job /\ JobOK(NoJob)
    BY Steps, PoolAssumption DEF NoJob, Job, JobOK, EnsureStep, PersistStep
  <1>2. TypeOK
    BY DEF PoolInit, Init, TypeOK, Serving
  <1> HIDE DEF NoJob
  <1> QED
    BY <1>1, <1>2 DEF PoolInit, PoolInv, PoolTypeOK, JobsOK

LEMMA PoolStep ==
    ASSUME PoolInv, [PoolNext]_poolVars
    PROVE  PoolInv' /\ StepIsSafe
  <1>1. [Next]_vars
    BY PoolStepIsStep
  <1>2. TypeOK
    BY DEF PoolInv, PoolTypeOK
  <1>3. StepIsSafe
    BY <1>1, <1>2, NextIsSafe
  <1>4. TypeOK'
    BY <1>3 DEF StepIsSafe, Safe, Table, TypeOK
  <1> QED
    BY <1>3, <1>4, JobsStayOK, MailboxesStayOK DEF PoolInv, PoolTypeOK, MailboxTypeOK

\* The state of the composition has its type, for any mailboxes, accounts, outcomes and
\* numbers of attempts and jobs; a job that creates or marks holds an address.
THEOREM PoolTypeCorrect == PoolSpec => []PoolInv
  <1>1. PoolInv /\ [PoolNext]_poolVars => PoolInv'
    BY PoolStep
  <1> QED
    BY <1>1, PoolInit0, PTL DEF PoolSpec

\* The registrations, imports, OAuth jobs, syncs and the dashboard only do what AccountDb
\* lets any caller do: every theorem about Spec above holds of the composition.
THEOREM PoolImplementsAccountDb == PoolSpec => ImplementsAccountDb
  <1>1. PoolInit => Init
    BY DEF PoolInit
  <1>2. PoolInv /\ [PoolNext]_poolVars => [Next]_vars
    BY PoolStepIsStep
  <1> QED
    BY <1>1, <1>2, PoolTypeCorrect, PTL DEF PoolSpec, ImplementsAccountDb, Spec

-----------------------------------------------------------------------------
(* Grants.                                                                 *)

\* An address that is handed out was not taken before, so that no other attempt can be
\* working on it; and nothing else a job does makes it work on one handed out.
LEMMA GrantsStayExclusive ==
    ASSUME PoolInv, GrantsAreExclusive, [PoolNext]_poolVars
    PROVE  GrantsAreExclusive'
  <1>1. Keeps(rows, rows') /\ JobsOK'
    BY PoolStep DEF PoolInv, StepIsSafe, Safe
  <1>2. \A a \in Accounts : Granted(a) # None => Granted(a) \in Emails
    BY DEF Granted, PoolInv, JobsOK, JobOK
  <1>3. ASSUME \A a \in Accounts : Granted(a)' = Granted(a) \/ Granted(a)' = None
        PROVE  GrantsAreExclusive'
    BY <1>1, <1>2, <1>3 DEF GrantsAreExclusive, Keeps
  <1>4. ASSUME NEW a \in Accounts, NEW new \in Job, OwnMoves(reg[a], new),
               reg' = [reg EXCEPT ![a] = new]
        PROVE  GrantsAreExclusive'
    <2>1. new.pc = "create" => new.spec # None
      BY <1>4, EndedJob, NoneAssumption
         DEF OwnMoves, Started, LeavesEnsure, TakesRequested, Listing, Goes, Reports, Over,
             JobOver, NoJob, PoolInv, PoolTypeOK, JobsOK
    <2>2. reg'[a] = new /\ \A b \in Accounts \ {a} : reg'[b] = reg[b]
      BY <1>4 DEF PoolInv, PoolTypeOK
    <2> QED
      BY <1>3, <2>1, <2>2 DEF Granted
  <1>5. ASSUME NEW a \in Accounts, NEW new \in Job, NEW e \in Emails,
               GivenAddress(a, reg[a], new, e), reg' = [reg EXCEPT ![a] = new]
        PROVE  GrantsAreExclusive'
    <2>1. rows[e].status \notin Taken /\ rows'[e].status \in Taken /\ new.email = e
      BY <1>5 DEF GivenAddress, HandsOut
    <2>2. reg'[a] = new /\ \A b \in Accounts \ {a} : reg'[b] = reg[b]
      BY <1>5 DEF PoolInv, PoolTypeOK
    <2>3. Granted(a)' \in {e, None}
      BY <2>1, <2>2 DEF Granted
    <2>4. \A b \in Accounts \ {a} :
            /\ Granted(b)' = Granted(b)
            /\ Granted(b) # None => /\ Granted(b) # e
                                    /\ rows'[Granted(b)].status \in Taken
      BY <1>1, <1>2, <2>1, <2>2 DEF Granted, GrantsAreExclusive, Keeps
    <2>5. \A b, c \in Accounts :
            b # c /\ Granted(b)' # None => Granted(c)' # Granted(b)'
      BY <1>2, <2>3, <2>4, NoneAssumption DEF GrantsAreExclusive
    <2>6. \A b \in Accounts : Granted(b)' # None => rows'[Granted(b)'].status \in Taken
      BY <2>1, <2>3, <2>4
    <2> QED
      BY <2>5, <2>6 DEF GrantsAreExclusive
  <1>6. CASE reg' = reg
    BY <1>3, <1>6 DEF Granted
  <1>7. CASE reg' = [a \in Accounts |-> Ended(reg[a])]
    <2>1. \A a \in Accounts : reg'[a].pc # "create"
      BY <1>7, EndedJob DEF PoolInv, PoolTypeOK, JobsOK
    <2> QED
      BY <1>3, <2>1 DEF Granted
  <1> QED
    BY <1>4, <1>5, <1>6, <1>7, PoolStepJobs DEF Moved, Moves

\* No two registrations ever work on the same allocated address, and none is in the
\* pool, for any number of accounts, addresses and attempts: imports, OAuth results,
\* syncs, marks and restarts in between change nothing about it.
THEOREM GrantsSound == PoolSpec => []GrantsAreSound
  <1>1. PoolInit => GrantsAreExclusive
    BY DEF PoolInit, GrantsAreExclusive, Granted, NoJob
  <1>2. PoolInv /\ GrantsAreExclusive /\ [PoolNext]_poolVars => GrantsAreExclusive'
    BY GrantsStayExclusive
  <1>3. PoolInv /\ GrantsAreExclusive => GrantsAreSound
    BY DEF PoolInv, GrantsAreSound
  <1> QED
    BY <1>1, <1>2, <1>3, PoolTypeCorrect, PTL DEF PoolSpec

-----------------------------------------------------------------------------
(* Leaks.                                                                  *)

\* The attempts a job made whose address is settled: the attempt under way counts from
\* the moment it was given its address.
Spent(job) ==
    IF job.pc \in EnsureStep
    THEN MaxAttempts * (job.jobs - 1) + (IF job.pc = "create" THEN job.attempts
                                         ELSE job.attempts - 1)
    ELSE MaxAttempts * job.jobs

\* An account never has a claim on more addresses than that.
HoldsWhatItSpent(a) == IsFiniteSet(Held(a)) /\ Cardinality(Held(a)) <= Spent(reg[a])

LeakInv == \A a \in Accounts : HoldsWhatItSpent(a)

LEMMA MoreSpent ==
    ASSUME NEW H, NEW K, NEW n \in Int, NEW m \in Int,
           IsFiniteSet(H), Cardinality(H) <= n,
           \/ K \subseteq H /\ n <= m
           \/ \E e : K \subseteq H \cup {e} /\ n + 1 <= m
    PROVE  IsFiniteSet(K) /\ Cardinality(K) <= m
  <1>1. CASE K \subseteq H /\ n <= m
    BY <1>1, FS_Subset, FS_CardinalityType
  <1>2. ASSUME NEW e, K \subseteq H \cup {e}, n + 1 <= m
        PROVE  IsFiniteSet(K) /\ Cardinality(K) <= m
    <2>1. IsFiniteSet(H \cup {e}) /\ Cardinality(H) \in Nat
          /\ Cardinality(H \cup {e}) \in {Cardinality(H), Cardinality(H) + 1}
      BY FS_AddElement, FS_CardinalityType
    <2>2. IsFiniteSet(K) /\ Cardinality(K) \in Nat /\ Cardinality(K) <= Cardinality(H \cup {e})
      BY <1>2, <2>1, FS_Subset, FS_CardinalityType
    <2> QED
      BY <1>2, <2>1, <2>2
  <1> QED
    BY <1>1, <1>2

LEMMA Products ==
    ASSUME NEW j \in Nat \ {0}
    PROVE  /\ MaxAttempts * (j - 1) \in Nat /\ MaxAttempts * j \in Nat
           /\ MaxAttempts * j = MaxAttempts * (j - 1) + MaxAttempts
           /\ (j + 1) - 1 = j /\ MaxAttempts * ((j + 1) - 1) = MaxAttempts * j
  BY PoolAssumption

LEMMA SpentType ==
    ASSUME NEW job \in Job, JobOK(job)
    PROVE  /\ Spent(job) \in Int
           /\ job.pc = "idle" => Spent(job) = MaxAttempts * job.jobs
  <1>1. job.jobs \in Nat /\ job.attempts \in Int
    BY PoolAssumption DEF Job
  <1>2. job.jobs - 1 \in Int /\ MaxAttempts \in Int
    BY <1>1, PoolAssumption
  <1>3. MaxAttempts * (job.jobs - 1) \in Int /\ MaxAttempts * job.jobs \in Int
    BY <1>1, <1>2
  <1> QED
    BY <1>1, <1>3 DEF Spent, EnsureStep

LEMMA EndedSpent ==
    ASSUME NEW job \in Job, JobOK(job)
    PROVE  Spent(job) <= Spent(Ended(job))
  <1> DEFINE new == Ended(job)
  <1>1. /\ new \in Job /\ JobOK(new) /\ new.jobs = job.jobs /\ new.pc \in {"idle", "get", "persist"}
        /\ new.pc = "get" => job.pc \in EnsureStep /\ new.attempts = job.attempts + 1
        /\ new.pc = "idle" => job.pc \notin EnsureStep \/ job.attempts = MaxAttempts
        /\ new.pc = "persist" => job.pc \notin EnsureStep
    BY EndedJob DEF PersistStep, EnsureStep
  <1> HIDE DEF new
  <1>2. CASE job.pc \notin EnsureStep
    <2>1. Spent(job) = MaxAttempts * job.jobs /\ Spent(new) = MaxAttempts * job.jobs
      BY <1>1, <1>2 DEF Spent, EnsureStep
    <2> QED
      BY <2>1, SpentType DEF new
  <1>3. CASE job.pc \in EnsureStep
    <2>1. job.jobs \in Nat \ {0} /\ job.attempts \in 1..MaxAttempts
      BY <1>3, PoolAssumption DEF JobOK, EnsureStep
    <2> DEFINE base == MaxAttempts * (job.jobs - 1)
               all == MaxAttempts * job.jobs
    <2>2. base \in Nat /\ all = base + MaxAttempts
      BY <2>1, Products
    <2>3. Spent(job) = base + job.attempts \/ Spent(job) = base + (job.attempts - 1)
      BY <1>3 DEF Spent
    <2>4. new.pc = "get" => Spent(new) = base + (new.attempts - 1)
      BY <1>1 DEF Spent, EnsureStep
    <2>5. new.pc = "idle" => Spent(new) = all
      BY <1>1 DEF Spent, EnsureStep
    <2> HIDE DEF base, all
    <2> QED
      BY <1>1, <1>3, <2>1, <2>2, <2>3, <2>4, <2>5, PoolAssumption DEF new
  <1> QED
    BY <1>2, <1>3

\* A step of a job settles an attempt exactly when it gives it its address.
LEMMA GivenSpent ==
    ASSUME NEW old \in Job, JobOK(old), NEW new \in Job,
           old.pc \in EnsureStep \ {"create"}, Goes(old, new, {"create"})
    PROVE  Spent(old) + 1 <= Spent(new)
  <1> DEFINE base == MaxAttempts * (old.jobs - 1)
  <1>1. old.jobs \in Nat \ {0} /\ old.attempts \in 1..MaxAttempts
    BY PoolAssumption DEF JobOK, EnsureStep
  <1>2. base \in Int
    BY <1>1, Products
  <1>3. Spent(old) = base + (old.attempts - 1) /\ Spent(new) = base + old.attempts
    BY DEF Spent, Goes, EnsureStep
  <1> HIDE DEF base
  <1> QED
    BY <1>1, <1>2, <1>3, PoolAssumption

MoveSpends(old, new) ==
    \/ new.pc # "create" /\ Spent(old) <= Spent(new)
    \/ /\ new.pc = "create" /\ old.pc = "get" /\ new.email \in Emails
       /\ Spent(old) + 1 <= Spent(new)

LEMMA MovesSpent ==
    ASSUME NEW old \in Job, JobOK(old), NEW new \in Job, JobOK(new), OwnMoves(old, new)
    PROVE  MoveSpends(old, new)
  <1>0. Spent(old) \in Int /\ Spent(new) \in Int
    BY SpentType
  <1> USE DEF MoveSpends
  <1>2. CASE Started(old, new)
    <2>1. old.jobs \in Nat /\ new.jobs = old.jobs + 1 /\ (old.jobs + 1) - 1 = old.jobs
      BY <1>2, PoolAssumption DEF Started, Job
    <2>2. Spent(new) = MaxAttempts * old.jobs + (1 - 1) /\ Spent(old) = MaxAttempts * old.jobs
      BY <1>2, <2>1 DEF Started, Spent, EnsureStep
    <2>3. MaxAttempts * old.jobs \in Int
      BY <1>0, <2>2
    <2>4. Spent(old) <= Spent(new)
      BY <2>2, <2>3
    <2> QED
      BY <1>2, <2>4 DEF Started
  <1>3. CASE LeavesEnsure(old, new)
    <2> DEFINE base == MaxAttempts * (old.jobs - 1)
               all == MaxAttempts * old.jobs
    <2>1. old.jobs \in Nat \ {0} /\ old.attempts \in 1..MaxAttempts
      BY <1>3, PoolAssumption DEF JobOK, EnsureStep, LeavesEnsure
    <2>2. base \in Nat /\ all = base + MaxAttempts
      BY <2>1, Products
    <2>3. Spent(old) = base + old.attempts \/ Spent(old) = base + (old.attempts - 1)
      BY <1>3 DEF Spent, LeavesEnsure
    <2>4. Spent(new) = all
      BY <1>3 DEF Spent, LeavesEnsure, EnsureStep
    <2> HIDE DEF base, all
    <2>5. Spent(old) <= Spent(new)
      BY <2>1, <2>2, <2>3, <2>4, PoolAssumption
    <2> QED
      BY <1>3, <2>5 DEF LeavesEnsure
  <1>4. CASE TakesRequested(old, new)
    BY <1>4, GivenSpent DEF TakesRequested, Goes, EnsureStep
  <1>5. CASE Listing(old, new)
    <2>1. Spent(new) = Spent(old)
      BY <1>5 DEF Listing, Goes, Spent, EnsureStep
    <2> QED
      BY <1>0, <1>5, <2>1 DEF Listing, Goes
  <1>6. CASE Reports(old, new)
    <2>1. Spent(new) = Spent(old)
      BY <1>6 DEF Reports, Goes, Spent, EnsureStep, PersistStep, ExistsStep
    <2> QED
      BY <1>0, <1>6, <2>1 DEF Reports, Goes
  <1>7. CASE Over(old, new)
    <2>1. new.pc = "idle" /\ new.jobs = old.jobs
      BY <1>7 DEF Over, JobOver, NoJob
    <2>2. Spent(new) = Spent(old)
      BY <1>7, <2>1 DEF Over, Spent, EnsureStep, PersistStep, ExistsStep
    <2> QED
      BY <1>0, <2>1, <2>2
  <1>8. CASE new = Ended(old)
    BY <1>8, EndedSpent, EndedJob
  <1> QED
    BY <1>2, <1>3, <1>4, <1>5, <1>6, <1>7, <1>8 DEF OwnMoves

\* What account b has a claim on after a step comes from what it had a claim on, and
\* from the address the step gives its attempt.
LEMMA HeldGrows ==
    ASSUME PoolInv, NEW b \in Accounts, NoneHandedOut
    PROVE  Held(b)' \subseteq
             Held(b) \cup {e \in Emails : reg'[b].pc = "create" /\ reg'[b].email = e}
  BY DEF NoneHandedOut, Held

LEMMA LeakStep ==
    ASSUME PoolInv, LeakInv, [PoolNext]_poolVars
    PROVE  LeakInv'
  <1>0. /\ PoolInv' /\ reg \in [Accounts -> Job] /\ reg' \in [Accounts -> Job]
        /\ \A b \in Accounts : /\ reg[b] \in Job /\ JobOK(reg[b])
                               /\ reg'[b] \in Job /\ JobOK(reg'[b])
                               /\ Spent(reg[b]) \in Int /\ Spent(reg'[b]) \in Int
    <2>1. PoolInv'
      BY PoolStep
    <2> QED
      BY <2>1, SpentType DEF PoolInv, PoolTypeOK, JobsOK
  <1>1. ASSUME NEW b \in Accounts,
               \/ Held(b)' \subseteq Held(b) /\ Spent(reg[b]) <= Spent(reg'[b])
               \/ \E e : Held(b)' \subseteq Held(b) \cup {e} /\ Spent(reg[b]) + 1 <= Spent(reg'[b])
        PROVE  HoldsWhatItSpent(b)'
    BY <1>0, <1>1, MoreSpent DEF LeakInv, HoldsWhatItSpent
  \* Nothing is handed out and the job of b moves by itself, or not at all.
  <1>2. ASSUME NoneHandedOut, NEW b \in Accounts, MoveSpends(reg[b], reg'[b])
        PROVE  HoldsWhatItSpent(b)'
    <2>1. CASE reg'[b].pc # "create" /\ Spent(reg[b]) <= Spent(reg'[b])
      BY <1>1, <1>2, <2>1, HeldGrows
    <2>2. CASE reg'[b].pc = "create" /\ Spent(reg[b]) + 1 <= Spent(reg'[b])
      <3>1. Held(b)' \subseteq Held(b) \cup {reg'[b].email}
        BY <1>2, HeldGrows
      <3> QED
        BY <1>1, <2>2, <3>1
    <2> QED
      BY <1>2, <2>1, <2>2 DEF MoveSpends
  <1>3. ASSUME NoneHandedOut, NEW b \in Accounts, reg'[b] = reg[b]
        PROVE  HoldsWhatItSpent(b)'
    <2>1. Held(b)' \subseteq Held(b)
      BY <1>3 DEF NoneHandedOut, Held
    <2>2. Spent(reg[b]) <= Spent(reg'[b])
      BY <1>0, <1>3
    <2> QED
      BY <1>1, <2>1, <2>2
  <1>4. ASSUME NEW a \in Accounts, NEW new \in Job, OwnMoves(reg[a], new), NoneHandedOut,
               reg' = [reg EXCEPT ![a] = new]
        PROVE  LeakInv'
    <2>1. reg'[a] = new /\ \A b \in Accounts \ {a} : reg'[b] = reg[b]
      BY <1>0, <1>4
    <2>2. MoveSpends(reg[a], reg'[a])
      BY <1>0, <1>4, <2>1, MovesSpent
    <2> QED
      BY <1>2, <1>3, <1>4, <2>1, <2>2 DEF LeakInv
  <1>5. ASSUME NEW a \in Accounts, NEW new \in Job, NEW e \in Emails,
               GivenAddress(a, reg[a], new, e), reg' = [reg EXCEPT ![a] = new]
        PROVE  LeakInv'
    <2>1. reg'[a] = new /\ \A b \in Accounts \ {a} : reg'[b] = reg[b]
      BY <1>0, <1>5
    <2>2. Spent(reg[a]) + 1 <= Spent(reg'[a])
      BY <1>0, <1>5, <2>1, GivenSpent DEF GivenAddress, EnsureStep
    <2>3. /\ rows'[e].assigned = a /\ accounts' = accounts /\ new.email = e
          /\ \A x \in Emails \ {e} : rows'[x] = rows[x]
      BY <1>5 DEF GivenAddress, HandsOut
    <2>4. Held(a)' \subseteq Held(a) \cup {e}
      BY <2>1, <2>3 DEF Held
    <2>5. \A b \in Accounts \ {a} : Held(b)' \subseteq Held(b)
      BY <2>1, <2>3 DEF Held
    <2>6. \A b \in Accounts \ {a} : Spent(reg[b]) <= Spent(reg'[b])
      BY <1>0, <2>1
    <2> QED
      BY <1>1, <2>2, <2>4, <2>5, <2>6 DEF LeakInv
  <1>6. CASE reg' = reg /\ NoneHandedOut
    BY <1>3, <1>6 DEF LeakInv
  <1>7. CASE reg' = [a \in Accounts |-> Ended(reg[a])] /\ NoneHandedOut
    <2>1. \A b \in Accounts : MoveSpends(reg[b], reg'[b])
      BY <1>0, <1>7, EndedJob, EndedSpent DEF MoveSpends
    <2> QED
      BY <1>2, <1>7, <2>1 DEF LeakInv
  <1> QED
    BY <1>4, <1>5, <1>6, <1>7, PoolStepJobs DEF Moved, Moves

\* A registration that keeps failing uses up one address for each attempt it made and no
\* more, for any numbers of attempts, jobs, accounts and addresses: a claim, a split or a
\* requested address is settled at most once an attempt, and no import, sync, mark or
\* backfill names an account it did not have.
THEOREM LeaksAreBounded == PoolSpec => []LeakIsBounded
  <1>1. PoolInit => LeakInv
    <2> SUFFICES ASSUME PoolInit, NEW a \in Accounts PROVE HoldsWhatItSpent(a)
      BY DEF LeakInv
    <2>1. Held(a) = {}
      BY NoneAssumption DEF PoolInit, Init, Held, NoRow, NoAccount, NoJob
    <2>2. Spent(reg[a]) = MaxAttempts * 0
      BY DEF PoolInit, NoJob, Spent, EnsureStep
    <2>3. MaxAttempts * 0 = 0
      BY PoolAssumption
    <2>4. IsFiniteSet({}) /\ Cardinality({}) = 0
      BY FS_EmptySet
    <2> QED
      BY <2>1, <2>2, <2>3, <2>4 DEF HoldsWhatItSpent
  <1>2. PoolInv /\ LeakInv /\ [PoolNext]_poolVars => LeakInv'
    BY LeakStep
  <1>3. PoolInv /\ LeakInv => LeakIsBounded
    <2> SUFFICES ASSUME PoolInv, LeakInv, NEW a \in Accounts
                 PROVE  Cardinality({e \in Emails : rows[e].assigned = a}) <= AttemptsMade(a)
      BY DEF LeakIsBounded
    <2> DEFINE named == {e \in Emails : rows[e].assigned = a}
    <2>1. reg[a] \in Job /\ JobOK(reg[a]) /\ Spent(reg[a]) \in Int
      BY SpentType DEF PoolInv, PoolTypeOK, JobsOK
    <2>2. Spent(reg[a]) <= AttemptsMade(a) /\ AttemptsMade(a) \in Int
      <3>1. CASE reg[a].pc \notin EnsureStep
        BY <2>1, <3>1 DEF Spent, AttemptsMade
      <3>2. CASE reg[a].pc \in EnsureStep
        <4> DEFINE base == MaxAttempts * (reg[a].jobs - 1)
        <4>1. reg[a].jobs \in Nat \ {0} /\ reg[a].attempts \in 1..MaxAttempts
          BY <2>1, <3>2, PoolAssumption DEF JobOK, EnsureStep
        <4>2. base \in Int
          BY <4>1, Products
        <4>3. AttemptsMade(a) = base + reg[a].attempts
              /\ Spent(reg[a]) \in {base + reg[a].attempts, base + (reg[a].attempts - 1)}
          BY <3>2 DEF Spent, AttemptsMade
        <4> HIDE DEF base
        <4> QED
          BY <4>1, <4>2, <4>3, PoolAssumption
      <3> QED
        BY <3>1, <3>2
    <2>3. named \subseteq Held(a)
      BY DEF Held
    <2>4. IsFiniteSet(named) /\ Cardinality(named) <= Cardinality(Held(a))
          /\ Cardinality(named) \in Nat /\ Cardinality(Held(a)) \in Nat
      BY <2>3, FS_Subset, FS_CardinalityType DEF LeakInv, HoldsWhatItSpent
    <2> QED
      BY <2>1, <2>2, <2>4 DEF LeakInv, HoldsWhatItSpent
  <1> QED
    BY <1>1, <1>2, <1>3, PoolTypeCorrect, PTL DEF PoolSpec
=================================================================================
