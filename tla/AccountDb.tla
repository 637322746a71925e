------------------------------ MODULE AccountDb ------------------------------
(***************************************************************************)
(* account-db: the gRPC service that owns two tables, the accounts and the *)
(* GPT email allocations, and nothing else.  Every operation below is one  *)
(* gRPC handler; a handler that writes is one database transaction (it     *)
(* locks the row with SELECT ... FOR UPDATE), so it is one action here.    *)
(* The restart of the service, which rewrites the allocation table from    *)
(* the account table with four separate statements, is an action too.      *)
(*                                                                         *)
(* Callers are not modelled here: Next lets any caller issue any request   *)
(* the callers in the repository issue.  EmailPool adds the callers.       *)
(***************************************************************************)
EXTENDS FiniteSets, Naturals

CONSTANTS
    Emails,     \* addresses, primary mailboxes and their +aliases
    Accounts,   \* account ids
    None,       \* no address, no account id: the empty string
    Canonical,  \* Canonical[e]: e without its +suffix (canonicalEmail)
    UpsertStatus,   \* allocation statuses the callers send with an upsert
    UpdateStatus    \* account statuses the callers send with an update

ASSUME CanonicalAssumption ==
    /\ Canonical \in [Emails -> Emails]
    /\ \A e \in Emails : Canonical[Canonical[e]] = Canonical[e]

ASSUME NoneAssumption == None \notin Emails \cup Accounts

VARIABLES
    accounts,   \* the accounts table, indexed by id
    rows,       \* the gpt_email_allocations table, indexed by email
    phase       \* Serving, or the number of backfill statements that ran

vars == <<accounts, rows, phase>>

Serving == 5

-----------------------------------------------------------------------------
(* Statuses and rows.  An absent row has status "NONE".                    *)

Dead == {"USER_ALREADY_EXISTS", "BLOCKED"}

\* Statuses any refresh may overwrite: the address was given to nobody yet.
Open == {"AVAILABLE", "OAUTH_PENDING", "AUTH_FAILED"}

\* Statuses a refresh can never bring back to Open.
Taken == {"ASSIGNED", "REGISTERED", "REGISTRATION_FAILED",
          "NEEDS_MANUAL_VERIFICATION"} \cup Dead

AllocationStatus == Open \cup Taken

Allocation == [primary: Emails, isPrimary: BOOLEAN, status: AllocationStatus,
               splittable: BOOLEAN, assigned: Accounts \cup {None}]

NoRow == [primary |-> None, isPrimary |-> FALSE, status |-> "NONE",
          splittable |-> FALSE, assigned |-> None]

AccountStatus ==
    {"CREATED", "REGISTERED", "ACTIVATED", "DEACTIVATED", "USER_ALREADY_EXISTS"}

Account == [email: Emails, status: AccountStatus, tokens: BOOLEAN]

ASSUME StatusAssumption ==
    UpsertStatus \subseteq AllocationStatus /\ UpdateStatus \subseteq AccountStatus

NoAccount == [email |-> None, status |-> "NONE", tokens |-> FALSE]

RowExists(rs, e) == rs[e].status # "NONE"

AccountExists(as, a) == as[a].status # "NONE"

TypeOK ==
    /\ accounts \in [Accounts -> Account \cup {NoAccount}]
    /\ rows \in [Emails -> Allocation \cup {NoRow}]
    /\ phase \in 0..Serving

Init ==
    /\ phase = 0
    /\ accounts = [a \in Accounts |-> NoAccount]
    /\ rows = [e \in Emails |-> NoRow]

-----------------------------------------------------------------------------
(* What the handlers do to the allocation table rs.                        *)

\* Mutant: an address set aside for manual verification is refreshed by anything.
CanRefreshManual(current, incoming) ==
    \/ current \in Open \cup {"NEEDS_MANUAL_VERIFICATION"}
    \/ current = "REGISTERED" /\ incoming \in {"REGISTERED"} \cup Dead
    \/ current = "ASSIGNED" /\ incoming \in Dead
    \/ current = "REGISTRATION_FAILED" /\ incoming \notin Open

\* canRefreshAllocationStatus
CanRefresh(current, incoming) ==
    \/ current \in Open
    \/ current = "REGISTERED" /\ incoming \in {"REGISTERED"} \cup Dead
    \/ current = "ASSIGNED" /\ incoming \in Dead
    \/ /\ current \in {"REGISTRATION_FAILED", "NEEDS_MANUAL_VERIFICATION"}
       /\ incoming \notin Open

\* refreshPrimaryRegisteredState
RefreshPrimary(rs, p) ==
    IF /\ rs[p].isPrimary
       /\ rs[p].status \notin Dead
       /\ \E c \in Emails : rs[c].primary = p /\ rs[c].status = "REGISTERED"
    THEN [rs EXCEPT ![p].status = "REGISTERED", ![p].splittable = TRUE]
    ELSE rs

\* UpsertGPTEmailAllocation.  Every caller sends is_primary exactly when the
\* address is its own primary, and no caller sends an assigned account.
UpsertRow(rs, e, p, st, spl) ==
    IF RowExists(rs, e)
    THEN RefreshPrimary(
           [rs EXCEPT ![e] =
              [rs[e] EXCEPT !.primary = p,
                            !.isPrimary = (p = e),
                            !.status = IF CanRefresh(@, st) THEN st ELSE @,
                            !.splittable = @ \/ spl]], p)
    ELSE [rs EXCEPT ![e] = [primary |-> p, isPrimary |-> (p = e), status |-> st,
                            splittable |-> spl, assigned |-> None]]

\* The queries of ClaimGPTEmailAllocation: the row is still AVAILABLE and,
\* for an alias, its primary is a registered primary that may be split.
Splittable(rs, p) ==
    rs[p].isPrimary /\ rs[p].splittable /\ rs[p].status = "REGISTERED"

\* Mutant: the status is the one the caller read when it listed the row.
ClaimableListed(rs, e, requirePrimary) ==
    /\ RowExists(rs, e)
    /\ requirePrimary => Splittable(rs, rs[e].primary)

Claimable(rs, e, requirePrimary) ==
    /\ rs[e].status = "AVAILABLE"
    /\ requirePrimary => Splittable(rs, rs[e].primary)

ClaimRow(rs, e, a) ==
    [rs EXCEPT ![e].status = "ASSIGNED", ![e].assigned = a]

\* CreateGPTEmailAliasAllocation: alias is the random address drawn.
AliasRow(rs, p, alias, a) ==
    [rs EXCEPT ![alias] = [primary |-> p, isPrimary |-> FALSE,
                           status |-> "ASSIGNED", splittable |-> FALSE,
                           assigned |-> a]]

\* The cascade of MarkGPTEmailAllocationStatus(USER_ALREADY_EXISTS).
BlockFamily(rs, p) ==
    [x \in Emails |->
       IF x = p /\ rs[x].isPrimary /\ rs[x].status # "USER_ALREADY_EXISTS"
       THEN [rs[x] EXCEPT !.status = "BLOCKED", !.splittable = FALSE]
       ELSE IF rs[x].primary = p /\ ~rs[x].isPrimary /\ rs[x].status = "AVAILABLE"
       THEN [rs[x] EXCEPT !.status = "BLOCKED"]
       ELSE rs[x]]

\* MarkGPTEmailAllocationStatus: unconditional, whatever the status was.
MarkRow(rs, e, st) ==
    LET row == [rs[e] EXCEPT
                  !.status = st,
                  !.splittable = IF st \in Dead THEN FALSE
                                 ELSE @ \/ (st = "REGISTERED" /\ rs[e].isPrimary)]
        marked == [rs EXCEPT ![e] = row]
    IN  IF ~RowExists(rs, e) THEN rs
        ELSE IF st = "REGISTERED" THEN RefreshPrimary(marked, rs[e].primary)
        ELSE IF st = "USER_ALREADY_EXISTS" THEN BlockFamily(marked, rs[e].primary)
        ELSE marked

\* Mutant: an existing row is only refreshed for the account it already names.
AssignRowOwned(rs, e, a) ==
    IF ~RowExists(rs, e)
    THEN [rs EXCEPT ![e] = [primary |-> Canonical[e], isPrimary |-> (Canonical[e] = e),
                            status |-> "ASSIGNED", splittable |-> FALSE,
                            assigned |-> a]]
    ELSE IF rs[e].assigned = a THEN ClaimRow(rs, e, a)
    ELSE rs

\* Mutant: whoever creates an account takes its address over.
AssignRowTakesOver(rs, e, a) ==
    IF ~RowExists(rs, e)
    THEN [rs EXCEPT ![e] = [primary |-> Canonical[e], isPrimary |-> (Canonical[e] = e),
                            status |-> "ASSIGNED", splittable |-> FALSE,
                            assigned |-> a]]
    ELSE ClaimRow(rs, e, a)

\* assignAccountEmailAllocation
AssignRow(rs, e, a) ==
    IF ~RowExists(rs, e)
    THEN [rs EXCEPT ![e] = [primary |-> Canonical[e], isPrimary |-> (Canonical[e] = e),
                            status |-> "ASSIGNED", splittable |-> FALSE,
                            assigned |-> a]]
    ELSE IF CanRefresh(rs[e].status, "ASSIGNED") \/ rs[e].assigned = a
    THEN ClaimRow(rs, e, a)
    ELSE rs

-----------------------------------------------------------------------------
(* backfillGPTEmailAllocationsFromAccounts: four statements, each its own  *)
(* transaction.                                                            *)

\* allocation_status of the first statement.
StatusOfAccount(acc) ==
    IF acc.status = "USER_ALREADY_EXISTS" THEN "USER_ALREADY_EXISTS"
    ELSE IF acc.status \in {"REGISTERED", "ACTIVATED"} \/ acc.tokens THEN "REGISTERED"
    ELSE "ASSIGNED"

\* INSERT ... ON CONFLICT (email) DO UPDATE, for one account.
BackfillRow(row, e, a, incoming) ==
    LET primary == Canonical[e] = e
        status == CASE row.status = "NONE" -> incoming
                    [] incoming = "USER_ALREADY_EXISTS" -> incoming
                    [] incoming = "REGISTERED" /\ row.status \notin Dead -> incoming
                    [] incoming = "ASSIGNED"
                         /\ row.status \in Open \cup {"NEEDS_MANUAL_VERIFICATION"} -> incoming
                    [] OTHER -> row.status
        splittable == CASE incoming = "REGISTERED" /\ primary /\ row.status \notin Dead -> TRUE
                        [] incoming = "USER_ALREADY_EXISTS" -> FALSE
                        [] OTHER -> row.splittable
    IN  [primary |-> Canonical[e], isPrimary |-> primary, status |-> status,
         splittable |-> splittable, assigned |-> a]

BackfillFromAccounts(rs, as) ==
    [e \in Emails |->
       IF \E a \in Accounts : as[a].email = e
       THEN LET a == CHOOSE a \in Accounts : as[a].email = e
            IN  BackfillRow(rs[e], e, a, StatusOfAccount(as[a]))
       ELSE rs[e]]

\* A primary with a registered address under it is registered and splittable.
PromotePrimaries(rs) ==
    [e \in Emails |->
       IF /\ rs[e].isPrimary
          /\ rs[e].status \notin Dead
          /\ \E c \in Emails : rs[c].primary = e /\ rs[c].status = "REGISTERED"
       THEN [rs[e] EXCEPT !.status = "REGISTERED", !.splittable = TRUE]
       ELSE rs[e]]

\* A primary with an already-existing alias is blocked.
BlockPrimaries(rs) ==
    [e \in Emails |->
       IF /\ rs[e].isPrimary
          /\ rs[e].status # "USER_ALREADY_EXISTS"
          /\ \E c \in Emails \ {e} :
               rs[c].primary = e /\ rs[c].status = "USER_ALREADY_EXISTS"
       THEN [rs[e] EXCEPT !.status = "BLOCKED", !.splittable = FALSE]
       ELSE rs[e]]

\* Available aliases of a dead primary are blocked.
BlockAliases(rs) ==
    [e \in Emails |->
       IF /\ rs[e].status = "AVAILABLE"
          /\ ~rs[e].isPrimary
          /\ rs[rs[e].primary].status \in Dead
       THEN [rs[e] EXCEPT !.status = "BLOCKED", !.splittable = FALSE]
       ELSE rs[e]]

\* Mutant: the aliases are blocked before their primaries.
BackfillStatementSwapped(rs, as, n) ==
    CASE n = 0 -> BackfillFromAccounts(rs, as)
      [] n = 1 -> PromotePrimaries(rs)
      [] n = 2 -> BlockAliases(rs)
      [] n = 3 -> BlockPrimaries(rs)

\* The four statements, in the order they run.
BackfillStatement(rs, as, n) ==
    CASE n = 0 -> BackfillFromAccounts(rs, as)
      [] n = 1 -> PromotePrimaries(rs)
      [] n = 2 -> BlockPrimaries(rs)
      [] n = 3 -> BlockAliases(rs)

-----------------------------------------------------------------------------
(* The handlers that write.                                                *)

\* CreateAccount: the insert fails on a known id or (unique index) on an email
\* another account has; the allocation row follows in the same transaction.
CreateAccount(a, e) ==
    /\ ~AccountExists(accounts, a)
    /\ \A b \in Accounts : accounts[b].email # e
    /\ accounts' = [accounts EXCEPT ![a] = [email |-> e, status |-> "CREATED",
                                            tokens |-> FALSE]]
    /\ rows' = AssignRow(rows, e, a)

\* UpdateAccount: a non-empty status or token overwrites, an empty one does
\* not; no caller changes the email.
UpdateAccount(a, st, tokens) ==
    /\ AccountExists(accounts, a)
    /\ accounts' = [accounts EXCEPT ![a].status = IF st = None THEN @ ELSE st,
                                    ![a].tokens = @ \/ tokens]
    /\ UNCHANGED rows

\* DeleteAccount leaves the allocation row as it is.
DeleteAccount(a) ==
    /\ AccountExists(accounts, a)
    /\ accounts' = [accounts EXCEPT ![a] = NoAccount]
    /\ UNCHANGED rows

UpsertGPTEmailAllocation(e, p, st) ==
    /\ rows' = UpsertRow(rows, e, p, st, p = e /\ st = "REGISTERED")
    /\ UNCHANGED accounts

ClaimGPTEmailAllocation(e, a, requirePrimary) ==
    /\ Claimable(rows, e, requirePrimary)
    /\ rows' = ClaimRow(rows, e, a)
    /\ UNCHANGED accounts

\* A drawn alias that exists makes the insert fail and aborts the transaction.
CreateGPTEmailAliasAllocation(p, alias, a) ==
    /\ Splittable(rows, p)
    /\ alias # p /\ Canonical[alias] = p
    /\ ~RowExists(rows, alias)
    /\ rows' = AliasRow(rows, p, alias, a)
    /\ UNCHANGED accounts

MarkGPTEmailAllocationStatus(e, st) ==
    /\ rows' = MarkRow(rows, e, st)
    /\ UNCHANGED accounts

\* InitDB runs before the service listens: one backfill statement after the
\* other, then Serve; a failing statement is logged and ends the backfill.
BackfillStep ==
    /\ phase < 4
    /\ rows' = BackfillStatement(rows, accounts, phase)
    /\ phase' = phase + 1
    /\ UNCHANGED accounts

Serve ==
    /\ phase \in 0..4
    /\ phase' = Serving
    /\ UNCHANGED <<accounts, rows>>

\* The process stops, whatever it was doing, and is started again.
Restart ==
    /\ phase' = 0
    /\ UNCHANGED <<accounts, rows>>

-----------------------------------------------------------------------------
(* Any caller, any request.                                                *)

MarkStatus == {"REGISTERED", "USER_ALREADY_EXISTS"}

AccountRequest ==
    \E a \in Accounts :
      \/ \E e \in Emails : CreateAccount(a, e)
      \/ \E st \in UpdateStatus \cup {None}, tokens \in BOOLEAN :
           UpdateAccount(a, st, tokens)
      \/ DeleteAccount(a)

AllocationRequest ==
    \E e \in Emails :
      \/ \E st \in UpsertStatus, p \in {e, Canonical[e]} :
           UpsertGPTEmailAllocation(e, p, st)
      \/ \E a \in Accounts, requirePrimary \in BOOLEAN :
           ClaimGPTEmailAllocation(e, a, requirePrimary)
      \/ \E a \in Accounts, alias \in Emails :
           CreateGPTEmailAliasAllocation(e, alias, a)
      \/ \E st \in MarkStatus : MarkGPTEmailAllocationStatus(e, st)

Request ==
    /\ phase = Serving
    /\ AccountRequest \/ AllocationRequest
    /\ UNCHANGED phase

Next == Request \/ BackfillStep \/ Serve \/ Restart

Spec == Init /\ [][Next]_vars

-----------------------------------------------------------------------------
(* What the service promises.                                              *)

\* An address that was once given away, or set aside for manual verification,
\* never becomes claimable again: no refresh, mark, backfill or account
\* creation brings it back to a status a later refresh may turn AVAILABLE.
NeverBackInPool ==
    [][\A e \in Emails : rows[e].status \in Taken => rows'[e].status \in Taken]_vars

\* A row that names an owner keeps that owner for as long as the address is
\* assigned, registered or dead; only the first backfill statement rewrites it.
OwnerIsStable ==
    [][\A e \in Emails :
         /\ rows[e].status \in {"ASSIGNED", "REGISTERED"} \cup Dead
         /\ rows[e].assigned # None
         /\ rows'[e].assigned # rows[e].assigned
         => phase = 0]_vars

\* The address of a live account is not in the pool: its allocation row
\* exists and nobody can claim it.
AccountEmailNotInPool ==
    \A a \in Accounts :
      AccountExists(accounts, a) => rows[accounts[a].email].status \in Taken

\* An address is flagged primary exactly when it is its own primary, whatever
\* mixture of imports, claims, aliases and backfills wrote the row.
PrimaryFlagAgrees ==
    \A e \in Emails : rows[e].isPrimary <=> rows[e].primary = e

\* When the service begins to serve after a complete backfill, no family with
\* an already-existing alias can be split (its primary is dead) and no dead
\* primary has an alias left to claim.
FamilyBlocked(e) ==
    RowExists(rows, e) /\ ~rows[e].isPrimary =>
      LET primary == rows[rows[e].primary]
      IN  /\ rows[e].status = "USER_ALREADY_EXISTS" /\ primary.isPrimary
               => primary.status \in Dead
          /\ primary.status \in Dead => rows[e].status # "AVAILABLE"

RestartBlocksFamilies == phase = 4 => \A e \in Emails : FamilyBlocked(e)

\* ... and the row of every live account names that account and is at least as
\* final as the account's own status.
RowMatchesAccount(a) ==
    LET row == rows[accounts[a].email]
        status == StatusOfAccount(accounts[a])
    IN  /\ row.assigned = a
        /\ status = "REGISTERED" => row.status \in {"REGISTERED"} \cup Dead
        /\ status = "USER_ALREADY_EXISTS" => row.status = status

RestartRowsMatchAccounts ==
    phase = 4 => \A a \in Accounts : AccountExists(accounts, a) => RowMatchesAccount(a)

\* What the handlers of account-db keep between the two tables, whatever requests
\* come in whatever order: an address that is an account is closed in the allocation
\* table, and a row is a primary exactly when its address is its own primary.
TablesAgree == TypeOK /\ PrimaryFlagAgrees /\ AccountEmailNotInPool

\* What every start of the service restores with its four backfill statements, for
\* the rows the handlers left without an account or with an open family.
RestartRepairs == RestartRowsMatchAccounts /\ RestartBlocksFamilies
=============================================================================
