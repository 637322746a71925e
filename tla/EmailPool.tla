------------------------------ MODULE EmailPool ------------------------------
(***************************************************************************)
(* The callers of account-db: registration jobs that take an address from  *)
(* the allocation table, jobs that import and authorize mailboxes, the     *)
(* sync the orchestrator runs when it starts, and the dashboard.  A caller *)
(* makes several calls with nothing held between them, so each call is an  *)
(* action; the worker may die, or the call time out, before any of them.   *)
(***************************************************************************)
EXTENDS AccountDb

CONSTANTS
    Mailboxes,      \* addresses that are rows of the mailbox store
    Outcomes,       \* auth statuses that imports and OAuth runs report
    MaxAttempts,    \* attempts Temporal makes of one activity (5 in the code)
    MaxJobs         \* bound: jobs started for one account id

ASSUME PoolAssumption ==
    /\ Mailboxes \subseteq {e \in Emails : Canonical[e] = e}
    /\ MaxAttempts \in Nat \ {0}
    /\ MaxJobs \in Nat

AuthStatus == {"AUTHORIZED", "OAUTH_PENDING", "AUTH_FAILED", "NEEDS_MANUAL_VERIFICATION"}

ASSUME OutcomesAssumption == Outcomes \subseteq AuthStatus

VARIABLES
    auth,       \* mailboxes.auth_status in outlook-imap-service, "NONE": no row
    pending,    \* allocation upsert still owed for a mailbox, "NONE": none
    toSync,     \* startup sync: the upserts still to send
    up,         \* the orchestrator: "down", "syncing" or "up"
    reg         \* the registration job of each account id

poolVars == <<accounts, rows, phase, auth, pending, toSync, up, reg>>

\* gptAllocationStatusForMailboxAuth, allocationStatusFromMailbox
AllocationOf(authStatus) ==
    IF authStatus = "AUTHORIZED" THEN "AVAILABLE" ELSE authStatus

\* What the mailbox store ever reports to account-db.
Reported == {AllocationOf(authStatus) : authStatus \in AuthStatus}

\* The callers here are among those AccountDb answers to.
ASSUME CallersAssumption ==
    /\ Reported \subseteq UpsertStatus
    /\ {"REGISTERED", "USER_ALREADY_EXISTS", "DEACTIVATED"} \subseteq UpdateStatus

\* EnsureAccountActivity: get, list, claim, split, create; then the browser,
\* and what completeBrowserAuthStep and PersistRegisteredActivity write.
EnsureStep == {"get", "list", "claim", "split", "create"}
PersistStep == {"persist", "mark"}
ExistsStep == {"exists", "markExists"}
JobStep == {"idle", "browser"} \cup EnsureStep \cup PersistStep \cup ExistsStep

Job == [pc: JobStep,
        spec: Emails \cup {None},   \* the address the request asked for
        email: Emails \cup {None},  \* the address this attempt works on
        todo: SUBSET Emails,        \* the snapshot of the list call, what is left of it
        attempts: 0..MaxAttempts,
        jobs: 0..MaxJobs]

NoJob == [pc |-> "idle", spec |-> None, email |-> None, todo |-> {},
          attempts |-> 0, jobs |-> 0]

PoolTypeOK ==
    /\ TypeOK
    /\ auth \in [Mailboxes -> AuthStatus \cup {"NONE"}]
    /\ pending \in [Mailboxes -> Reported \cup {"NONE"}]
    /\ toSync \in [Mailboxes -> Reported \cup {"NONE"}]
    /\ up \in {"down", "syncing", "up"}
    /\ reg \in [Accounts -> Job]

PoolInit ==
    /\ Init
    /\ auth = [m \in Mailboxes |-> "NONE"]
    /\ pending = [m \in Mailboxes |-> "NONE"]
    /\ toSync = [m \in Mailboxes |-> "NONE"]
    /\ up = "up"
    /\ reg = [a \in Accounts |-> NoJob]

accountDbVars == <<accounts, rows, phase>>
mailboxVars == <<auth, pending, toSync, up>>

\* Mutant: the service listens while its backfill still runs.
ServesEarly == UNCHANGED phase

\* A call of account-db that succeeds: it listens only after the backfill.
Serves == phase = Serving /\ UNCHANGED phase

-----------------------------------------------------------------------------
(* EnsureAccountActivity, one attempt.                                     *)

At(a, step) == up = "up" /\ reg[a].pc = step

\* A job is started; a job of an account that is gone or was never registered
\* may be started again.
StartJob(a, spec) ==
    /\ At(a, "idle")
    /\ reg[a].jobs < MaxJobs
    /\ reg' = [reg EXCEPT ![a] = [NoJob EXCEPT !.pc = "get", !.spec = spec,
                                               !.attempts = 1, !.jobs = reg[a].jobs + 1]]
    /\ UNCHANGED <<accountDbVars, mailboxVars>>

\* The account is there and not known to exist elsewhere: nothing to create.
GetAccountFound(a) ==
    /\ At(a, "get") /\ Serves
    /\ AccountExists(accounts, a)
    /\ accounts[a].status # "USER_ALREADY_EXISTS"
    /\ reg' = [reg EXCEPT ![a].pc = "browser", ![a].attempts = 1]
    /\ UNCHANGED <<accounts, rows, mailboxVars>>

\* Any error of GetAccount, not only NotFound, leads on to a new address.
GetAccountError(a) ==
    /\ At(a, "get")
    /\ reg' = [reg EXCEPT ![a].pc = IF reg[a].spec = None THEN "list" ELSE "create",
                          ![a].email = reg[a].spec]
    /\ UNCHANGED <<accountDbVars, mailboxVars>>

ListAvailable(a) ==
    /\ At(a, "list") /\ Serves
    /\ reg' = [reg EXCEPT ![a].pc = "claim",
                          ![a].todo = {e \in Emails : rows[e].status = "AVAILABLE"}]
    /\ UNCHANGED <<accounts, rows, mailboxVars>>

\* The next candidate of the snapshot: primaries before aliases.  The order
\* within each group (oldest first) is left open.
Candidates(a) ==
    LET primaries == {e \in reg[a].todo : rows[e].isPrimary}
    IN  IF primaries # {} THEN primaries ELSE reg[a].todo

Claim(a, e) ==
    /\ At(a, "claim") /\ Serves
    /\ e \in Candidates(a)
    /\ LET requirePrimary == ~rows[e].isPrimary
       IN  IF Claimable(rows, e, requirePrimary)
           THEN /\ ClaimGPTEmailAllocation(e, a, requirePrimary)
                /\ reg' = [reg EXCEPT ![a].pc = "create", ![a].email = e, ![a].todo = {}]
           ELSE /\ reg' = [reg EXCEPT ![a].todo = @ \ {e}]
                /\ UNCHANGED <<accounts, rows>>
    /\ UNCHANGED mailboxVars

\* The snapshot is used up: list the registered primaries that may be split.
ListSplittable(a) ==
    /\ At(a, "claim") /\ Serves
    /\ reg[a].todo = {}
    /\ reg' = [reg EXCEPT ![a].pc = "split",
                          ![a].todo = {p \in Emails : Splittable(rows, p)}]
    /\ UNCHANGED <<accounts, rows, mailboxVars>>

Split(a, p) ==
    /\ At(a, "split") /\ Serves
    /\ p \in reg[a].todo
    /\ \/ \E alias \in Emails :
            /\ CreateGPTEmailAliasAllocation(p, alias, a)
            /\ reg' = [reg EXCEPT ![a].pc = "create", ![a].email = alias, ![a].todo = {}]
       \/ /\ ~Splittable(rows, p)
          /\ reg' = [reg EXCEPT ![a].todo = @ \ {p}]
          /\ UNCHANGED <<accounts, rows>>
    /\ UNCHANGED mailboxVars

\* The job is over; what is left of it is how many were started.
JobOver(job) == [NoJob EXCEPT !.jobs = job.jobs]

\* Mutant: an attempt that ends is not counted.
EndedUncounted(job) ==
    CASE job.pc = "idle" -> job
      [] job.pc \in EnsureStep \cup PersistStep /\ job.attempts < MaxAttempts ->
           [job EXCEPT !.pc = IF @ \in EnsureStep THEN "get" ELSE "persist",
                       !.email = None, !.todo = {}]
      [] OTHER -> JobOver(job)

\* The attempt under way ends without a result: the worker died, the call timed
\* out or the handler returned an error.  Temporal starts a retried activity
\* again from its first call until the attempts are used up.
Ended(job) ==
    CASE job.pc = "idle" -> job
      [] job.pc \in EnsureStep \cup PersistStep /\ job.attempts < MaxAttempts ->
           [job EXCEPT !.pc = IF @ \in EnsureStep THEN "get" ELSE "persist",
                       !.email = None, !.todo = {}, !.attempts = @ + 1]
      [] OTHER -> JobOver(job)

\* The last call of the attempt: its result reaches the workflow, or the attempt
\* ends after the call was served.
CreateAccountStep(a) ==
    /\ At(a, "create") /\ Serves
    /\ CreateAccount(a, reg[a].email)
    /\ \/ reg' = [reg EXCEPT ![a].pc = "browser", ![a].attempts = 1]
       \/ reg' = [reg EXCEPT ![a] = Ended(@)]
    /\ UNCHANGED mailboxVars

\* CreateAccount failed, but the account exists: the address of this attempt
\* is given up, not given back.
CreateAccountExists(a) ==
    /\ At(a, "create") /\ Serves
    /\ AccountExists(accounts, a)
    /\ accounts[a].status # "USER_ALREADY_EXISTS"
    /\ reg' = [reg EXCEPT ![a].pc = "browser", ![a].attempts = 1]
    /\ UNCHANGED <<accounts, rows, mailboxVars>>

AttemptEnds(a) ==
    /\ reg[a].pc # "idle"
    /\ reg' = [reg EXCEPT ![a] = Ended(@)]
    /\ UNCHANGED <<accountDbVars, mailboxVars>>

-----------------------------------------------------------------------------
(* What the browser flow reports, and what is written then.                *)

\* The flow ends with a session, or with "user already exists".  (A flow that
\* fails in any other way is AttemptEnds.)
BrowserReports(a, outcome) ==
    /\ At(a, "browser")
    /\ reg' = [reg EXCEPT ![a].pc = outcome, ![a].email = None]
    /\ UNCHANGED <<accountDbVars, mailboxVars>>

\* PersistRegisteredActivity: UpdateAccount and GetAccount, then the mark.
PersistAccount(a) ==
    /\ At(a, "persist") /\ Serves
    /\ UpdateAccount(a, "REGISTERED", TRUE)
    /\ reg' = [reg EXCEPT ![a].pc = "mark", ![a].email = accounts[a].email]
    /\ UNCHANGED mailboxVars

\* completeBrowserAuthStep: the account, then its address.  An error of the
\* first call is noted and the second is made all the same.
ExistsAccount(a) ==
    /\ At(a, "exists") /\ Serves
    /\ AccountExists(accounts, a)
    /\ UpdateAccount(a, "USER_ALREADY_EXISTS", FALSE) \/ UNCHANGED <<accounts, rows>>
    /\ reg' = [reg EXCEPT ![a].pc = "markExists", ![a].email = accounts[a].email]
    /\ UNCHANGED mailboxVars

Mark(a, step, st) ==
    /\ At(a, step) /\ Serves
    /\ MarkGPTEmailAllocationStatus(reg[a].email, st)
    /\ \/ reg' = [reg EXCEPT ![a] = JobOver(@)]
       \/ reg' = [reg EXCEPT ![a] = Ended(@)]
    /\ UNCHANGED mailboxVars

PersistMark(a) == Mark(a, "mark", "REGISTERED")

ExistsMark(a) == Mark(a, "markExists", "USER_ALREADY_EXISTS")

-----------------------------------------------------------------------------
(* Mailboxes: the import and OAuth jobs and the dashboard write the mailbox *)
(* store first and owe account-db an upsert; nothing makes the two one.     *)

\* RegisterMailboxAtomicActivity, or a mailbox added on the dashboard.
ImportMailbox(m, st) ==
    /\ pending[m] = "NONE"
    /\ auth' = [auth EXCEPT ![m] = st]
    /\ pending' = [pending EXCEPT ![m] = AllocationOf(st)]
    /\ UNCHANGED <<accountDbVars, toSync, up, reg>>

\* MailboxOAuthAtomicActivity: the OAuth run of an existing mailbox succeeded
\* (UpsertMailbox) or failed (MarkEmailAuthStatus).
OAuthResult(m, st) ==
    /\ up = "up"
    /\ auth[m] # "NONE" /\ pending[m] = "NONE"
    /\ auth' = [auth EXCEPT ![m] = st]
    /\ pending' = [pending EXCEPT ![m] = AllocationOf(st)]
    /\ UNCHANGED <<accountDbVars, toSync, up, reg>>

UpsertPending(m) ==
    /\ pending[m] # "NONE" /\ Serves
    /\ UpsertGPTEmailAllocation(m, m, pending[m])
    /\ pending' = [pending EXCEPT ![m] = "NONE"]
    /\ UNCHANGED <<auth, toSync, up, reg>>

\* The caller dies or gives up before the second call.
DropPending(m) ==
    /\ pending[m] # "NONE"
    /\ pending' = [pending EXCEPT ![m] = "NONE"]
    /\ UNCHANGED <<accountDbVars, auth, toSync, up, reg>>

\* fetchMailboxMessages: the mailbox service finds the token dead (MarkAuthFailed).
WatcherMarksAuthFailed(m) ==
    /\ auth[m] = "AUTHORIZED"
    /\ auth' = [auth EXCEPT ![m] = "AUTH_FAILED"]
    /\ UNCHANGED <<accountDbVars, pending, toSync, up, reg>>

DeleteMailbox(m) ==
    /\ auth[m] # "NONE"
    /\ auth' = [auth EXCEPT ![m] = "NONE"]
    /\ UNCHANGED <<accountDbVars, pending, toSync, up, reg>>

-----------------------------------------------------------------------------
(* The orchestrator stops and starts: running attempts end, and before it   *)
(* serves it upserts the allocation of every mailbox it listed.             *)

OrchestratorStops ==
    /\ up' = "down"
    /\ reg' = [a \in Accounts |-> Ended(reg[a])]
    /\ pending' = [m \in Mailboxes |-> "NONE"]
    /\ toSync' = [m \in Mailboxes |-> "NONE"]
    /\ UNCHANGED <<accountDbVars, auth>>

OrchestratorStarts ==
    /\ up = "down"
    /\ up' = "syncing"
    /\ toSync' = [m \in Mailboxes |-> AllocationOf(auth[m])]
    /\ UNCHANGED <<accountDbVars, auth, pending, reg>>

SyncOne(m) ==
    /\ up = "syncing" /\ Serves
    /\ toSync[m] # "NONE"
    /\ UpsertGPTEmailAllocation(m, m, toSync[m])
    /\ toSync' = [toSync EXCEPT ![m] = "NONE"]
    /\ UNCHANGED <<auth, pending, up, reg>>

SyncDone ==
    /\ up = "syncing"
    /\ \A m \in Mailboxes : toSync[m] = "NONE"
    /\ up' = "up"
    /\ UNCHANGED <<accountDbVars, auth, pending, toSync, reg>>

-----------------------------------------------------------------------------

EnsureAccount(a) ==
    \/ GetAccountFound(a)
    \/ GetAccountError(a)
    \/ ListAvailable(a)
    \/ \E e \in Emails : Claim(a, e) \/ Split(a, e)
    \/ ListSplittable(a)
    \/ CreateAccountStep(a)
    \/ CreateAccountExists(a)

Persist(a) ==
    PersistAccount(a) \/ PersistMark(a) \/ ExistsAccount(a) \/ ExistsMark(a)

JobAction(a) ==
    \/ EnsureAccount(a)
    \/ \E outcome \in {"persist", "exists"} : BrowserReports(a, outcome)
    \/ Persist(a)
    \/ AttemptEnds(a)

MailboxAction(m) ==
    \/ \E st \in Outcomes : ImportMailbox(m, st) \/ OAuthResult(m, st)
    \/ UpsertPending(m)
    \/ DropPending(m)
    \/ WatcherMarksAuthFailed(m)
    \/ DeleteMailbox(m)
    \/ SyncOne(m)

\* What the dashboard and the inbox scan change directly.
DirectAction(a) ==
    /\ Serves
    /\ DeleteAccount(a) \/ UpdateAccount(a, "DEACTIVATED", FALSE)
    /\ UNCHANGED <<mailboxVars, reg>>

AccountDbAction ==
    /\ BackfillStep \/ Serve \/ Restart
    /\ UNCHANGED <<mailboxVars, reg>>

PoolNext ==
    \/ \E a \in Accounts :
         \/ \E spec \in Emails \cup {None} : StartJob(a, spec)
         \/ JobAction(a)
         \/ DirectAction(a)
    \/ \E m \in Mailboxes : MailboxAction(m)
    \/ OrchestratorStops \/ OrchestratorStarts \/ SyncDone
    \/ AccountDbAction

PoolSpec == PoolInit /\ [][PoolNext]_poolVars

-----------------------------------------------------------------------------
(* Properties.                                                             *)

\* The address the allocator gave to the attempt of account a.
Granted(a) == IF reg[a].pc = "create" /\ reg[a].spec = None THEN reg[a].email ELSE None

\* Two registrations never work on the same allocated address at once, and an
\* allocated address is out of the pool whatever imports, OAuth results, syncs
\* and restarts happen between the claim and the account's creation.
GrantsAreExclusive ==
    \A a \in Accounts :
      Granted(a) # None =>
        /\ rows[Granted(a)].status \in Taken
        /\ \A b \in Accounts \ {a} : Granted(b) # Granted(a)

\* Attempts made so far for account a; once a job left EnsureAccount, all of its
\* attempts count.
AttemptsMade(a) ==
    LET job == reg[a]
    IN  IF job.pc \in EnsureStep THEN MaxAttempts * (job.jobs - 1) + job.attempts
        ELSE MaxAttempts * job.jobs

\* An attempt gives away at most one address, whether it claims one, splits one
\* off or creates the account on the one it was told: what a job that keeps
\* failing can use up of the pool is bounded by the attempts it made.
LeakIsBounded ==
    \A a \in Accounts :
      Cardinality({e \in Emails : rows[e].assigned = a}) <= AttemptsMade(a)

\* README: a mailbox whose OAuth was completed enters the pool, that is, its
\* allocation is AVAILABLE when the OAuth job has written it, unless the
\* address was used before.
CompletedOAuthEntersPool ==
    [][\A m \in Mailboxes :
         UpsertPending(m) /\ pending[m] = "AVAILABLE" /\ rows[m].assigned = None
           => rows'[m].status = "AVAILABLE"]_poolVars

\* Whatever the callers do is a behaviour of AccountDb, so that what account-db
\* promises any caller holds of the composition: no request is served between two
\* backfill statements, and no caller sends one that AccountDb leaves out.
ImplementsAccountDb == Spec

\* The calls of claimPrimaryGPTEmail, imports, OAuth jobs and syncs leave every grant
\* exclusive, in states of the type of the model.
GrantsAreSound == PoolTypeOK /\ GrantsAreExclusive
=============================================================================
