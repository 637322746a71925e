------------------------- MODULE MailboxRegistration -------------------------
(***************************************************************************)
(* outlook-register-service and the jobs that call it: a registration runs *)
(* a child process that appends the mailbox it made to a file, an import   *)
(* reads the files again, an OAuth gets a token for a mailbox of the       *)
(* mailbox store and appends it to another file.  The jobs write what they *)
(* are told to the store.                                                  *)
(*                                                                         *)
(* How the child registers a mailbox is left out: it ends with a mailbox   *)
(* or without one, or hangs until it is killed.  Of a record the model     *)
(* keeps its address and whether it has a token.                           *)
(***************************************************************************)
EXTENDS Naturals, FiniteSets

CONSTANTS
    Emails,     \* addresses of mailboxes
    Jobs,       \* mailbox registration, import and OAuth jobs
    NoEmail,    \* no address
    MaxRestarts \* bound: restarts of the service

ASSUME RegistrationAssumption == NoEmail \notin Emails /\ MaxRestarts \in Nat

VARIABLES
    listed,     \* unlogged_email.txt: the mailboxes with their passwords
    tokens,     \* outlook_token.txt: the mailboxes with their tokens
    mailbox,    \* the rows of the mailbox store
    job,        \* what each job is at
    dropped,    \* history: mailboxes a job knew and could not store, by a failure
    outdated,   \* history: mailboxes stored from a record older than the files
    restarts    \* restarts of the service

vars == <<listed, tokens, mailbox, job, dropped, outdated, restarts>>

Record == [email: Emails, token: BOOLEAN]

Auths == {"OAUTH_PENDING", "AUTHORIZED", "AUTH_FAILED"}

Mailbox == [known: BOOLEAN, auth: Auths, token: BOOLEAN]

Stages == {"idle", "called", "running", "ended", "answered", "oauth", "done"}

\* before: what a run found in the files when it took the lock; email, skip: the
\* mailbox of an OAuth, and whether it is passed over.
Job == [kind: {"register", "import", "oauth"}, at: Stages, before: SUBSET Record,
        records: SUBSET Record, email: Emails \cup {NoEmail}, skip: BOOLEAN]

RegTypeOK ==
    /\ listed \subseteq Emails
    /\ tokens \subseteq listed
    /\ mailbox \in [Emails -> Mailbox]
    /\ \A m \in Emails : mailbox[m].known => m \in listed
    /\ job \in [Jobs -> Job]
    /\ dropped \subseteq Emails
    /\ outdated \subseteq Emails
    /\ restarts \in 0..MaxRestarts

Init ==
    /\ listed = {}
    /\ tokens = {}
    /\ mailbox = [m \in Emails |-> [known |-> FALSE, auth |-> "OAUTH_PENDING", token |-> FALSE]]
    /\ job \in [Jobs -> {[kind |-> k, at |-> "idle", before |-> {}, records |-> {},
                          email |-> NoEmail, skip |-> FALSE] : k \in {"register", "import", "oauth"}}]
    /\ dropped = {}
    /\ outdated = {}
    /\ restarts = 0

-----------------------------------------------------------------------------
(* The service: runs.                                                       *)

Addresses(records) == {r.email : r \in records}

\* A token of the one file wins over a password of the other.
CollectRecords == {[email |-> m, token |-> m \in tokens] : m \in listed}

NewOrUpdated(before, after) ==
    {r \in after : r.email \notin Addresses(before) \/ (r.token /\ r \notin before)}

Running(j) == job[j].at \in {"running", "ended"}

\* registration_lock, which does not wait by default.
Locked == \E j \in Jobs : Running(j)

Call(j) ==
    /\ job[j].kind \in {"register", "import"} /\ job[j].at = "idle"
    /\ job' = [job EXCEPT ![j].at = "called"]
    /\ UNCHANGED <<listed, tokens, mailbox, dropped, outdated, restarts>>

AlreadyRunning(j) ==
    /\ job[j].at = "called" /\ Locked
    /\ job' = [job EXCEPT ![j].at = "done"]
    /\ UNCHANGED <<listed, tokens, mailbox, dropped, outdated, restarts>>

ImportRecords(j) ==
    /\ job[j].at = "called" /\ job[j].kind = "import" /\ ~Locked
    /\ job' = [job EXCEPT ![j].at = "answered", ![j].records = CollectRecords]
    /\ UNCHANGED <<listed, tokens, mailbox, dropped, outdated, restarts>>

\* Mutant: the lock file is written, not locked.
RunWithoutLock(j) ==
    /\ job[j].at = "called" /\ job[j].kind = "register"
    /\ job' = [job EXCEPT ![j].at = "running", ![j].before = CollectRecords]
    /\ UNCHANGED <<listed, tokens, mailbox, dropped, outdated, restarts>>

Run(j) ==
    /\ job[j].at = "called" /\ job[j].kind = "register" /\ ~Locked
    /\ job' = [job EXCEPT ![j].at = "running", ![j].before = CollectRecords]
    /\ UNCHANGED <<listed, tokens, mailbox, dropped, outdated, restarts>>

\* The child made a mailbox and writes it down; it may hang before it ends.
ChildSaves(j) ==
    /\ job[j].at = "running"
    /\ Addresses(job[j].before) = listed
    /\ \E m \in Emails \ listed : listed' = listed \cup {m}
    /\ UNCHANGED <<tokens, mailbox, job, dropped, outdated, restarts>>

\* Mutant: a child that hangs is waited for.
ChildEndsByItself(j) ==
    /\ job[j].at = "running"
    /\ Addresses(job[j].before) # listed
    /\ job' = [job EXCEPT ![j].at = "ended"]
    /\ UNCHANGED <<listed, tokens, mailbox, dropped, outdated, restarts>>

\* The child ends, or the timeout terminates its process group.
ChildEnds(j) ==
    /\ job[j].at = "running"
    /\ job' = [job EXCEPT ![j].at = "ended"]
    /\ UNCHANGED <<listed, tokens, mailbox, dropped, outdated, restarts>>

\* Mutant: a run that failed reports nothing, whatever its child saved.
CollectUnlessFailed(j) ==
    /\ job[j].at = "ended"
    /\ \E records \in {{}, NewOrUpdated(job[j].before, CollectRecords)} :
          job' = [job EXCEPT ![j].at = "answered", ![j].records = records]
    /\ UNCHANGED <<listed, tokens, mailbox, dropped, outdated, restarts>>

\* Whatever the exit code, what is new in the files is reported.
Collect(j) ==
    /\ job[j].at = "ended"
    /\ job' = [job EXCEPT ![j].at = "answered",
                          ![j].records = NewOrUpdated(job[j].before, CollectRecords)]
    /\ UNCHANGED <<listed, tokens, mailbox, dropped, outdated, restarts>>

-----------------------------------------------------------------------------
(* The service: OAuth, outside the lock.                                    *)

\* mailboxOAuthAccounts: with only_missing, a mailbox that is not authorized; the
\* service then skips one that has a token.
SelectAccount(j) ==
    /\ job[j].kind = "oauth" /\ job[j].at = "idle"
    /\ \E m \in Emails, only_missing \in BOOLEAN :
          /\ mailbox[m].known
          /\ only_missing => mailbox[m].auth # "AUTHORIZED"
          /\ job' = [job EXCEPT ![j].at = "oauth", ![j].email = m,
                                ![j].skip = only_missing /\ mailbox[m].token]
    /\ UNCHANGED <<listed, tokens, mailbox, dropped, outdated, restarts>>

\* Mutant: the token is told to the job only.
OAuthSucceedsUnwritten(j) ==
    /\ job[j].at = "oauth" /\ ~job[j].skip
    /\ job' = [job EXCEPT ![j].at = "answered",
                          ![j].records = {[email |-> job[j].email, token |-> TRUE]}]
    /\ UNCHANGED <<listed, tokens, mailbox, dropped, outdated, restarts>>

OAuthSucceeds(j) ==
    /\ job[j].at = "oauth" /\ ~job[j].skip
    /\ tokens' = tokens \cup {job[j].email}
    /\ job' = [job EXCEPT ![j].at = "answered",
                          ![j].records = {[email |-> job[j].email, token |-> TRUE]}]
    /\ UNCHANGED <<listed, mailbox, dropped, outdated, restarts>>

\* The worker fails or times out; the job marks the mailbox.
OAuthFails(j) ==
    /\ job[j].at = "oauth" /\ ~job[j].skip
    /\ job' = [job EXCEPT ![j].at = "done"]
    /\ mailbox' \in {mailbox, [mailbox EXCEPT ![job[j].email].auth = "AUTH_FAILED"]}
    /\ UNCHANGED <<listed, tokens, dropped, outdated, restarts>>

\* A mailbox with a token is skipped, and the job succeeds.
OAuthSkips(j) ==
    /\ job[j].at = "oauth" /\ job[j].skip
    /\ job' = [job EXCEPT ![j].at = "done"]
    /\ UNCHANGED <<listed, tokens, mailbox, dropped, outdated, restarts>>

-----------------------------------------------------------------------------
(* The jobs: what they were told goes to the store, one mailbox after the   *)
(* other.                                                                   *)

\* UpsertMailbox: an empty token does not replace one, the status is replaced.
Upserted(old, r) ==
    [known |-> TRUE,
     auth  |-> IF r.token THEN "AUTHORIZED" ELSE "OAUTH_PENDING",
     token |-> r.token \/ old.token]

Upsert(j) ==
    /\ job[j].at = "answered"
    /\ \E r \in job[j].records :
          /\ mailbox' = [mailbox EXCEPT ![r.email] = Upserted(@, r)]
          /\ job' = [job EXCEPT ![j].records = @ \ {r}]
          /\ outdated' = IF r.email \in tokens /\ ~r.token THEN outdated \cup {r.email} ELSE outdated
    /\ UNCHANGED <<listed, tokens, dropped, restarts>>

Finish(j) ==
    /\ job[j].at = "answered" /\ job[j].records = {}
    /\ job' = [job EXCEPT ![j].at = "done"]
    /\ UNCHANGED <<listed, tokens, mailbox, dropped, outdated, restarts>>

\* The reply is lost, the activity dies, or a call to the store or to account-db
\* fails: the rest of the list is forgotten.
JobFails(j) ==
    /\ job[j].at = "answered" /\ job[j].records # {}
    /\ job' = [job EXCEPT ![j].at = "done", ![j].records = {}]
    /\ dropped' = dropped \cup Addresses(job[j].records)
    /\ UNCHANGED <<listed, tokens, mailbox, outdated, restarts>>

\* MarkAuthFailed of the mailbox service: the token is dead.
TokenDies(m) ==
    /\ mailbox[m].auth = "AUTHORIZED"
    /\ mailbox' = [mailbox EXCEPT ![m].auth = "AUTH_FAILED"]
    /\ UNCHANGED <<listed, tokens, job, dropped, outdated, restarts>>

\* The lock and the child go with the process; the calls fail.
ServiceRestarts ==
    /\ restarts < MaxRestarts
    /\ restarts' = restarts + 1
    /\ \E j \in Jobs : job[j].at \in {"called", "running", "ended", "oauth"}
    /\ job' = [j \in Jobs |-> IF job[j].at \in {"called", "running", "ended", "oauth"}
                              THEN [job[j] EXCEPT !.at = "done"]
                              ELSE job[j]]
    /\ dropped' = dropped \cup UNION {listed \ Addresses(job[j].before) : j \in {k \in Jobs : Running(k)}}
    /\ UNCHANGED <<listed, tokens, mailbox, outdated>>

-----------------------------------------------------------------------------
JobStep(j) ==
    \/ AlreadyRunning(j) \/ ImportRecords(j) \/ Run(j) \/ ChildEnds(j) \/ Collect(j)
    \/ OAuthSucceeds(j) \/ OAuthFails(j) \/ OAuthSkips(j) \/ Upsert(j) \/ Finish(j)

Next ==
    \/ \E j \in Jobs : Call(j) \/ SelectAccount(j) \/ ChildSaves(j) \/ JobStep(j) \/ JobFails(j)
    \/ ServiceRestarts
    \/ \E m \in Emails : TokenDies(m)

Spec == Init /\ [][Next]_vars

\* Runs and OAuth workers have a timeout, and so have the calls of the jobs.
FairSpec == Spec /\ \A j \in Jobs : WF_vars(JobStep(j))

-----------------------------------------------------------------------------
(* Properties                                                               *)

\* One run of the service at a time, whoever asks.
SingleRun == Cardinality({j \in Jobs : Running(j)}) <= 1

\* Every mailbox in the files is in the store with its token, in the hands of a job
\* that will store it, or one that a named failure dropped: later runs do not report
\* it, only an import does.
FoundAreKept ==
    \A m \in listed :
        \/ mailbox[m].known /\ (m \in tokens => mailbox[m].token)
        \/ m \in dropped
        \/ \E j \in Jobs : Running(j) /\ m \notin Addresses(job[j].before)
        \/ \E j \in Jobs : \E r \in job[j].records : r.email = m /\ r.token = (m \in tokens)

\* A mailbox waits for an OAuth only when it has no token, for the OAuth skips one
\* that has; unless a job stored a record older than the files.
PendingHasNoToken ==
    \A m \in Emails :
        mailbox[m].auth = "OAUTH_PENDING" /\ mailbox[m].token => m \in outdated

\* Every job that was called ends, whatever its child does.
JobsEnd == \A j \in Jobs : job[j].at # "idle" ~> job[j].at = "done"

\* registration_lock gives the files to one run at a time.
RunsAreExclusive == RegTypeOK /\ SingleRun
===============================================================================
