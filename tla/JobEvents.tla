------------------------------- MODULE JobEvents -------------------------------
(***************************************************************************)
(* The event stream of one orchestrator job: how a write to the job's rows *)
(* (jobprojection) becomes a row of job_events (jobevents), and how        *)
(* WatchJob and WatchJobs follow that table.                               *)
(*                                                                         *)
(* A writer is a goroutine, in an activity, that has changed the job.  It  *)
(* reads the job back, inserts an event without a snapshot, fills the      *)
(* snapshot in and wakes the streams: each is a round trip of its own.     *)
(* The id of an event is drawn when the INSERT runs, the row is visible    *)
(* when it commits.  A watcher is one stream and the client behind it.     *)
(*                                                                         *)
(* Left out: the ids other jobs draw, and the status filter of WatchJobs,  *)
(* which no client in the repository sets.                                 *)
(***************************************************************************)
EXTENDS FiniteSets, FiniteSetsExt, Integers

CONSTANTS
    Writers,    \* goroutines that change the job and publish it
    Watchers,   \* streams
    Limit,      \* rows in one List
    MaxWrites,  \* bound: changes of the job
    MaxEvents   \* bound: events

ASSUME EventsAssumption ==
    /\ Limit \in Nat \ {0}
    /\ MaxWrites \in Nat
    /\ MaxEvents \in Nat

VARIABLES
    job,     \* the job's rows: a status, and how many changes led to it
    next,    \* the next event id
    table,   \* job_events: the snapshots of the visible events, by id
    writer,  \* each writer's program counter, snapshot and event id
    watcher  \* each stream: program counter, wakeup channel, cursor of the client

vars == <<job, next, table, writer, watcher>>

Status == {"RUNNING", "SUCCEEDED"}

Snapshot == [version: 0..MaxWrites, status: Status]

\* What a reader gets from an event whose snapshot is not filled in yet.
Empty == [version |-> 0, status |-> "NONE"]

Ids == 1..MaxEvents

Writer == [pc: {"idle", "read", "insert", "commit", "fill", "publish"},
           snapshot: Snapshot \cup {Empty}, id: 0..MaxEvents]

\* woken: the channel of capacity one holds a token.  batch: what the last List
\* returned and is not sent yet, full: it returned Limit rows.  shown: the
\* version the client displays.  single: WatchJob, not WatchJobs.
Watcher == [single: BOOLEAN, pc: {"idle", "list", "send", "wait", "closed"}, woken: BOOLEAN,
            batch: UNION {[ids -> Snapshot \cup {Empty}] : ids \in SUBSET Ids},
            full: BOOLEAN, cursor: 0..MaxEvents, shown: 0..MaxWrites]

NoRows == [i \in {} |-> Empty]

TypeOK ==
    /\ job \in Snapshot
    /\ next \in 1..MaxEvents + 1
    /\ DOMAIN table \subseteq 1..next - 1
    /\ \A i \in DOMAIN table : table[i] \in Snapshot \cup {Empty}
    /\ writer \in [Writers -> Writer]
    /\ watcher \in [Watchers -> Watcher]

IdleWriter == [pc |-> "idle", snapshot |-> Empty, id |-> 0]

Init ==
    /\ job = [version |-> 0, status |-> "RUNNING"]
    /\ next = 1
    /\ table = NoRows
    /\ writer = [p \in Writers |-> IdleWriter]
    /\ watcher \in [Watchers -> {[single |-> b, pc |-> "idle", woken |-> FALSE,
                                  batch |-> NoRows, full |-> FALSE, cursor |-> 0,
                                  shown |-> 0] : b \in BOOLEAN}]

-----------------------------------------------------------------------------
(* jobprojection: a write, then publish.                                   *)

\* StartStep, CompleteStep, Update, ...: whatever the status was before.
Write(p, status) ==
    /\ writer[p].pc = "idle"
    /\ job.version < MaxWrites
    /\ job' = [version |-> job.version + 1, status |-> status]
    /\ writer' = [writer EXCEPT ![p].pc = "read"]
    /\ UNCHANGED <<next, table, watcher>>

\* GetSnapshot
Read(p) ==
    /\ writer[p].pc = "read"
    /\ writer' = [writer EXCEPT ![p].pc = "insert", ![p].snapshot = job]
    /\ UNCHANGED <<job, next, table, watcher>>

\* Mutant: the id is the one after the last event that is visible.
InsertAfterLast(p) ==
    /\ writer[p].pc = "insert"
    /\ next <= MaxEvents
    /\ next' = next + 1
    /\ writer' = [writer EXCEPT ![p].pc = "commit",
                                ![p].id = Max(DOMAIN table \cup {0}) + 1]
    /\ UNCHANGED <<job, table, watcher>>

\* PublishSnapshot: the INSERT draws the id ...
Insert(p) ==
    /\ writer[p].pc = "insert"
    /\ next <= MaxEvents
    /\ next' = next + 1
    /\ writer' = [writer EXCEPT ![p].pc = "commit", ![p].id = next]
    /\ UNCHANGED <<job, table, watcher>>

\* ... and its commit makes the event visible, without a snapshot.
Commit(p) ==
    /\ writer[p].pc = "commit"
    /\ table' = [i \in DOMAIN table \cup {writer[p].id} |->
                   IF i = writer[p].id THEN Empty ELSE table[i]]
    /\ writer' = [writer EXCEPT ![p].pc = "fill"]
    /\ UNCHANGED <<job, next, watcher>>

Fill(p) ==
    /\ writer[p].pc = "fill"
    /\ table' = [i \in DOMAIN table |->
                   IF i = writer[p].id THEN writer[p].snapshot ELSE table[i]]
    /\ writer' = [writer EXCEPT ![p].pc = "publish"]
    /\ UNCHANGED <<job, next, watcher>>

\* Mutant: a channel without capacity, only a stream in its select is woken.
WokenInSelect == [w \in Watchers |->
                    IF watcher[w].pc = "wait"
                    THEN [watcher[w] EXCEPT !.woken = TRUE]
                    ELSE watcher[w]]

\* broker.publish: a send that never blocks on a channel of capacity one.
Woken == [w \in Watchers |->
            IF watcher[w].pc \in {"list", "send", "wait"}
            THEN [watcher[w] EXCEPT !.woken = TRUE]
            ELSE watcher[w]]

\* The last lines of PublishSnapshot; a failing pg_notify is only logged.
Publish(p) ==
    /\ writer[p].pc = "publish"
    /\ watcher' = Woken
    /\ writer' = [writer EXCEPT ![p] = IdleWriter]
    /\ UNCHANGED <<job, next, table>>

\* A query fails: the error is logged, nobody is woken.
Fail(p) ==
    /\ writer[p].pc \in {"read", "insert", "commit", "fill"}
    /\ writer' = [writer EXCEPT ![p] = IdleWriter]
    /\ UNCHANGED <<job, next, table, watcher>>

\* listenOnce: PostgreSQL delivers a notification of this or another process.
Listen ==
    /\ DOMAIN table # {}
    /\ watcher' = Woken
    /\ UNCHANGED <<job, next, table, writer>>

-----------------------------------------------------------------------------
(* watchJobEvents                                                          *)

\* Mutant: Last-Event-ID is ignored.
ConnectFromStart(w) ==
    /\ watcher[w].pc = "idle"
    /\ watcher' = [watcher EXCEPT ![w].pc = "list", ![w].woken = FALSE, ![w].cursor = 0]
    /\ UNCHANGED <<job, next, table, writer>>

\* A client opens the stream, or reopens it with Last-Event-ID: the stream
\* subscribes before it lists.
Connect(w) ==
    /\ watcher[w].pc = "idle"
    /\ watcher' = [watcher EXCEPT ![w].pc = "list", ![w].woken = FALSE]
    /\ UNCHANGED <<job, next, table, writer>>

\* List: the first Limit events after the cursor.
Beyond(w) == {i \in DOMAIN table : i > watcher[w].cursor}

Batch(w) == {i \in Beyond(w) : Cardinality({j \in Beyond(w) : j < i}) < Limit}

List(w) ==
    /\ watcher[w].pc = "list"
    /\ watcher' = [watcher EXCEPT ![w].pc = "send",
                                  ![w].batch = [i \in Batch(w) |-> table[i]],
                                  ![w].full = Cardinality(Batch(w)) = Limit]
    /\ UNCHANGED <<job, next, table, writer>>

\* The stream sends what List returned; WatchJob ends with the first terminal
\* snapshot.
Terminal(snapshot) == snapshot.status = "SUCCEEDED"  \* or FAILED_...

Sent(w) ==
    LET batch == watcher[w].batch
    IN  {i \in DOMAIN batch :
           watcher[w].single => \A j \in DOMAIN batch : j < i => ~Terminal(batch[j])}

Ends(w) == watcher[w].single /\ \E i \in Sent(w) : Terminal(watcher[w].batch[i])

\* The client has got the events up to and including id i of the batch.
Received(w, i) ==
    LET batch == watcher[w].batch
        shown == {j \in Sent(w) : j <= i /\ batch[j] # Empty}
    IN  [watcher[w] EXCEPT !.batch = NoRows,
                           !.cursor = i,
                           !.shown = IF shown = {} THEN @ ELSE batch[Max(shown)].version]

SendPending(w) ==
    /\ watcher[w].pc = "send"
    /\ LET last == IF Sent(w) = {} THEN watcher[w].cursor ELSE Max(Sent(w))
       IN  watcher' = [watcher EXCEPT ![w] =
                         [Received(w, last) EXCEPT
                            !.pc = IF Ends(w) THEN "closed" ELSE "wait"]]
    /\ UNCHANGED <<job, next, table, writer>>

\* The client goes away while the batch is sent: it has part of it.
BreakOff(w) ==
    /\ watcher[w].pc = "send"
    /\ \E i \in Sent(w) \cup {watcher[w].cursor} :
         watcher' = [watcher EXCEPT ![w] = [Received(w, i) EXCEPT !.pc = "idle"]]
    /\ UNCHANGED <<job, next, table, writer>>

Wake(w) ==
    /\ watcher[w].pc = "wait"
    /\ watcher[w].woken
    /\ watcher' = [watcher EXCEPT ![w].pc = "list", ![w].woken = FALSE]
    /\ UNCHANGED <<job, next, table, writer>>

\* ctx.Done(), or the query of List fails: the stream ends.
Disconnect(w) ==
    /\ watcher[w].pc \in {"list", "wait"}
    /\ watcher' = [watcher EXCEPT ![w].pc = "idle"]
    /\ UNCHANGED <<job, next, table, writer>>

\* The orchestrator stops: its goroutines and its streams are gone, the rows
\* stay, and so does what the clients have got.
Restart ==
    /\ writer' = [p \in Writers |-> IdleWriter]
    /\ watcher' = [w \in Watchers |->
                     IF watcher[w].pc = "closed" THEN watcher[w]
                     ELSE [watcher[w] EXCEPT !.pc = "idle", !.batch = NoRows]]
    /\ UNCHANGED <<job, next, table>>

-----------------------------------------------------------------------------

WriterStep(p) == Read(p) \/ Insert(p) \/ Commit(p) \/ Fill(p) \/ Publish(p) \/ Fail(p)

Next ==
    \/ \E p \in Writers : WriterStep(p) \/ \E status \in Status : Write(p, status)
    \/ \E w \in Watchers :
         Connect(w) \/ List(w) \/ SendPending(w) \/ BreakOff(w) \/ Wake(w) \/ Disconnect(w)
    \/ Listen
    \/ Restart

Spec == Init /\ [][Next]_vars

\* Go runs every goroutine that can run.  Nothing is assumed of clients, of the
\* notifications of PostgreSQL, or of how often the job changes.
Fairness ==
    /\ \A p \in Writers : WF_vars(WriterStep(p))
    /\ \A w \in Watchers : WF_vars(List(w) \/ SendPending(w)) /\ WF_vars(Wake(w))

FairSpec == Spec /\ Fairness

-----------------------------------------------------------------------------
(* What the stream promises.                                               *)

\* No wakeup is lost: when a stream sleeps and nothing will wake it, every
\* event beyond its cursor that has a snapshot is about to be published by the
\* writer that filled it in, or the last List hit its limit.
SleepsOnlyWhenUpToDate ==
    \A w \in Watchers :
      watcher[w].pc = "wait" /\ ~watcher[w].woken /\ ~watcher[w].full =>
        \A i \in Beyond(w) :
          table[i] # Empty =>
            \E p \in Writers : writer[p].pc = "publish" /\ writer[p].id = i

\* Two writers never share an event, and a writer that is about to fill an
\* event in finds it: the UPDATE that follows the INSERT is never lost.
EventHasOneWriter ==
    \A p \in Writers :
      writer[p].pc \in {"commit", "fill", "publish"} =>
        /\ writer[p].pc # "commit" => writer[p].id \in DOMAIN table
        /\ \A q \in Writers \ {p} : writer[q].id # writer[p].id

\* As long as the events are in the order of the changes they show, as they are
\* when the activities of a workflow follow each other, a client never falls back
\* to an older state of the job, across reconnects and restarts.  (Two writers can
\* publish out of order: see the README.)
InOrder ==
    \A i, j \in DOMAIN table :
      i < j /\ table[i] # Empty /\ table[j] # Empty => table[i].version <= table[j].version

NeverFallsBack ==
    [][InOrder => \A w \in Watchers : watcher'[w].shown >= watcher[w].shown]_vars

\* An event whose snapshot is filled in reaches every open stream, unless a List
\* hits its limit: the stream then sleeps with a backlog.
FilledReaches(w, i) ==
    (/\ watcher[w].pc \in {"list", "send", "wait"}
     /\ i \in Beyond(w)
     /\ table[i] # Empty)
      ~> (\/ watcher[w].cursor >= i
          \/ watcher[w].pc \in {"idle", "closed"}
          \/ watcher[w].full)

FilledReachesStreams == \A w \in Watchers, i \in Ids : FilledReaches(w, i)

\* What jobevents.Store writes: every event has the snapshot of its own writer.
EventsAreSound == TypeOK /\ EventHasOneWriter
===============================================================================
