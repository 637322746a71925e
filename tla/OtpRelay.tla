------------------------------- MODULE OtpRelay -------------------------------
(***************************************************************************)
(* whatsapp-otp-relay: an in-memory box of one-time passwords.  Webhook    *)
(* handlers put OTPs in, WaitForOtp callers wait for one that fits them.   *)
(* All of them share otpStore: a mutex, a slice of items and a channel     *)
(* that every submit closes and replaces to wake whoever waits.            *)
(*                                                                         *)
(* One action is one critical section of the mutex, or one step outside    *)
(* it (the select of a waiter, the end of a context, the clock).           *)
(***************************************************************************)
EXTENDS FiniteSets, Integers, Sequences

CONSTANTS
    Waiters,    \* goroutines serving WaitForOtp
    Purposes,   \* purposes of submissions and of waits
    AnyPurpose, \* the purpose "any"
    MaxItems,   \* otpStore.maxItems
    Ttl,        \* otpStore.ttlSeconds
    MaxSubmits, \* bound: submissions in a behaviour
    MaxTime     \* bound: the last instant of the clock

ASSUME RelayAssumption ==
    /\ AnyPurpose \in Purposes
    /\ MaxItems \in Nat \ {0}
    /\ Ttl \in Nat
    /\ MaxSubmits \in Nat
    /\ MaxTime \in Nat

VARIABLES
    log,     \* history: every OTP ever accepted, in the order of arrival
    taken,   \* history: the OTPs that a wait returned
    items,   \* otpStore.items.  The slice keeps the order of arrival, so it
             \* is the set of its items' positions in log
    notify,  \* otpStore.notify: how many channels were made before this one
    wait,    \* each waiter's program counter, arguments and local variables
    now      \* time.Now().Unix()

vars == <<log, taken, items, notify, wait, now>>

Time == 0..MaxTime

Item == [purpose: Purposes, ts: Time]

\* channel is the local variable notify, over says that ctx is done.
Idle == [pc |-> "idle", purpose |-> AnyPurpose, after |-> 0, channel |-> 0, over |-> FALSE]

Wait == [pc: {"idle", "scan", "select"}, purpose: Purposes, after: Time,
         channel: Nat, over: BOOLEAN]

TypeOK ==
    /\ log \in Seq(Item)
    /\ Len(log) <= MaxSubmits
    /\ taken \subseteq DOMAIN log
    /\ items \subseteq DOMAIN log
    /\ notify \in Nat
    /\ wait \in [Waiters -> Wait]
    /\ now \in Time

Init ==
    /\ log = <<>>
    /\ taken = {}
    /\ items = {}
    /\ notify = 0
    /\ wait = [w \in Waiters |-> Idle]
    /\ now = 0

-----------------------------------------------------------------------------

Expired(l, i) == l[i].ts + Ttl < now

\* purgeLocked: what is left of the items s of the log l.
Purge(l, s) ==
    LET kept == {i \in s : ~Expired(l, i)}
    IN  {i \in kept : Cardinality({j \in kept : j > i}) < MaxItems}

\* itemMatchesPurpose
MatchesPurpose(item, purpose) == purpose = AnyPurpose \/ item.purpose \in {AnyPurpose, purpose}

\* The test of the loop in otpStore.wait; after = 0 is "any time".
Wanted(w, item) ==
    item.ts >= wait[w].after /\ MatchesPurpose(item, wait[w].purpose)

Matching(w, s) == {i \in s : Wanted(w, log[i])}

\* Mutant: the waiters are not told.
SubmitSilently(purpose, ts) ==
    /\ Len(log) < MaxSubmits
    /\ log' = Append(log, [purpose |-> purpose, ts |-> ts])
    /\ items' = Purge(log', items \cup {Len(log')})
    /\ UNCHANGED <<taken, notify, wait, now>>

\* otpStore.submit: ts is what the payload says, or the clock.
Submit(purpose, ts) ==
    /\ Len(log) < MaxSubmits
    /\ log' = Append(log, [purpose |-> purpose, ts |-> ts])
    /\ items' = Purge(log', items \cup {Len(log')})
    /\ notify' = notify + 1
    /\ UNCHANGED <<taken, wait, now>>

\* A call of WaitForOtp.
StartWait(w, purpose, after) ==
    /\ wait[w].pc = "idle"
    /\ wait' = [wait EXCEPT ![w] = [Idle EXCEPT !.pc = "scan",
                                                !.purpose = purpose, !.after = after]]
    /\ UNCHANGED <<log, taken, items, notify, now>>

\* Mutant: the item stays in the slice.
TakeCopy(w) ==
    /\ wait[w].pc = "scan"
    /\ LET kept == Purge(log, items)
           fits == Matching(w, kept)
       IN  \E i \in fits :
             /\ \A j \in fits : i <= j
             /\ items' = kept
             /\ taken' = taken \cup {i}
    /\ wait' = [wait EXCEPT ![w] = Idle]
    /\ UNCHANGED <<log, notify, now>>

\* Mutant: the loop also sees what the purge left behind in the backing array.
TakePurged(w) ==
    /\ wait[w].pc = "scan"
    /\ LET fits == Matching(w, DOMAIN log)
       IN  \E i \in fits :
             /\ \A j \in fits : i <= j
             /\ items' = Purge(log, items) \ {i}
             /\ taken' = taken \cup {i}
    /\ wait' = [wait EXCEPT ![w] = Idle]
    /\ UNCHANGED <<log, notify, now>>

\* The loop finds an item: it leaves the slice and the call returns it.
Take(w) ==
    /\ wait[w].pc = "scan"
    /\ LET kept == Purge(log, items)
           fits == Matching(w, kept)
       IN  \E i \in fits :
             /\ \A j \in fits : i <= j
             /\ items' = kept \ {i}
             /\ taken' = taken \cup {i}
    /\ wait' = [wait EXCEPT ![w] = Idle]
    /\ UNCHANGED <<log, notify, now>>

\* The loop finds nothing: the waiter keeps the channel it saw under the lock.
Listen(w) ==
    /\ wait[w].pc = "scan"
    /\ Matching(w, Purge(log, items)) = {}
    /\ items' = Purge(log, items)
    /\ wait' = [wait EXCEPT ![w].pc = "select", ![w].channel = notify]
    /\ UNCHANGED <<log, taken, notify, now>>

\* case <-notify: the channel is closed once the store has a later one.
Wake(w) ==
    /\ wait[w].pc = "select"
    /\ wait[w].channel < notify
    /\ wait' = [wait EXCEPT ![w].pc = "scan"]
    /\ UNCHANGED <<log, taken, items, notify, now>>

\* Mutant: the select has no such case.
GiveUpNever(w) ==
    /\ wait[w].pc = "select"
    /\ FALSE
    /\ UNCHANGED vars

\* case <-ctx.Done(): with both channels ready, select takes either.
GiveUp(w) ==
    /\ wait[w].pc = "select"
    /\ wait[w].over
    /\ wait' = [wait EXCEPT ![w] = Idle]
    /\ UNCHANGED <<log, taken, items, notify, now>>

\* The timeout of the call elapses, or its client goes away.
ContextDone(w) ==
    /\ wait[w].pc # "idle"
    /\ ~wait[w].over
    /\ wait' = [wait EXCEPT ![w].over = TRUE]
    /\ UNCHANGED <<log, taken, items, notify, now>>

\* otpStore.snapshot, for /health and /debug/cache.
Snapshot ==
    /\ items' = Purge(log, items)
    /\ UNCHANGED <<log, taken, notify, wait, now>>

Tick ==
    /\ now < MaxTime
    /\ now' = now + 1
    /\ UNCHANGED <<log, taken, items, notify, wait>>

Next ==
    \/ \E purpose \in Purposes, ts \in Time : Submit(purpose, ts)
    \/ \E w \in Waiters :
         \/ \E purpose \in Purposes, after \in Time : StartWait(w, purpose, after)
         \/ Take(w)
         \/ Listen(w)
         \/ Wake(w)
         \/ GiveUp(w)
         \/ ContextDone(w)
    \/ Snapshot
    \/ Tick

Spec == Init /\ [][Next]_vars

\* The scheduler runs every goroutine that can run, every timer fires, and a
\* select whose two channels are ready again and again takes each some time.
Fairness ==
    \A w \in Waiters :
      /\ WF_vars(Take(w) \/ Listen(w))
      /\ WF_vars(Wake(w))
      /\ WF_vars(ContextDone(w))
      /\ SF_vars(GiveUp(w))

FairSpec == Spec /\ Fairness

-----------------------------------------------------------------------------
(* What the relay promises.                                                *)

\* No wakeup is lost: while a waiter sleeps on a channel nobody has closed,
\* the store holds nothing it would take.  It rests on reading the channel in
\* the critical section of the scan and on replacing it in that of the submit.
NoLostWakeup ==
    \A w \in Waiters :
      wait[w].pc = "select" /\ wait[w].channel = notify => Matching(w, items) = {}

\* An OTP that was handed to one caller is not in the store for another one.
ServedOnce == items \cap taken = {}

\* An accepted OTP disappears for three reasons only: a wait returned it, it is
\* older than the ttl, or maxItems later ones arrived.
NothingVanishes ==
    \A i \in DOMAIN log :
      \/ i \in items \cup taken
      \/ Expired(log, i)
      \/ Len(log) - i >= MaxItems

\* The store never holds more than maxItems OTPs, whatever their age.
StoreIsBounded == Cardinality(items) <= MaxItems

\* Every call of WaitForOtp returns, whatever the other waiters take from it.
WaitReturns == \A w \in Waiters : wait[w].pc # "idle" ~> wait[w].pc = "idle"

-----------------------------------------------------------------------------
(* OtpRelay implements OtpBox.                                             *)

Fate ==
    [i \in 1..MaxSubmits |->
       IF i > Len(log) THEN "unsent"
       ELSE IF i \in taken THEN "served"
       ELSE IF i \in items THEN "pending"
       ELSE "dropped"]

Box == INSTANCE OtpBox WITH Otps <- 1..MaxSubmits, fate <- Fate

\* Every behaviour of the relay is one of the abstract box: at most one caller
\* gets an OTP, and one that was dropped is never handed out.
BoxSpec == Box!BoxSpec

\* What otpStore keeps: an OTP is served once, leaves the store for a reason only, and
\* the store has its bound.
StoreIsSound == TypeOK /\ ServedOnce /\ NothingVanishes /\ StoreIsBounded
===============================================================================
