-------------------------------- MODULE OtpWait --------------------------------
(***************************************************************************)
(* How a workflow of the orchestrator gets a one-time password: waitForOTP *)
(* (OTPWaitActivity, the signal of SubmitOTP and a timer race), and then   *)
(* consumeStoredOTP.  The code itself travels through two job parameters,  *)
(* its value and the time it was stored with, that every writer sets in    *)
(* one transaction and every reader reads and deletes one by one.          *)
(*                                                                         *)
(* One job, whose workflow asks for a code up to MaxRounds times with the  *)
(* same parameters, as the GoPay flows do (registrations ask once).  One   *)
(* action is one database call, one signal or one decision of the          *)
(* workflow.  The channel "sms" hands its code over in the result of the   *)
(* activity and is left out.                                               *)
(***************************************************************************)
EXTENDS Integers, Sequences

CONSTANTS
    Users,          \* concurrent calls of SubmitOTP
    MaxAttempts,    \* attempts of FetchManualOTPActivity (3 in the code)
    MaxRounds,      \* bound: codes the workflow asks for
    MaxSubmits,     \* bound: calls of SubmitOTP
    MaxTime         \* bound: the last instant of the clock

ASSUME WaitAssumption ==
    /\ MaxAttempts \in Nat \ {0}
    /\ MaxRounds \in Nat
    /\ MaxSubmits \in Nat
    /\ MaxTime \in Nat \ {0}

VARIABLES
    now,        \* time.Now().Unix()
    times,      \* history: the time stored with each code; codes are its indices
    params,     \* the two job parameters; 0: there is no such row
    signals,    \* buffered signals "manual_otp_available"
    submits,    \* calls of SubmitOTP made
    user,       \* each call of SubmitOTP
    activity,   \* the OTPWaitActivity of each round
    wf,         \* the workflow, and the activity that reads the parameters
    used        \* history: the codes consumeStoredOTP returned, and for whom

vars == <<now, times, params, signals, submits, user, activity, wf, used>>

Time == 0..MaxTime

Params == [otp: Nat, at: Time]

Writer == [pc: {"idle", "store", "notify", "done"}, at: Time]

ActivityPc == {"none", "waiting", "store", "return", "done"}

\* mode tells FetchManualOTPActivity from consumeStoredOTP, which share the
\* reads; future is the result of the round's OTPWaitActivity.
Workflow == [pc: {"idle", "requested", "select", "value", "at", "dropOtp", "dropAt",
                  "useOtp", "useAt", "over"},
             mode: {"fetch", "take"}, round: 0..MaxRounds, after: Time, timer: BOOLEAN,
             future: {"pending", "found", "failed", "done"},
             attempt: 1..MaxAttempts, otp: Nat]

TypeOK ==
    /\ now \in 1..MaxTime
    /\ times \in Seq(Time)
    /\ params \in Params
    /\ signals \in Nat
    /\ submits \in 0..MaxSubmits
    /\ user \in [Users -> Writer]
    /\ activity \in [1..MaxRounds -> [pc: ActivityPc, at: Time]]
    /\ wf \in Workflow
    /\ used \in Seq([otp: Nat, after: Time])

Init ==
    /\ now = 1
    /\ times = <<>>
    /\ params = [otp |-> 0, at |-> 0]
    /\ signals = 0
    /\ submits = 0
    /\ user = [u \in Users |-> [pc |-> "idle", at |-> 0]]
    /\ activity = [r \in 1..MaxRounds |-> [pc |-> "none", at |-> 0]]
    /\ wf = [pc |-> "idle", mode |-> "fetch", round |-> 0, after |-> 0, timer |-> FALSE,
             future |-> "done", attempt |-> 1, otp |-> 0]
    /\ used = <<>>

\* SetParams: both parameters in one transaction.
SetParams(at) ==
    /\ times' = Append(times, at)
    /\ params' = [otp |-> Len(times) + 1, at |-> at]

-----------------------------------------------------------------------------
(* SubmitOTP.                                                              *)

\* The job is RUNNING, and the time is read.
Submit(u) ==
    /\ user[u].pc = "idle"
    /\ submits < MaxSubmits
    /\ wf.pc # "over"
    /\ submits' = submits + 1
    /\ user' = [user EXCEPT ![u] = [pc |-> "store", at |-> now]]
    /\ UNCHANGED <<now, times, params, signals, activity, wf, used>>

SubmitStores(u) ==
    /\ user[u].pc = "store"
    /\ SetParams(user[u].at)
    /\ user' = [user EXCEPT ![u].pc = "notify"]
    /\ UNCHANGED <<now, signals, submits, activity, wf, used>>

\* SignalWorkflow; it is refused once the workflow is over.
SubmitSignals(u) ==
    /\ user[u].pc = "notify"
    /\ wf.pc # "over"
    /\ signals' = signals + 1
    /\ user' = [user EXCEPT ![u].pc = "idle"]
    /\ UNCHANGED <<now, times, params, submits, activity, wf, used>>

SubmitFails(u) ==
    /\ user[u].pc \in {"store", "notify"}
    /\ user' = [user EXCEPT ![u].pc = "idle"]
    /\ UNCHANGED <<now, times, params, signals, submits, activity, wf, used>>

-----------------------------------------------------------------------------
(* OTPWaitActivity of round r.  Cancelling it only takes effect with one of *)
(* its heartbeats: until then it goes on, whatever the workflow does.       *)

Settle(r, result) ==
    wf' = IF r = wf.round /\ wf.future = "pending" THEN [wf EXCEPT !.future = result] ELSE wf

\* The mail service or the relay has a code.
ActivityFinds(r) ==
    /\ activity[r].pc = "waiting"
    /\ activity' = [activity EXCEPT ![r] = [pc |-> "store", at |-> now]]
    /\ UNCHANGED <<now, times, params, signals, submits, user, wf, used>>

ActivityStores(r) ==
    /\ activity[r].pc = "store"
    /\ SetParams(activity[r].at)
    /\ activity' = [activity EXCEPT ![r].pc = "return"]
    /\ UNCHANGED <<now, signals, submits, user, wf, used>>

ActivityReturns(r) ==
    /\ activity[r].pc = "return"
    /\ activity' = [activity EXCEPT ![r].pc = "done"]
    /\ Settle(r, "found")
    /\ UNCHANGED <<now, times, params, signals, submits, user, used>>

\* No code in time, an error, a dead worker, or it learns it was cancelled.
ActivityFails(r) ==
    /\ activity[r].pc \in {"waiting", "store", "return"}
    /\ activity' = [activity EXCEPT ![r].pc = "done"]
    /\ Settle(r, "failed")
    /\ UNCHANGED <<now, times, params, signals, submits, user, used>>

-----------------------------------------------------------------------------
(* waitForOTP.                                                             *)

Goto(pc) == wf' = [wf EXCEPT !.pc = pc]

\* The wait is over; the activity is cancelled.
Found == wf' = [wf EXCEPT !.pc = "value", !.mode = "take", !.future = "done"]

\* A code is requested: what was stored before does not count, unless the
\* service does not say when it sent the code.
Request(after) ==
    /\ wf.pc = "idle"
    /\ wf.round < MaxRounds
    /\ wf' = [wf EXCEPT !.pc = "requested", !.round = wf.round + 1, !.after = after]
    /\ UNCHANGED <<now, times, params, signals, submits, user, activity, used>>

StartWait ==
    /\ wf.pc = "requested"
    /\ wf' = [wf EXCEPT !.pc = "select", !.mode = "fetch", !.timer = FALSE,
                        !.future = "pending"]
    /\ activity' = [activity EXCEPT ![wf.round].pc = "waiting"]
    /\ UNCHANGED <<now, times, params, signals, submits, user, used>>

TimerFires ==
    /\ wf.mode = "fetch"
    /\ wf.pc \notin {"idle", "requested", "over"}
    /\ ~wf.timer
    /\ wf' = [wf EXCEPT !.timer = TRUE]
    /\ UNCHANGED <<now, times, params, signals, submits, user, activity, used>>

\* The select.  Which of several ready cases it runs is left open.
FutureReady ==
    /\ wf.pc = "select"
    /\ \/ wf.future = "found" /\ Found
       \/ wf.future = "failed" /\ wf' = [wf EXCEPT !.future = "done"]
    /\ UNCHANGED <<now, times, params, signals, submits, user, activity, used>>

SignalReady ==
    /\ wf.pc = "select"
    /\ signals > 0
    /\ signals' = signals - 1
    /\ wf' = [wf EXCEPT !.pc = "value", !.attempt = 1]
    /\ UNCHANGED <<now, times, params, submits, user, activity, used>>

\* Mutant: the timer counts only while the activity runs.
TimedOutWithActivity ==
    /\ wf.pc = "select"
    /\ wf.timer
    /\ wf.future # "done"
    /\ \E pc \in {"idle", "over"} : wf' = [wf EXCEPT !.pc = pc, !.future = "done"]
    /\ UNCHANGED <<now, times, params, signals, submits, user, activity, used>>

\* The caller gives up, or requests another code.
TimedOut ==
    /\ wf.pc = "select"
    /\ wf.timer
    /\ \E pc \in {"idle", "over"} : wf' = [wf EXCEPT !.pc = pc, !.future = "done"]
    /\ UNCHANGED <<now, times, params, signals, submits, user, activity, used>>

-----------------------------------------------------------------------------
(* FetchManualOTPActivity (mode "fetch") and consumeStoredOTP ("take").     *)

\* Mutant: any time will do.
FreshAny(at) == wf.after = 0 \/ at # 0

\* SubmittedAfter
Fresh(at) == wf.after = 0 \/ (at # 0 /\ at >= wf.after)

\* Where the workflow goes when nothing usable is stored.
NothingStored == IF wf.mode = "fetch" THEN "select" ELSE "over"

ReadValue ==
    /\ wf.pc = "value"
    /\ wf' = [wf EXCEPT !.pc = IF params.otp = 0 THEN NothingStored ELSE "at",
                        !.otp = params.otp]
    /\ UNCHANGED <<now, times, params, signals, submits, user, activity, used>>

\* The time is read on its own; an error of this read counts as "stale".
ReadTime ==
    /\ wf.pc = "at"
    /\ \/ /\ Fresh(params.at)
          /\ IF wf.mode = "fetch" THEN Found ELSE Goto("useOtp")
       \/ /\ wf.after # 0
          /\ Goto("dropOtp")
    /\ UNCHANGED <<now, times, params, signals, submits, user, activity, used>>

\* DeleteParam: an error is ignored.
DropOtp ==
    /\ wf.pc = "dropOtp"
    /\ params' \in {params, [params EXCEPT !.otp = 0]}
    /\ Goto("dropAt")
    /\ UNCHANGED <<now, times, signals, submits, user, activity, used>>

DropTime ==
    /\ wf.pc = "dropAt"
    /\ params' \in {params, [params EXCEPT !.at = 0]}
    /\ Goto(NothingStored)
    /\ UNCHANGED <<now, times, signals, submits, user, activity, used>>

\* Mutant: an error of the delete is ignored.
UseOtpIgnoresError ==
    /\ wf.pc = "useOtp"
    /\ params' \in {params, [params EXCEPT !.otp = 0]}
    /\ Goto("useAt")
    /\ UNCHANGED <<now, times, signals, submits, user, activity, used>>

\* The code is deleted before it is used, and not used when that fails.
UseOtp ==
    /\ wf.pc = "useOtp"
    /\ params' = [params EXCEPT !.otp = 0]
    /\ Goto("useAt")
    /\ UNCHANGED <<now, times, signals, submits, user, activity, used>>

\* consumeStoredOTP returns the code; the flow may go on to another request.
UseTime ==
    /\ wf.pc = "useAt"
    /\ params' \in {params, [params EXCEPT !.at = 0]}
    /\ used' = Append(used, [otp |-> wf.otp, after |-> wf.after])
    /\ \E pc \in {"idle", "over"} : Goto(pc)
    /\ UNCHANGED <<now, times, signals, submits, user, activity>>

\* The attempt fails: a fetch is tried again from its first call and given up
\* in the end, a take is not.
ReadFails ==
    /\ wf.pc \in {"value", "at", "dropOtp", "dropAt", "useOtp", "useAt"}
    /\ wf' = CASE wf.mode = "take" -> [wf EXCEPT !.pc = "over"]
               [] wf.attempt < MaxAttempts ->
                    [wf EXCEPT !.pc = "value", !.attempt = wf.attempt + 1]
               [] OTHER -> [wf EXCEPT !.pc = "select"]
    /\ UNCHANGED <<now, times, params, signals, submits, user, activity, used>>

-----------------------------------------------------------------------------

Tick ==
    /\ now < MaxTime
    /\ now' = now + 1
    /\ UNCHANGED <<times, params, signals, submits, user, activity, wf, used>>

Select == FutureReady \/ SignalReady \/ TimedOut

ReadStep ==
    ReadValue \/ ReadTime \/ DropOtp \/ DropTime \/ UseOtp \/ UseTime \/ ReadFails

ActivityStep(r) ==
    ActivityFinds(r) \/ ActivityStores(r) \/ ActivityReturns(r) \/ ActivityFails(r)

Next ==
    \/ \E u \in Users : Submit(u) \/ SubmitStores(u) \/ SubmitSignals(u) \/ SubmitFails(u)
    \/ \E r \in 1..MaxRounds : ActivityStep(r)
    \/ \E after \in {0, now} : Request(after)
    \/ StartWait \/ TimerFires \/ Select \/ ReadStep \/ Tick

Spec == Init /\ [][Next]_vars

\* Temporal runs the workflow whenever something is ready, fires its timer and
\* ends its activities.  Nothing is assumed of users and of the clock.
Fairness ==
    /\ WF_vars(StartWait)
    /\ WF_vars(TimerFires)
    /\ WF_vars(Select)
    /\ WF_vars(ReadStep)

FairSpec == Spec /\ Fairness

-----------------------------------------------------------------------------
(* Properties.                                                             *)

\* No code is used twice, in the same round or in a later one, although codes
\* stay in the parameters when a round does not end with its use.
UsedOnce == \A i, j \in DOMAIN used : i # j => used[i].otp # used[j].otp

\* A wait reports a code only when one was stored that is no older than its
\* request: signals and codes of an earlier round, or sent too early, do not
\* end it.
FoundIsFresh ==
    wf.mode = "take" /\ wf.pc \notin {"idle", "requested", "over"} =>
      \E n \in DOMAIN times : times[n] >= wf.after

\* waitForOTP returns: neither a failed activity nor signals without a code
\* keep it from its timer.
WaitEnds == wf.pc = "requested" ~> wf.pc \in {"idle", "over"}

\* consumeStoredOTP hands out no code twice, with parameters, workflow and activities
\* of their types.
CodesAreSound == TypeOK /\ UsedOnce
===============================================================================
