------------------------------ MODULE GoPayAccount ------------------------------
(***************************************************************************)
(* The sessions of gopay-app.                                              *)
(*                                                                         *)
(* The service keeps nothing between calls: a caller loads the session of  *)
(* its user from the state store, passes it to each call, gets the next    *)
(* one back, and saves it in the end, or does not.  The store has no       *)
(* versions; bot, dashboard and workflows of one user write to the same    *)
(* row.  This module has one user, its row, and the accounts the provider  *)
(* has for it.                                                             *)
(*                                                                         *)
(* Tokens are the accounts they open.  The user logs in and signs up with  *)
(* one phone, "main", and gives an account a temporary phone later.  The   *)
(* answers of the provider, expired tokens and one-time codes that came    *)
(* too late among them, are choices.                                       *)
(***************************************************************************)
EXTENDS Naturals

CONSTANTS
    Clients,        \* calls of the API and workflows that work for the user
    Accounts,       \* accounts the provider can open for the user
    Temps,          \* temporary phones
    None,           \* no account, no phone
    MaxPhoneUses,   \* changes to one temporary phone before it is PHONE_EXHAUSTED
    MaxCalls        \* bound: calls of each client that change its unsaved session

ASSUME GoPayAssumption ==
    /\ None \notin Accounts \cup Temps
    /\ Temps \cap {"unused", "main", "gone"} = {}
    /\ MaxPhoneUses \in Nat
    /\ MaxCalls \in [Clients -> Nat]

VARIABLES
    saved,      \* the row of the state store
    client,     \* each client: whether it works, its session, what it missed
    phone,      \* provider: the phone of each account
    pins,       \* provider: accounts that have a PIN
    moves,      \* history: accounts that got each temporary phone
    fault       \* history: the worst that kept the row from following the provider

vars == <<saved, client, phone, pins, moves, fault>>

Stages == {"idle", "login", "login_otp_pending", "signup", "signup_otp_pending",
           "signup_pin_required", "signup_pin_otp_pending", "ready", "consumed",
           "change_phone_otp_pending", "phone_changed", "deactivate_otp_pending",
           "deactivated"}

MaybeAccount == Accounts \cup {None}

\* login, signup, pin, change: the tokens of one-time codes that are waited for.
Session == [stage: Stages, active: MaybeAccount, tmp: MaybeAccount,
            login: MaybeAccount, signup: BOOLEAN, pin: MaybeAccount,
            change: MaybeAccount, changeTo: Temps \cup {None},
            uses: [Temps -> 0..MaxPhoneUses], deactivated: BOOLEAN]

Client == [busy: BOOLEAN, state: Session, unsaved: Nat, stale: BOOLEAN]

\* "overwritten": a temporary token was replaced by the next one; "lost": a session
\* was not saved, was saved over a newer one or was cleared, or the provider signed an
\* account up, moved or deactivated one and the session does not have it.
Fault == {"none", "overwritten", "lost"}

SessionTypeOK ==
    /\ saved \in Session
    /\ client \in [Clients -> Client]
    /\ phone \in [Accounts -> Temps \cup {"unused", "main", "gone"}]
    /\ pins \subseteq Accounts
    /\ moves \in [Temps -> Nat]
    /\ fault \in Fault

Empty == [stage |-> "idle", active |-> None, tmp |-> None, login |-> None,
          signup |-> FALSE, pin |-> None, change |-> None, changeTo |-> None,
          uses |-> [t \in Temps |-> 0], deactivated |-> FALSE]

Idle == [busy |-> FALSE, state |-> Empty, unsaved |-> 0, stale |-> FALSE]

Init ==
    /\ saved = Empty
    /\ client = [c \in Clients |-> Idle]
    /\ phone = [a \in Accounts |-> "unused"]
    /\ pins = {}
    /\ moves = [t \in Temps |-> 0]
    /\ fault = "none"

-----------------------------------------------------------------------------
(* Sessions: what the helpers of gopay_app.py make of one.                  *)

Live(a) == a # None /\ phone[a] \notin {"unused", "gone"}

\* ensure_access_token: a token that ran out is refreshed, so an account that lives
\* has one.
HasToken(s) == Live(s.active)

OnPhone(p) == {a \in Accounts : phone[a] = p}

ClearLogin(s) ==
    [s EXCEPT !.login = None,
              !.stage = IF @ \in {"login", "login_otp_pending"}
                        THEN IF s.deactivated THEN "deactivated" ELSE "idle"
                        ELSE @]

\* The stage a signup that is over leaves behind.
NoSignup(s) == IF s.deactivated /\ s.active = None THEN "deactivated" ELSE "idle"

ClearSignup(s) ==
    [s EXCEPT !.signup = FALSE, !.pin = None,
              !.stage = IF @ \in {"signup", "signup_otp_pending", "signup_pin_required",
                                  "signup_pin_otp_pending"}
                        THEN NoSignup(s) ELSE @]

ClearSignupOtp(s) ==
    [s EXCEPT !.signup = FALSE,
              !.stage = IF @ \in {"signup", "signup_otp_pending"} THEN NoSignup(s) ELSE @]

ClearSignupPin(s) ==
    [s EXCEPT !.pin = None,
              !.stage = IF @ # "signup_pin_otp_pending" THEN @
                        ELSE IF s.active # None THEN "signup_pin_required" ELSE "idle"]

\* A code that is waited for is still good, or has expired.
ExpireLogin(s) ==
    {s} \cup {ClearLogin(t) : t \in {u \in {s} : u.stage = "login_otp_pending"}}

ExpireSignup(s) ==
    {s} \cup {ClearSignupOtp(t) : t \in {u \in {s} : u.stage = "signup_otp_pending"}}
        \cup {ClearSignupPin(t) : t \in {u \in {s} : u.stage = "signup_pin_otp_pending"}}

Expire(s) == UNION {ExpireSignup(t) : t \in ExpireLogin(s)}

\* check_token_valid found a token that works, refreshed or not.
Verified(s) == [s EXCEPT !.stage = "ready"]

CheckToken(s) == {s} \cup {Verified(t) : t \in {u \in {s} : HasToken(u)}}

PersistLoginStart(s) == [s EXCEPT !.stage = "login"]

PersistLoginOtp(s, a) == [s EXCEPT !.login = a, !.stage = "login_otp_pending"]

PersistLoginReady(s, a) == [s EXCEPT !.active = a, !.login = None, !.stage = "ready"]

\* start_login: it may stop at every request; an account with a PIN can get in,
\* at once or with a code.
StartLogin(s) ==
    LET begun == PersistLoginStart(s)
    IN  {s, begun} \cup UNION {{PersistLoginOtp(begun, a), PersistLoginReady(begun, a)} :
                                  a \in OnPhone("main") \cap pins}

\* Mutant: a signup starts from a clean session.
PersistSignupClean(s) == [Empty EXCEPT !.tmp = s.tmp, !.uses = s.uses, !.stage = "signup"]

\* A signup forgets the one before and the login that was waiting.
PersistSignupStart(s) == [ClearLogin(ClearSignup(s)) EXCEPT !.stage = "signup"]

PersistSignupOtp(s) == [s EXCEPT !.signup = TRUE, !.stage = "signup_otp_pending"]

StartSignup(s) ==
    {s, PersistSignupStart(s), PersistSignupOtp(PersistSignupStart(s))}

PersistSignupComplete(s, a) ==
    [s EXCEPT !.active = a, !.signup = FALSE, !.stage = "signup_pin_required"]

\* The keys of the signup are dropped when the account is ready.
PinSettled(s) == [s EXCEPT !.stage = "ready", !.signup = FALSE, !.pin = None]

\* Mutant: the active token is copied and not cleared.
CopyActiveTokens(s) == [s EXCEPT !.tmp = s.active]

\* migrate_active_tokens_to_tmp: the active token becomes the temporary one.
MigrateActiveTokens(s) == [s EXCEPT !.tmp = s.active, !.active = None]

-----------------------------------------------------------------------------
(* The calls.  Each works on the session its client sent.  Those that leave  *)
(* it as it is, but for times and profile fields, are no actions:           *)
(* SignupRetry, CheckPhone, GetQrId, GetReadyAccountToken, ClaimEnvelope,   *)
(* ReplayLinkPayment, CheckDeactivation.                                    *)

State(c) == client[c].state

\* What a call returns is the session of the client from then on.
Return(c, s) ==
    /\ client' = [client EXCEPT ![c].state = s,
                                ![c].unsaved = IF s = State(c) THEN @ ELSE @ + 1]
    /\ UNCHANGED saved

\* Most calls leave the accounts at the provider as they are.
Answers(c, sessions) ==
    /\ \E s \in sessions : Return(c, s)
    /\ UNCHANGED <<phone, pins, moves, fault>>

LoginStart(c) ==
    Answers(c, UNION
        {LET begin == IF s.stage = "login_otp_pending" /\ s.login # None
                      THEN {s} ELSE StartLogin(s)
         IN  IF s.stage \in {"ready", "consumed"}
             THEN begin \cup CheckToken(s)
             ELSE begin : s \in ExpireLogin(State(c))})

\* complete_login, when the provider took the code and when it did not.
LoggedIn(s) ==
    {s} \cup {PersistLoginReady(t, t.login) :
                 t \in {u \in {s} : u.stage = "login_otp_pending" /\ Live(u.login)}}

LoginComplete(c) == Answers(c, UNION {LoggedIn(s) : s \in ExpireLogin(State(c))})

SignupStart(c) == Answers(c, UNION {StartSignup(s) : s \in Expire(State(c))})

\* complete_signup: the new account has no PIN yet.  Its token is stored before
\* the refresh that may fail the call.  A request is sent once: when its answer is
\* lost, the call fails and the session stays, whatever the provider did.
SignedUp(c, s) ==
    \/ Return(c, s) /\ UNCHANGED <<phone, pins, moves, fault>>
    \/ /\ s.stage = "signup_otp_pending"
       /\ OnPhone("main") = {}
       /\ \E a \in OnPhone("unused") :
             /\ phone' = [phone EXCEPT ![a] = "main"]
             /\ \/ Return(c, PersistSignupComplete(s, a)) /\ UNCHANGED fault
                \/ Return(c, s) /\ fault' = "lost"
       /\ UNCHANGED <<pins, moves>>

SignupComplete(c) == \E s \in ExpireSignup(State(c)) : SignedUp(c, s)

\* start_signup_pin does not look at the stage.
StartSignupPin(s) ==
    {s} \cup {IF t.active \in pins
              THEN PinSettled(t)
              ELSE [t EXCEPT !.pin = t.active, !.stage = "signup_pin_otp_pending"] :
                 t \in {u \in {s} : HasToken(u)}}

CreatePinStart(c) == Answers(c, UNION {StartSignupPin(s) : s \in ExpireSignup(State(c))})

\* The new code replaces the old one; all that can be seen is that one expired.
CreatePinRetry(c) == Answers(c, ExpireSignup(State(c)))

\* complete_signup_pin, with an answer that may be lost.
PinCreated(c, s) ==
    \/ Return(c, s) /\ UNCHANGED <<phone, pins, moves, fault>>
    \/ /\ s.stage = "signup_pin_otp_pending"
       /\ HasToken(s)
       /\ s.pin = s.active
       /\ pins' = pins \cup {s.active}
       /\ Return(c, PinSettled(s)) \/ Return(c, s)
       /\ UNCHANGED <<phone, moves, fault>>

CreatePinComplete(c) == \E s \in ExpireSignup(State(c)) : PinCreated(c, s)

\* AuthStart picks the step up at the stage it finds.  A check of the token makes
\* every stage "ready", but the two of the PIN are put back.
Authenticate(s) ==
    IF s.stage \in {"signup_pin_required", "signup_pin_otp_pending"}
    THEN {[t EXCEPT !.stage = s.stage] : t \in CheckToken(s)}
    ELSE CheckToken(s)
         \cup (IF s.stage \in {"login_otp_pending", "signup_otp_pending"}
               THEN {s}
               ELSE StartLogin(s)
                    \cup (IF OnPhone("main") = {}
                          THEN StartSignup([s EXCEPT !.stage = "login"]) ELSE {}))

AuthStart(c) == Answers(c, UNION {Authenticate(s) : s \in Expire(State(c))})

\* AuthComplete goes by the stage as well.
AuthComplete(c) ==
    \E s \in Expire(State(c)) :
        \/ s.stage = "ready" /\ Answers(c, CheckToken(s))
        \/ s.stage = "login_otp_pending" /\ Answers(c, LoggedIn(s))
        \/ s.stage = "signup_otp_pending" /\ SignedUp(c, s)
        \/ s.stage = "signup_pin_otp_pending" /\ PinCreated(c, s)
        \/ /\ s.stage \notin {"ready", "login_otp_pending", "signup_otp_pending",
                              "signup_pin_otp_pending"}
           /\ Answers(c, {s})

CheckTokenValid(c) == Answers(c, CheckToken(State(c)))

\* Status reports what expired.
Status(c) == Answers(c, Expire(State(c)))

Unlink(c) ==
    /\ HasToken(State(c))
    /\ Answers(c, {[State(c) EXCEPT !.stage = "consumed"]})

\* The provider wants the PIN and refuses a phone that has an account.
ChangePhoneStart(c) ==
    LET s == State(c) IN
    \E t \in Temps :
        /\ s.uses[t] < MaxPhoneUses
        /\ HasToken(s)
        /\ s.active \in pins
        /\ OnPhone(t) = {}
        /\ Answers(c, {[s EXCEPT !.change = s.active, !.changeTo = t,
                                 !.stage = "change_phone_otp_pending"]})

\* The retry takes the stage back, whatever came in between.
ChangePhoneRetry(c) ==
    LET s == State(c) IN
    /\ s.change # None
    /\ HasToken(s)
    /\ Answers(c, {[s EXCEPT !.stage = "change_phone_otp_pending"]})

\* Mutant: the use of the phone is not counted.
ChangePhoneUncounted(c) ==
    LET s == State(c) IN
    /\ s.change # None
    /\ s.change = s.active
    /\ phone[s.active] = "main"
    /\ OnPhone(s.changeTo) = {}
    /\ phone' = [phone EXCEPT ![s.active] = s.changeTo]
    /\ moves' = [moves EXCEPT ![s.changeTo] = @ + 1]
    /\ Return(c, [MigrateActiveTokens(s) EXCEPT
                      !.change = None, !.changeTo = None, !.stage = "phone_changed"])
    /\ fault' = IF fault = "none" /\ Live(s.tmp) THEN "overwritten" ELSE fault
    /\ UNCHANGED pins

\* A code is good for the account it was asked for.  The provider changes the phone
\* when it takes the code; the call fails all the same when the profile does not show
\* the new phone in time, or when the country cannot be synchronised.
ChangePhoneComplete(c) ==
    LET s == State(c) IN
    /\ s.change # None
    /\ s.change = s.active
    /\ phone[s.active] = "main"
    /\ OnPhone(s.changeTo) = {}
    /\ phone' = [phone EXCEPT ![s.active] = s.changeTo]
    /\ moves' = [moves EXCEPT ![s.changeTo] = @ + 1]
    /\ \/ /\ Return(c, s)
          /\ fault' = "lost"
       \/ /\ Return(c, [MigrateActiveTokens(s) EXCEPT
                            !.uses[s.changeTo] = @ + 1, !.change = None, !.changeTo = None,
                            !.stage = "phone_changed"])
          /\ fault' = IF fault = "none" /\ Live(s.tmp) THEN "overwritten" ELSE fault
    /\ UNCHANGED pins

\* The two calls of the deactivation go by the temporary token, not by the stage.
DeactivateStart(c) ==
    /\ Live(State(c).tmp)
    /\ Answers(c, {[State(c) EXCEPT !.stage = "deactivate_otp_pending"]})

\* Mutant: the account that is logged in is deactivated.
DeactivateActive(c) ==
    LET s == State(c) IN
    /\ Live(s.tmp)
    /\ HasToken(s)
    /\ phone' = [phone EXCEPT ![s.active] = "gone"]
    /\ Return(c, [s EXCEPT !.tmp = None, !.deactivated = TRUE, !.stage = "deactivated"])
    /\ UNCHANGED <<pins, moves, fault>>

\* When the answer is lost, the session keeps the token of an account that is gone.
DeactivateComplete(c) ==
    LET s == State(c) IN
    /\ Live(s.tmp)
    /\ phone' = [phone EXCEPT ![s.tmp] = "gone"]
    /\ \/ /\ Return(c, [s EXCEPT !.tmp = None, !.deactivated = TRUE, !.stage = "deactivated"])
          /\ UNCHANGED fault
       \/ Return(c, s) /\ fault' = "lost"
    /\ UNCHANGED <<pins, moves>>

-----------------------------------------------------------------------------
(* The callers and the state store.                                         *)

GetGoPayState(c) ==
    /\ ~client[c].busy
    /\ client' = [client EXCEPT ![c] = [Idle EXCEPT !.busy = TRUE, !.state = saved]]
    /\ UNCHANGED <<saved, phone, pins, moves, fault>>

\* What others have in hand is stale when the row changes.
Store(s, c) ==
    /\ saved' = s
    /\ client' = [d \in Clients |->
                     IF d = c
                     THEN [client[d] EXCEPT !.unsaved = 0, !.stale = FALSE]
                     ELSE [client[d] EXCEPT !.stale = client[d].busy /\ (@ \/ s # saved)]]

\* The last writer wins.  A workflow goes on with the session it has saved.
UpsertGoPayState(c) ==
    /\ client[c].busy
    /\ Store(State(c), c)
    /\ fault' = IF client[c].stale THEN "lost" ELSE fault
    /\ UNCHANGED <<phone, pins, moves>>

\* GoPayUserClearState, and the workflow that has changed the phone.
DeleteGoPayState(c) ==
    /\ ~client[c].busy
    /\ Store(Empty, c)
    /\ fault' = IF saved = Empty THEN fault ELSE "lost"
    /\ UNCHANGED <<phone, pins, moves>>

\* The client is done; a failed save, a lost answer and a workflow that fails in
\* between take the session with them.
Leave(c) ==
    /\ client[c].busy
    /\ client' = [client EXCEPT ![c] = Idle]
    /\ fault' = IF client[c].unsaved > 0 THEN "lost" ELSE fault
    /\ UNCHANGED <<saved, phone, pins, moves>>

Call(c) ==
    /\ client[c].busy
    /\ client[c].unsaved < MaxCalls[c]
    /\ \/ LoginStart(c) \/ LoginComplete(c) \/ SignupStart(c) \/ SignupComplete(c)
       \/ CreatePinStart(c) \/ CreatePinRetry(c) \/ CreatePinComplete(c)
       \/ AuthStart(c) \/ AuthComplete(c) \/ CheckTokenValid(c) \/ Status(c) \/ Unlink(c)
       \/ ChangePhoneStart(c) \/ ChangePhoneRetry(c) \/ ChangePhoneComplete(c)
       \/ DeactivateStart(c) \/ DeactivateComplete(c)

Next ==
    \E c \in Clients :
        Call(c) \/ GetGoPayState(c) \/ UpsertGoPayState(c) \/ DeleteGoPayState(c) \/ Leave(c)

Spec == Init /\ [][Next]_vars

-----------------------------------------------------------------------------
(* Properties                                                               *)

HasItsTokens(s) ==
    /\ s.stage = "login_otp_pending" => s.login # None
    /\ s.stage = "signup_otp_pending" => s.signup
    /\ s.stage = "signup_pin_otp_pending" => s.pin # None /\ s.pin = s.active
    /\ s.stage = "change_phone_otp_pending" => s.change # None
    /\ s.stage \in {"phone_changed", "deactivate_otp_pending"} => s.tmp # None
    /\ s.stage \in {"ready", "consumed", "signup_pin_required"} => s.active # None
    /\ (s.change # None) = (s.changeTo # None)

\* No sequence of calls, expired codes, stale saves and checks that reset the
\* stage leads to a session whose stage asks for a step its tokens cannot take:
\* the calls keep stage and tokens apart, and few of them look at both.
StageHasItsTokens ==
    /\ HasItsTokens(saved)
    /\ \A c \in Clients : HasItsTokens(State(c))

\* Only an account that has left the phone of the user is deactivated, with
\* whatever session, however old, the call came.
OnlyMovedAccountsAreDeactivated ==
    [][\A a \in Accounts : phone[a] # "gone" /\ phone'[a] = "gone" => phone[a] \in Temps]_vars

\* Where the tokens of account a still are.
Kept(a) == \E s \in {saved} \cup {State(c) : c \in Clients} : a \in {s.active, s.tmp}

\* An account the provider has is reachable by some session, unless the row was
\* cleared, a session was not saved or saved over a newer one, the answer to a
\* signup, a change of phone or a deactivation was lost, or a second change of
\* phone took the place of the first before its account was deactivated.
AccountsAreKept ==
    (\E a \in Accounts : Live(a) /\ ~Kept(a)) => fault # "none"

\* As long as sessions are neither lost nor stale and no answer of the provider to
\* a signup, a change of phone or a deactivation is lost, the row knows which account
\* is where when nobody has work to save: the active token opens the one on the phone
\* of the user, the temporary token one that moved and still lives.
SessionKnowsThePhones ==
    /\ fault # "lost"
    /\ \A c \in Clients : client[c].unsaved = 0
    => /\ saved.active # None => phone[saved.active] = "main"
       /\ saved.tmp # None => phone[saved.tmp] \in Temps

\* A client that works on the row as it is, while no other has work to save.
WorksAlone(c) ==
    /\ ~client[c].stale
    /\ \A d \in Clients \ {c} : client[d].unsaved = 0

\* A temporary phone takes no more accounts than it may, though the count is read
\* when a change starts and raised when another call completes it, as long as
\* clients work one after the other: two that start from one row count the same.
PhoneUseIsBounded ==
    fault # "lost" /\ (\A c \in Clients : client[c].unsaved > 0 => WorksAlone(c))
        => \A t \in Temps : moves[t] <= MaxPhoneUses

\* The session row and the sessions of running calls: stage, tokens and phones agree.
SessionIsSound == SessionTypeOK /\ StageHasItsTokens /\ SessionKnowsThePhones
=================================================================================
