-------------------------------- MODULE OtpBox --------------------------------
(***************************************************************************)
(* What a one-time-password box promises, with no word about queues,       *)
(* waiters or clocks: every OTP is sent once, handed to at most one caller *)
(* and never handed out after it was dropped.  OtpRelay implements it.     *)
(***************************************************************************)
CONSTANT Otps       \* the OTPs ever sent

VARIABLE fate       \* what became of each of them

Fates == {"unsent", "pending", "served", "dropped"}

BoxTypeOK == fate \in [Otps -> Fates]

BoxInit == fate = [i \in Otps |-> "unsent"]

\* g is f after some pending OTPs were dropped.
Decays(f, g) ==
    /\ g \in [Otps -> Fates]
    /\ \A i \in Otps : g[i] = f[i] \/ (f[i] = "pending" /\ g[i] = "dropped")

Send(i) ==
    /\ fate[i] = "unsent"
    /\ Decays([fate EXCEPT ![i] = "pending"], fate')

Hand(i) ==
    /\ fate[i] = "pending"
    /\ Decays([fate EXCEPT ![i] = "served"], fate')

Drop == Decays(fate, fate')

BoxNext == Drop \/ \E i \in Otps : Send(i) \/ Hand(i)

BoxSpec == BoxInit /\ [][BoxNext]_fate
===============================================================================
