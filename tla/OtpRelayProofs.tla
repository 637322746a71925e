---------------------------- MODULE OtpRelayProofs ----------------------------
(***************************************************************************)
(* Proofs about OtpRelay, for any number of waiters, submissions and       *)
(* instants, any capacity and any ttl.                                     *)
(***************************************************************************)
EXTENDS OtpRelay, FiniteSetTheorems, WellFoundedInduction, TLAPS

-----------------------------------------------------------------------------
(* purgeLocked.                                                            *)

LEMMA PurgeIsSubset ==
    ASSUME NEW l, NEW s
    PROVE  Purge(l, s) \subseteq s
  BY DEF Purge

\* An item that purgeLocked removes is expired or followed by maxItems others.
LEMMA PurgeRemoves ==
    ASSUME NEW l \in Seq(Item), NEW s \in SUBSET DOMAIN l, NEW i \in s \ Purge(l, s),
           TypeOK
    PROVE  Expired(l, i) \/ Len(l) - i >= MaxItems
  <1> DEFINE kept == {j \in s : ~Expired(l, j)}
             later == {j \in kept : j > i}
  <1>1. SUFFICES ASSUME ~Expired(l, i)
                 PROVE  Len(l) - i >= MaxItems
    OBVIOUS
  <1>2. i \in kept /\ ~(Cardinality(later) < MaxItems)
    BY <1>1 DEF Purge
  <1>3. Len(l) \in Nat /\ i \in 1..Len(l) /\ DOMAIN l = 1..Len(l)
    OBVIOUS
  <1>4. later \subseteq (i + 1)..Len(l)
    BY <1>3
  <1>5. IsFiniteSet((i + 1)..Len(l)) /\ Cardinality((i + 1)..Len(l)) = Len(l) - i
    <2>1. i + 1 \in Int /\ Len(l) \in Int
      BY <1>3
    <2>2. /\ IsFiniteSet((i + 1)..Len(l))
          /\ Cardinality((i + 1)..Len(l))
               = IF i + 1 > Len(l) THEN 0 ELSE Len(l) - (i + 1) + 1
      BY <2>1, FS_Interval
    <2> QED
      BY <1>3, <2>2
  <1>6. Cardinality(later) <= Len(l) - i /\ Cardinality(later) \in Nat
    <2> HIDE DEF later
    <2> QED
      BY <1>4, <1>5, FS_Subset, FS_CardinalityType
  <1> QED
    BY <1>2, <1>3, <1>6, RelayAssumption

-----------------------------------------------------------------------------
(* The inductive invariant.  NoLostWakeup needs to know that no waiter     *)
(* holds a channel of the future.                                          *)

ChannelIsPast == \A w \in Waiters : wait[w].channel <= notify

IInv ==
    /\ TypeOK
    /\ ChannelIsPast
    /\ NoLostWakeup
    /\ ServedOnce
    /\ NothingVanishes

LEMMA InitIInv == Init => IInv
  BY RelayAssumption
  DEF Init, IInv, TypeOK, Time, Wait, Idle, ChannelIsPast, NoLostWakeup, ServedOnce,
      NothingVanishes

\* Nothing that was in the store vanishes when it is purged ...
LEMMA PurgeAccounts ==
    ASSUME TypeOK, NothingVanishes, NEW i \in DOMAIN log
    PROVE  \/ i \in Purge(log, items) \cup taken
           \/ Expired(log, i)
           \/ Len(log) - i >= MaxItems
  <1>1. CASE i \in items \ Purge(log, items)
    BY <1>1, PurgeRemoves DEF TypeOK
  <1>2. CASE i \notin items \ Purge(log, items)
    BY <1>2 DEF NothingVanishes
  <1> QED
    BY <1>1, <1>2

\* ... nor when a submit appends an item and purges.
LEMMA SubmitAccounts ==
    ASSUME IInv, NEW purpose \in Purposes, NEW ts \in Time, Submit(purpose, ts)
    PROVE  NothingVanishes'
  <1> DEFINE item == [purpose |-> purpose, ts |-> ts]
             s == items \cup {Len(log')}
  <1> USE DEF IInv, TypeOK
  <1>1. /\ log' = Append(log, item) /\ item \in Item
        /\ items' = Purge(log', s) /\ taken' = taken /\ now' = now
    BY DEF Submit, Item
  <1>2. /\ log' \in Seq(Item) /\ Len(log') = Len(log) + 1 /\ Len(log) \in Nat
        /\ DOMAIN log' = 1..Len(log) + 1 /\ DOMAIN log = 1..Len(log)
        /\ \A i \in DOMAIN log : log'[i] = log[i]
    BY <1>1
  <1>3. s \in SUBSET DOMAIN log'
    BY <1>2
  <1> SUFFICES ASSUME NEW i \in DOMAIN log'
               PROVE  \/ i \in items' \cup taken'
                      \/ Expired(log, i)'
                      \/ Len(log') - i >= MaxItems
    BY DEF NothingVanishes
  <1>4. Expired(log, i)' <=> Expired(log', i)
    BY <1>1 DEF Expired
  <1> HIDE DEF s, item
  <1>5. CASE i \in s \ Purge(log', s)
    BY <1>2, <1>3, <1>4, <1>5, PurgeRemoves
  <1>6. CASE i \in s /\ i \in Purge(log', s)
    BY <1>1, <1>6
  <1>7. CASE i \notin s
    <2>1. i \in DOMAIN log /\ i \notin items
      BY <1>2, <1>7 DEF s
    <2>2. i \in taken \/ Expired(log, i) \/ Len(log) - i >= MaxItems
      BY <2>1 DEF NothingVanishes
    <2>3. Expired(log, i) => Expired(log', i)
      BY <1>2, <2>1 DEF Expired
    <2>4. Len(log) - i >= MaxItems => Len(log') - i >= MaxItems
      BY <1>2, <2>1, RelayAssumption
    <2> QED
      BY <1>1, <1>4, <2>2, <2>3, <2>4
  <1> QED
    BY <1>5, <1>6, <1>7

LEMMA SubmitIInv ==
    ASSUME IInv, NEW purpose \in Purposes, NEW ts \in Time, Submit(purpose, ts)
    PROVE  IInv'
  <1> DEFINE item == [purpose |-> purpose, ts |-> ts]
  <1> USE DEF IInv
  <1>1. /\ log' = Append(log, item) /\ item \in Item /\ Len(log) < MaxSubmits
        /\ items' \subseteq items \cup {Len(log')}
        /\ taken' = taken /\ now' = now /\ notify' = notify + 1 /\ wait' = wait
    BY PurgeIsSubset DEF Submit, Item
  <1>2. /\ log' \in Seq(Item) /\ Len(log') = Len(log) + 1 /\ Len(log) \in Nat
        /\ DOMAIN log' = 1..Len(log) + 1 /\ DOMAIN log = 1..Len(log)
    BY <1>1 DEF TypeOK
  <1>3. TypeOK'
    BY <1>1, <1>2, RelayAssumption DEF TypeOK
  <1>4. ChannelIsPast' /\ \A w \in Waiters : wait'[w].channel # notify'
    BY <1>1 DEF ChannelIsPast, TypeOK, Wait
  <1>5. NoLostWakeup'
    BY <1>4 DEF NoLostWakeup
  <1>6. ServedOnce'
    <2>1. Len(log') \notin taken
      BY <1>2 DEF TypeOK
    <2> QED
      BY <1>1, <2>1 DEF ServedOnce
  <1> QED
    BY <1>3, <1>4, <1>5, <1>6, SubmitAccounts

\* A step that takes no item, keeps log, notify and now, and purges or not.
LEMMA QuietIInv ==
    ASSUME IInv, UNCHANGED <<log, taken, notify, now>>,
           items' = items \/ items' = Purge(log, items),
           wait' \in [Waiters -> Wait],
           \A w \in Waiters :
             \/ wait'[w].pc # "select" /\ wait'[w].channel <= notify
             \/ /\ wait'[w].channel = notify
                /\ {i \in items' : /\ log[i].ts >= wait'[w].after
                                   /\ MatchesPurpose(log[i], wait'[w].purpose)} = {}
             \/ /\ wait'[w].channel = wait[w].channel /\ wait'[w].pc = wait[w].pc
                /\ wait'[w].after = wait[w].after /\ wait'[w].purpose = wait[w].purpose
    PROVE  IInv'
  <1> USE DEF IInv
  <1>1. items' \subseteq items
    BY PurgeIsSubset
  <1>2. TypeOK'
    BY <1>1 DEF TypeOK
  <1>3. ChannelIsPast'
    BY DEF ChannelIsPast, TypeOK
  <1>4. NoLostWakeup'
    <2> SUFFICES ASSUME NEW w \in Waiters, wait'[w].pc = "select", wait'[w].channel = notify
                 PROVE  \A i \in items' : ~(/\ log[i].ts >= wait'[w].after
                                            /\ MatchesPurpose(log[i], wait'[w].purpose))
      BY DEF NoLostWakeup, Matching, Wanted, MatchesPurpose
    <2>1. CASE wait'[w].channel = notify
                /\ {i \in items' : /\ log[i].ts >= wait'[w].after
                                   /\ MatchesPurpose(log[i], wait'[w].purpose)} = {}
      BY <2>1
    <2>2. CASE /\ wait'[w].channel = wait[w].channel /\ wait'[w].pc = wait[w].pc
               /\ wait'[w].after = wait[w].after /\ wait'[w].purpose = wait[w].purpose
      BY <1>1, <2>2 DEF NoLostWakeup, Matching, Wanted
    <2> QED
      BY <2>1, <2>2
  <1>5. ServedOnce'
    BY <1>1 DEF ServedOnce
  <1>6. NothingVanishes'
    BY PurgeAccounts DEF NothingVanishes, Expired
  <1> QED
    BY <1>2, <1>3, <1>4, <1>5, <1>6

LEMMA TakeIInv ==
    ASSUME IInv, NEW w \in Waiters, Take(w)
    PROVE  IInv'
  <1> DEFINE kept == Purge(log, items)
  <1> USE DEF IInv
  <1>1. PICK i \in Matching(w, kept) : items' = kept \ {i} /\ taken' = taken \cup {i}
    BY DEF Take
  <1>2. i \in kept /\ kept \subseteq items
    BY <1>1, PurgeIsSubset DEF Matching
  <1>3. /\ wait' = [wait EXCEPT ![w] = Idle]
        /\ UNCHANGED <<log, notify, now>>
    BY DEF Take
  <1>4. Idle \in Wait /\ Idle.pc = "idle" /\ Idle.channel = 0
    BY RelayAssumption DEF Idle, Wait, Time
  <1> HIDE DEF kept
  <1>5. TypeOK'
    BY <1>1, <1>2, <1>3, <1>4 DEF TypeOK
  <1>6. \A v \in Waiters \ {w} : wait'[v] = wait[v]
    BY <1>3 DEF TypeOK
  <1>7. wait'[w] = Idle
    BY <1>3 DEF TypeOK
  <1>8. ChannelIsPast'
    BY <1>3, <1>4, <1>6, <1>7 DEF ChannelIsPast, TypeOK
  <1>9. NoLostWakeup'
    BY <1>1, <1>2, <1>3, <1>4, <1>6, <1>7 DEF NoLostWakeup, Matching, Wanted
  <1>10. ServedOnce'
    BY <1>1, <1>2 DEF ServedOnce
  <1>11. NothingVanishes'
    <2>1. \A j \in DOMAIN log : \/ j \in kept \cup taken
                                \/ Expired(log, j)
                                \/ Len(log) - j >= MaxItems
      BY PurgeAccounts DEF kept
    <2> QED
      BY <1>1, <1>3, <2>1 DEF NothingVanishes, Expired
  <1> QED
    BY <1>5, <1>8, <1>9, <1>10, <1>11

LEMMA NextIInv == IInv /\ [Next]_vars => IInv'
  <1> SUFFICES ASSUME IInv, [Next]_vars
               PROVE  IInv'
    OBVIOUS
  <1> USE DEF IInv
  <1>1. ASSUME NEW purpose \in Purposes, NEW ts \in Time, Submit(purpose, ts)
        PROVE  IInv'
    BY <1>1, SubmitIInv
  <1>2. ASSUME NEW w \in Waiters, NEW purpose \in Purposes, NEW after \in Time,
               StartWait(w, purpose, after)
        PROVE  IInv'
    <2> DEFINE call == [Idle EXCEPT !.pc = "scan", !.purpose = purpose, !.after = after]
    <2>1. call \in Wait /\ call.pc = "scan" /\ call.channel = 0
      BY RelayAssumption DEF Idle, Wait, Time
    <2>2. /\ wait' = [wait EXCEPT ![w] = call]
          /\ UNCHANGED <<log, taken, items, notify, now>>
      BY <1>2 DEF StartWait
    <2> HIDE DEF call
    <2>3. wait' \in [Waiters -> Wait] /\ wait'[w] = call
          /\ \A v \in Waiters \ {w} : wait'[v] = wait[v]
      BY <2>1, <2>2 DEF TypeOK
    <2>4. 0 <= notify
      BY DEF TypeOK
    <2> QED
      BY <2>1, <2>2, <2>3, <2>4, QuietIInv
  <1>3. ASSUME NEW w \in Waiters, Take(w)
        PROVE  IInv'
    BY <1>3, TakeIInv
  <1>4. ASSUME NEW w \in Waiters, Listen(w)
        PROVE  IInv'
    <2> DEFINE call == [wait[w] EXCEPT !.pc = "select", !.channel = notify]
    <2>1. wait[w] \in Wait /\ notify \in Nat
      BY DEF TypeOK
    <2>2. call \in Wait /\ call.pc = "select" /\ call.channel = notify
          /\ call.after = wait[w].after /\ call.purpose = wait[w].purpose
      BY <2>1 DEF Wait
    <2>3. /\ wait' = [wait EXCEPT ![w] = call] /\ items' = Purge(log, items)
          /\ UNCHANGED <<log, taken, notify, now>>
          /\ Matching(w, items') = {}
      BY <1>4 DEF Listen, TypeOK
    <2> HIDE DEF call
    <2>4. wait' \in [Waiters -> Wait] /\ wait'[w] = call
          /\ \A v \in Waiters \ {w} : wait'[v] = wait[v]
      BY <2>2, <2>3 DEF TypeOK
    <2>5. {i \in items' : /\ log[i].ts >= wait'[w].after
                          /\ MatchesPurpose(log[i], wait'[w].purpose)} = {}
      BY <2>2, <2>3, <2>4 DEF Matching, Wanted
    <2> QED
      BY <2>2, <2>3, <2>4, <2>5, QuietIInv
  <1>5. ASSUME NEW w \in Waiters, Wake(w)
        PROVE  IInv'
    <2> DEFINE call == [wait[w] EXCEPT !.pc = "scan"]
    <2>1. wait[w] \in Wait /\ wait[w].channel <= notify
      BY DEF TypeOK, ChannelIsPast
    <2>2. call \in Wait /\ call.pc = "scan" /\ call.channel = wait[w].channel
      BY <2>1 DEF Wait
    <2>3. /\ wait' = [wait EXCEPT ![w] = call]
          /\ UNCHANGED <<log, taken, items, notify, now>>
      BY <1>5 DEF Wake, TypeOK
    <2> HIDE DEF call
    <2>4. wait' \in [Waiters -> Wait] /\ wait'[w] = call
          /\ \A v \in Waiters \ {w} : wait'[v] = wait[v]
      BY <2>2, <2>3 DEF TypeOK
    <2> QED
      BY <2>1, <2>2, <2>3, <2>4, QuietIInv
  <1>6. ASSUME NEW w \in Waiters, GiveUp(w)
        PROVE  IInv'
    <2>1. Idle \in Wait /\ Idle.pc = "idle" /\ Idle.channel = 0 /\ 0 <= notify
      BY RelayAssumption DEF Idle, Wait, Time, TypeOK
    <2>2. /\ wait' = [wait EXCEPT ![w] = Idle]
          /\ UNCHANGED <<log, taken, items, notify, now>>
      BY <1>6 DEF GiveUp
    <2>3. wait' \in [Waiters -> Wait] /\ wait'[w] = Idle
          /\ \A v \in Waiters \ {w} : wait'[v] = wait[v]
      BY <2>1, <2>2 DEF TypeOK
    <2> QED
      BY <2>1, <2>2, <2>3, QuietIInv
  <1>7. ASSUME NEW w \in Waiters, ContextDone(w)
        PROVE  IInv'
    <2> DEFINE call == [wait[w] EXCEPT !.over = TRUE]
    <2>1. wait[w] \in Wait
      BY DEF TypeOK
    <2>2. call \in Wait /\ call.pc = wait[w].pc /\ call.channel = wait[w].channel
          /\ call.after = wait[w].after /\ call.purpose = wait[w].purpose
      BY <2>1 DEF Wait
    <2>3. /\ wait' = [wait EXCEPT ![w] = call]
          /\ UNCHANGED <<log, taken, items, notify, now>>
      BY <1>7 DEF ContextDone, TypeOK
    <2> HIDE DEF call
    <2>4. wait' \in [Waiters -> Wait] /\ wait'[w] = call
          /\ \A v \in Waiters \ {w} : wait'[v] = wait[v]
      BY <2>2, <2>3 DEF TypeOK
    <2> QED
      BY <2>2, <2>3, <2>4, QuietIInv
  <1>8. CASE Snapshot
    <2>1. /\ items' = Purge(log, items) /\ wait' = wait
          /\ UNCHANGED <<log, taken, notify, now>>
      BY <1>8 DEF Snapshot
    <2> QED
      BY <2>1, QuietIInv DEF TypeOK
  <1>9. CASE Tick
    <2>1. /\ now < MaxTime /\ now' = now + 1
          /\ UNCHANGED <<log, taken, items, notify, wait>>
      BY <1>9 DEF Tick
    <2>2. now' \in Time
      BY <2>1, RelayAssumption DEF TypeOK, Time
    <2>3. TypeOK' /\ ChannelIsPast' /\ ServedOnce'
      BY <2>1, <2>2 DEF TypeOK, ChannelIsPast, ServedOnce
    <2>4. NoLostWakeup'
      BY <2>1 DEF NoLostWakeup, Matching, Wanted
    <2>5. \A i \in DOMAIN log : Expired(log, i) => Expired(log, i)'
      <3> TAKE i \in DOMAIN log
      <3>1. log[i] \in Item
        BY DEF TypeOK
      <3>2. log[i].ts \in Int /\ now \in Int /\ Ttl \in Int
        BY <3>1, RelayAssumption DEF TypeOK, Item, Time
      <3> QED
        BY <2>1, <3>2 DEF Expired
    <2>6. NothingVanishes'
      BY <2>1, <2>5 DEF NothingVanishes
    <2> QED
      BY <2>3, <2>4, <2>6
  <1>10. CASE UNCHANGED vars
    BY <1>10 DEF vars, TypeOK, ChannelIsPast, NoLostWakeup, Matching, Wanted, ServedOnce,
                 NothingVanishes, Expired
  <1> QED
    BY <1>1, <1>2, <1>3, <1>4, <1>5, <1>6, <1>7, <1>8, <1>9, <1>10 DEF Next

THEOREM Invariance == Spec => []IInv
  BY InitIInv, NextIInv, PTL DEF Spec

-----------------------------------------------------------------------------
(* The bound of the store.                                                 *)

LEMMA NatOrder == IsWellFoundedOn({ss \in Nat \X Nat : ss[1] < ss[2]}, Nat)
  BY NatLessThanWellFounded DEF OpToRel

LEMMA LeastItem ==
    ASSUME NEW s \in SUBSET Nat, s # {}
    PROVE  \E i \in s : \A j \in s : i <= j
  <1> DEFINE R == {ss \in Nat \X Nat : ss[1] < ss[2]}
  <1>1. IsWellFoundedOn(R, Nat)
    BY NatOrder
  <1>2. \E i \in s : \A j \in s : ~(<<j, i>> \in R)
    <2> HIDE DEF R
    <2> QED
      BY <1>1, WFMin
  <1>3. \A i, j \in s : ~(<<j, i>> \in R) => i <= j
    <2> SUFFICES ASSUME NEW i \in s, NEW j \in s, j < i
                 PROVE  <<j, i>> \in R
      OBVIOUS
    <2> QED
      OBVIOUS
  <1> HIDE DEF R
  <1> QED
    BY <1>2, <1>3

\* purgeLocked cuts the store down to maxItems.
LEMMA PurgeIsBounded ==
    ASSUME NEW l \in Seq(Item), NEW s \in SUBSET DOMAIN l
    PROVE  IsFiniteSet(Purge(l, s)) /\ Cardinality(Purge(l, s)) <= MaxItems
  <1> DEFINE kept == {i \in s : ~Expired(l, i)}
             left == Purge(l, s)
             Later(i) == {j \in kept : j > i}
  <1>1. Len(l) \in Nat /\ DOMAIN l = 1..Len(l)
    OBVIOUS
  <1>2. kept \subseteq 1..Len(l) /\ left = {i \in kept : Cardinality(Later(i)) < MaxItems}
    BY <1>1 DEF Purge
  <1>3. IsFiniteSet(1..Len(l))
    BY <1>1, FS_Interval
  <1> HIDE DEF kept, left
  <1>4. IsFiniteSet(kept)
    BY <1>2, <1>3, FS_Subset
  <1>5. CASE left = {}
    BY <1>5, FS_EmptySet, RelayAssumption DEF left
  <1>6. CASE left # {}
    <2>1. left \subseteq Nat
      <3>1. left \subseteq 1..Len(l)
        BY <1>2
      <3> HIDE DEF Later
      <3> QED
        BY <1>1, <3>1
    <2>2. PICK i \in left : \A j \in left : i <= j
      BY <1>6, <2>1, LeastItem
    <2>3. left \subseteq Later(i) \cup {i}
      BY <1>2, <2>1, <2>2
    <2>4. /\ IsFiniteSet(Later(i)) /\ Cardinality(Later(i)) \in Nat
          /\ Cardinality(Later(i)) < MaxItems
      BY <1>2, <1>4, <2>2, FS_Subset, FS_CardinalityType
    <2>5. /\ IsFiniteSet(Later(i) \cup {i})
          /\ Cardinality(Later(i) \cup {i}) <= Cardinality(Later(i)) + 1
      <3> HIDE DEF Later
      <3>1. /\ IsFiniteSet(Later(i) \cup {i})
            /\ Cardinality(Later(i) \cup {i}) =
                 IF i \in Later(i) THEN Cardinality(Later(i)) ELSE Cardinality(Later(i)) + 1
        BY <2>4, FS_AddElement
      <3> QED
        BY <2>4, <3>1
    <2>6. /\ IsFiniteSet(left)
          /\ Cardinality(left) <= Cardinality(Later(i) \cup {i})
          /\ Cardinality(left) \in Nat /\ Cardinality(Later(i) \cup {i}) \in Nat
      <3> HIDE DEF Later
      <3> QED
        BY <2>3, <2>5, FS_Subset, FS_CardinalityType
    <2> QED
      <3> HIDE DEF Later
      <3> QED
        BY <2>4, <2>5, <2>6, RelayAssumption DEF left
  <1> QED
    BY <1>5, <1>6

BoundInv == IsFiniteSet(items) /\ StoreIsBounded

LEMMA NextBound == TypeOK /\ BoundInv /\ [Next]_vars => BoundInv'
  <1> SUFFICES ASSUME TypeOK, BoundInv, [Next]_vars
               PROVE  BoundInv'
    OBVIOUS
  <1>1. IsFiniteSet(Purge(log, items)) /\ Cardinality(Purge(log, items)) <= MaxItems
    BY PurgeIsBounded DEF TypeOK
  <1>2. ASSUME NEW purpose \in Purposes, NEW ts \in Time, Submit(purpose, ts)
        PROVE  BoundInv'
    <2>1. log' \in Seq(Item) /\ items \cup {Len(log')} \subseteq DOMAIN log'
      BY <1>2 DEF Submit, TypeOK, Item
    <2>2. items' = Purge(log', items \cup {Len(log')})
      BY <1>2 DEF Submit
    <2> QED
      BY <2>1, <2>2, PurgeIsBounded DEF BoundInv, StoreIsBounded
  <1>3. ASSUME NEW w \in Waiters, Take(w)
        PROVE  BoundInv'
    <2>1. PICK i : items' = Purge(log, items) \ {i}
      BY <1>3 DEF Take
    <2>2. IsFiniteSet(items') /\ Cardinality(items') <= Cardinality(Purge(log, items))
          /\ Cardinality(items') \in Nat /\ Cardinality(Purge(log, items)) \in Nat
      BY <1>1, <2>1, FS_Subset, FS_CardinalityType
    <2> QED
      BY <1>1, <2>2, RelayAssumption DEF BoundInv, StoreIsBounded
  <1>4. ASSUME items' = items \/ items' = Purge(log, items)
        PROVE  BoundInv'
    BY <1>1, <1>4 DEF BoundInv, StoreIsBounded
  <1> QED
    BY <1>2, <1>3, <1>4 DEF Next, vars, StartWait, Listen, Wake, GiveUp, ContextDone,
                            Snapshot, Tick

-----------------------------------------------------------------------------
(* Theorems.                                                               *)

\* The store, the histories and every waiter stay well typed.
THEOREM TypeCorrect == Spec => []TypeOK
  BY Invariance, PTL DEF IInv

\* A waiter never sleeps through a submit it should have seen.
THEOREM NoWakeupIsLost == Spec => []NoLostWakeup
  BY Invariance, PTL DEF IInv

\* An OTP that one call returned is not there for another.
THEOREM AtMostOnce == Spec => []ServedOnce
  BY Invariance, PTL DEF IInv

\* An accepted OTP is only lost to a call, to its age or to maxItems later ones.
THEOREM NothingIsLost == Spec => []NothingVanishes
  BY Invariance, PTL DEF IInv

\* The slice the store keeps never has more than maxItems OTPs.
THEOREM StoreKeepsItsBound == Spec => []StoreIsBounded
  <1>1. Init => BoundInv
    BY FS_EmptySet, RelayAssumption DEF Init, BoundInv, StoreIsBounded
  <1> QED
    BY <1>1, NextBound, TypeCorrect, PTL DEF Spec, BoundInv

\* What otpStore keeps, with its mutex released: one hand-out for an OTP, a reason for
\* every loss, the bound of the store.
THEOREM StoreIsAlwaysSound == Spec => []StoreIsSound
  BY TypeCorrect, AtMostOnce, NothingIsLost, StoreKeepsItsBound, PTL DEF StoreIsSound

-----------------------------------------------------------------------------
(* OtpRelay implements OtpBox.                                             *)

\* The fate of each OTP, as the definition of Fate reads.
LEMMA FateRule ==
    /\ Fate \in [1..MaxSubmits -> Box!Fates]
    /\ \A i \in 1..MaxSubmits :
         /\ i > Len(log) => Fate[i] = "unsent"
         /\ ~(i > Len(log)) /\ i \in taken => Fate[i] = "served"
         /\ ~(i > Len(log)) /\ i \notin taken /\ i \in items => Fate[i] = "pending"
         /\ ~(i > Len(log)) /\ i \notin taken /\ i \notin items => Fate[i] = "dropped"
  BY DEF Fate, Box!Fates

LEMMA FateRulePrimed ==
    /\ Fate' \in [1..MaxSubmits -> Box!Fates]
    /\ \A i \in 1..MaxSubmits :
         /\ i > Len(log') => Fate'[i] = "unsent"
         /\ ~(i > Len(log')) /\ i \in taken' => Fate'[i] = "served"
         /\ ~(i > Len(log')) /\ i \notin taken' /\ i \in items' => Fate'[i] = "pending"
         /\ ~(i > Len(log')) /\ i \notin taken' /\ i \notin items' => Fate'[i] = "dropped"
  BY DEF Fate, Box!Fates

\* A step that accepts and hands out nothing drops some OTPs, or none.
LEMMA DropStep ==
    ASSUME log' = log, taken' = taken, items' \subseteq items
    PROVE  Box!BoxNext
  <1>1. \A i \in 1..MaxSubmits :
          Fate'[i] = Fate[i] \/ (Fate[i] = "pending" /\ Fate'[i] = "dropped")
    BY FateRule, FateRulePrimed
  <1>2. Box!Decays(Fate, Fate')
    BY <1>1, FateRulePrimed DEF Box!Decays
  <1> QED
    BY <1>2 DEF Box!BoxNext, Box!Drop

LEMMA SendStep ==
    ASSUME IInv, NEW purpose \in Purposes, NEW ts \in Time, Submit(purpose, ts)
    PROVE  Box!BoxNext
  <1> DEFINE n == Len(log) + 1
             sent == [Fate EXCEPT ![n] = "pending"]
  <1>1. /\ Len(log) \in Nat /\ n \in 1..MaxSubmits /\ Len(log') = n
        /\ taken' = taken /\ items' \subseteq items \cup {n}
        /\ DOMAIN log = 1..Len(log)
    <2>1. log \in Seq(Item) /\ Len(log) < MaxSubmits
          /\ log' = Append(log, [purpose |-> purpose, ts |-> ts])
      BY DEF Submit, IInv, TypeOK
    <2>2. Len(log) \in Nat /\ Len(log') = n /\ DOMAIN log = 1..Len(log)
      BY <2>1
    <2>3. taken' = taken /\ items' \subseteq items \cup {n}
      BY <2>2, PurgeIsSubset DEF Submit
    <2> QED
      BY <2>1, <2>2, <2>3, RelayAssumption
  <1>2. n \notin taken /\ n \notin items
    BY <1>1 DEF IInv, TypeOK
  <1>3. Fate[n] = "unsent"
    BY <1>1, FateRule
  <1>4. sent[n] = "pending" /\ \A i \in 1..MaxSubmits : i # n => sent[i] = Fate[i]
    BY <1>1, FateRule
  <1>5. Fate'[n] \in {"pending", "dropped"}
    BY <1>1, <1>2, FateRulePrimed
  <1>6. \A i \in 1..MaxSubmits :
          i # n => Fate'[i] = Fate[i] \/ (Fate[i] = "pending" /\ Fate'[i] = "dropped")
    BY <1>1, FateRule, FateRulePrimed
  <1> HIDE DEF sent, n
  <1>7. Box!Decays(sent, Fate')
    BY <1>4, <1>5, <1>6, FateRulePrimed DEF Box!Decays
  <1>8. Box!Send(n)
    BY <1>3, <1>7 DEF Box!Send, sent
  <1> QED
    BY <1>1, <1>8 DEF Box!BoxNext

LEMMA HandStep ==
    ASSUME IInv, NEW w \in Waiters, Take(w)
    PROVE  Box!BoxNext
  <1>1. PICK i \in Purge(log, items) :
          /\ items' = Purge(log, items) \ {i}
          /\ taken' = taken \cup {i}
          /\ log' = log
    BY DEF Take, Matching
  <1> DEFINE handed == [Fate EXCEPT ![i] = "served"]
  <1>2. /\ i \in items /\ i \notin taken /\ i \in 1..MaxSubmits /\ ~(i > Len(log))
        /\ items' \subseteq items
    <2>1. Purge(log, items) \subseteq items
      BY PurgeIsSubset
    <2>2. log \in Seq(Item) /\ Len(log) <= MaxSubmits /\ i \in DOMAIN log
      BY <1>1, <2>1 DEF IInv, TypeOK
    <2>3. i \in 1..Len(log) /\ Len(log) \in Nat
      BY <2>2
    <2> QED
      BY <1>1, <2>1, <2>2, <2>3, RelayAssumption DEF IInv, ServedOnce
  <1>3. Fate[i] = "pending" /\ Fate'[i] = "served"
    BY <1>1, <1>2, FateRule, FateRulePrimed
  <1>4. handed[i] = "served" /\ \A j \in 1..MaxSubmits : j # i => handed[j] = Fate[j]
    BY <1>2, FateRule
  <1>5. \A j \in 1..MaxSubmits :
          j # i => Fate'[j] = Fate[j] \/ (Fate[j] = "pending" /\ Fate'[j] = "dropped")
    BY <1>1, <1>2, FateRule, FateRulePrimed
  <1> HIDE DEF handed
  <1>6. Box!Decays(handed, Fate')
    BY <1>3, <1>4, <1>5, FateRulePrimed DEF Box!Decays
  <1>7. Box!Hand(i)
    BY <1>3, <1>6 DEF Box!Hand, handed
  <1> QED
    BY <1>2, <1>7 DEF Box!BoxNext

\* The relay is a one-time-password box: each OTP goes to at most one caller
\* and a dropped one to nobody.
THEOREM ImplementsOtpBox == Spec => BoxSpec
  <1>1. Init => Box!BoxInit
    <2> SUFFICES ASSUME Init PROVE Box!BoxInit
      OBVIOUS
    <2>1. Len(log) = 0
      BY DEF Init
    <2> QED
      BY <2>1 DEF Box!BoxInit, Fate
  <1>2. IInv /\ [Next]_vars => [Box!BoxNext]_Fate
    <2> SUFFICES ASSUME IInv, [Next]_vars
                 PROVE  Box!BoxNext \/ Fate' = Fate
      OBVIOUS
    <2>1. ASSUME NEW purpose \in Purposes, NEW ts \in Time, Submit(purpose, ts)
          PROVE  Box!BoxNext
      BY <2>1, SendStep
    <2>2. ASSUME NEW w \in Waiters, Take(w)
          PROVE  Box!BoxNext
      BY <2>2, HandStep
    <2>3. ASSUME NEW w \in Waiters, NEW purpose \in Purposes, NEW after \in Time,
                 \/ StartWait(w, purpose, after) \/ Listen(w) \/ Wake(w)
                 \/ GiveUp(w) \/ ContextDone(w)
          PROVE  Box!BoxNext
      <3>1. log' = log /\ taken' = taken /\ items' \subseteq items
        BY <2>3, PurgeIsSubset DEF StartWait, Listen, Wake, GiveUp, ContextDone
      <3> QED
        BY <3>1, DropStep
    <2>4. CASE Snapshot \/ Tick
      BY <2>4, PurgeIsSubset, DropStep DEF Snapshot, Tick
    <2>5. CASE UNCHANGED vars
      BY <2>5 DEF vars, Fate
    <2>6. AnyPurpose \in Purposes /\ 0 \in Time
      BY RelayAssumption DEF Time
    <2> QED
      BY <2>1, <2>2, <2>3, <2>4, <2>5, <2>6 DEF Next
  <1> QED
    BY <1>1, <1>2, Invariance, PTL DEF Spec, BoxSpec, Box!BoxSpec
===============================================================================
