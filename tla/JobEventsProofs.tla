------------------------------ MODULE JobEventsProofs ------------------------------
(***************************************************************************)
(* Proofs about JobEvents, for any number of writers and streams and any   *)
(* limit of a List.                                                        *)
(***************************************************************************)
EXTENDS JobEvents, FiniteSetTheorems, WellFoundedInduction, TLAPS

-----------------------------------------------------------------------------
(* Ids: the first and the last of a set of them.                           *)

LEMMA NatOrder == IsWellFoundedOn({ss \in Nat \X Nat : ss[1] < ss[2]}, Nat)
BY NatLessThanWellFounded DEF OpToRel

LEMMA FirstId ==
    ASSUME NEW S \in SUBSET Ids, S # {}
    PROVE  \E i \in S : \A j \in S : i <= j
<1> DEFINE R == {ss \in Nat \X Nat : ss[1] < ss[2]}
<1>1. S \subseteq Nat
    BY DEF Ids
<1>2. \E i \in S : \A j \in S : ~(<<j, i>> \in R)
    <2>1. IsWellFoundedOn(R, Nat)
        BY NatOrder
    <2> HIDE DEF R
    <2> QED
        BY <1>1, <2>1, WFMin
<1>3. \A i, j \in S : j < i => <<j, i>> \in R
    BY <1>1
<1> HIDE DEF R
<1>4. \A i, j \in S : i <= j \/ j < i
    BY <1>1
<1> QED
    BY <1>2, <1>3, <1>4

\* The last one is the first when counted from the end.
LEMMA LastId ==
    ASSUME NEW S \in SUBSET Ids, S # {}
    PROVE  /\ Max(S) \in S
           /\ \A j \in S : Max(S) >= j
<1> DEFINE T == {MaxEvents + 1 - i : i \in S}
<1>1. MaxEvents \in Nat /\ \A i \in S : i \in Nat /\ i >= 1 /\ i <= MaxEvents
    BY EventsAssumption DEF Ids
<1>2. T \in SUBSET Ids /\ T # {}
    <2>1. \A i \in S : MaxEvents + 1 - i \in Ids
        BY <1>1 DEF Ids
    <2> QED
        BY <2>1
<1>3. PICK k \in T : \A l \in T : k <= l
    <2> HIDE DEF T
    <2> QED
        BY <1>2, FirstId
<1>4. PICK i \in S : k = MaxEvents + 1 - i
    BY <1>3
<1>5. \A j \in S : MaxEvents + 1 - i <= MaxEvents + 1 - j
    BY <1>3, <1>4
<1>6. \A j \in S : i >= j
    BY <1>1, <1>5
<1> QED
    BY <1>6 DEF Max

LEMMA IdsAreFinite ==
    ASSUME NEW S \in SUBSET Ids
    PROVE  IsFiniteSet(S) /\ Cardinality(S) \in Nat
<1>1. IsFiniteSet(Ids)
    BY EventsAssumption, FS_Interval DEF Ids
<1> QED
    BY <1>1, FS_Subset, FS_CardinalityType

\* A List that is not full has everything beyond the cursor: were something left
\* out, the batch would be what comes before the first such event, and Limit long.
LEMMA ListIsComplete ==
    ASSUME NEW B \in SUBSET Ids,
           NEW F, F = {i \in B : Cardinality({j \in B : j < i}) < Limit},
           Cardinality(F) # Limit
    PROVE  F = B
<1> DEFINE Before(i) == {j \in B : j < i}
<1>1. /\ Limit \in Nat /\ Limit > 0
      /\ \A i \in B : i \in Nat
    BY EventsAssumption DEF Ids
<1>2. \A i \in B : IsFiniteSet(Before(i)) /\ Cardinality(Before(i)) \in Nat
    BY IdsAreFinite
<1>3. \A i \in B : i \in F <=> Cardinality(Before(i)) < Limit
    OBVIOUS
<1>4. \A i, j \in B : j \in Before(i) <=> j < i
    OBVIOUS
<1>5. \A i \in B : Before(i) \subseteq B
    OBVIOUS
<1>6. F \subseteq B
    OBVIOUS
<1> HIDE DEF Before
<1> SUFFICES ASSUME B \ F # {} PROVE FALSE
    BY <1>6
<1>7. PICK i \in B \ F : \A j \in B \ F : i <= j
    BY FirstId
<1>8. \A j \in B : j < i \/ i <= j
    BY <1>1, <1>7
<1>9. ASSUME NEW j \in B, i <= j PROVE j \notin F
    <2>1. Before(i) \subseteq Before(j)
        <3> SUFFICES ASSUME NEW k \in Before(i) PROVE k \in Before(j)
            OBVIOUS
        <3>1. k \in B /\ k < i /\ k \in Nat /\ i \in Nat /\ j \in Nat
            BY <1>1, <1>4, <1>5, <1>7
        <3>2. k < j
            BY <1>9, <3>1
        <3> QED
            BY <1>4, <3>1, <3>2
    <2>2. Cardinality(Before(i)) <= Cardinality(Before(j))
        BY <1>2, <2>1, FS_Subset
    <2>3. ~(Cardinality(Before(i)) < Limit)
        BY <1>3, <1>7
    <2>4. ~(Cardinality(Before(j)) < Limit)
        BY <1>1, <1>2, <1>7, <2>2, <2>3
    <2> QED
        BY <1>3, <2>4
<1>10. ASSUME NEW j \in B, j < i PROVE j \in F
    <2>1. ~(i <= j)
        BY <1>1, <1>7, <1>10
    <2> QED
        BY <1>7, <2>1
<1>11. F = Before(i)
    <2>1. \A j \in B : j \in F <=> j < i
        BY <1>1, <1>7, <1>8, <1>9, <1>10
    <2> QED
        BY <1>4, <1>5, <1>6, <1>7, <2>1
<1>12. Cardinality(F) \in Nat /\ Cardinality(F) >= Limit
    <2> DEFINE n == Cardinality(Before(i))
    <2>1. ~(n < Limit) /\ n \in Nat
        BY <1>2, <1>3, <1>7
    <2>2. Cardinality(F) = n
        BY <1>11
    <2> HIDE DEF n
    <2> QED
        BY <1>1, <2>1, <2>2
<1>13. F # {} /\ F \in SUBSET Ids
    <2>1. Cardinality(F) # 0
        BY <1>1, <1>12
    <2> QED
        BY <1>6, <2>1, FS_EmptySet
<1>14. PICK m \in F : \A j \in F : m >= j
    BY <1>13, LastId
<1>15. F = Before(m) \cup {m} /\ m \notin Before(m) /\ m \in B
    <2>1. m \in B /\ m \in Nat /\ i \in Nat /\ m < i
        BY <1>1, <1>4, <1>6, <1>7, <1>11, <1>14
    <2>2. ASSUME NEW j \in Before(m) PROVE j \in F
        <3>1. j \in B /\ j < m /\ j \in Nat
            BY <1>1, <1>4, <1>5, <2>1, <2>2
        <3>2. j < i
            BY <2>1, <3>1
        <3> QED
            BY <1>10, <3>1, <3>2
    <2>3. ASSUME NEW j \in F, j # m PROVE j \in Before(m)
        <3>1. j \in B /\ j \in Nat /\ m >= j
            BY <1>1, <1>6, <1>14, <2>3
        <3>2. j < m
            BY <2>1, <2>3, <3>1
        <3> QED
            BY <1>4, <2>1, <3>1, <3>2
    <2>4. m \notin Before(m)
        BY <1>4, <2>1
    <2> QED
        BY <1>14, <2>1, <2>2, <2>3, <2>4
<1>16. Cardinality(F) = Cardinality(Before(m)) + 1 /\ Cardinality(Before(m)) < Limit
    BY <1>2, <1>3, <1>14, <1>15, FS_AddElement
<1> DEFINE n == Cardinality(Before(m))
           c == Cardinality(F)
<1>17. /\ n \in Nat /\ n < Limit /\ c = n + 1
       /\ c >= Limit /\ c # Limit
    BY <1>2, <1>12, <1>15, <1>16
<1> HIDE DEF n, c
<1> QED
    BY <1>1, <1>17

-----------------------------------------------------------------------------
(* The invariant.                                                          *)

Filled(i) == i \in DOMAIN table /\ table[i] # Empty

\* The event of a writer is its own; from its commit on it is there, and it is empty
\* until the writer fills it in.
WriterOK(p) ==
    /\ writer[p].pc \in {"idle", "read", "insert"} => writer[p].id = 0
    /\ writer[p].pc \in {"commit", "fill", "publish"} => writer[p].id \in 1..next - 1
    /\ writer[p].pc \in {"insert", "commit", "fill", "publish"} => writer[p].snapshot \in Snapshot
    /\ writer[p].pc = "commit" => writer[p].id \notin DOMAIN table
    /\ writer[p].pc \in {"fill", "publish"} => writer[p].id \in DOMAIN table
    /\ writer[p].pc = "fill" => table[writer[p].id] = Empty

Publishing(i) == \E p \in Writers : writer[p].pc = "publish" /\ writer[p].id = i

\* What a stream has sent or is about to send is in the table, and what it will miss
\* when it goes to sleep is about to be published.
WatcherOK(w) ==
    /\ watcher[w].pc # "send" => watcher[w].batch = NoRows
    /\ \A i \in DOMAIN watcher[w].batch :
          /\ i \in Beyond(w)
          /\ watcher[w].batch[i] # Empty => table[i] = watcher[w].batch[i]
    /\ watcher[w].shown # 0 =>
          \E i \in DOMAIN table : /\ i <= watcher[w].cursor /\ table[i] # Empty
                                  /\ table[i].version = watcher[w].shown
    /\ watcher[w].pc \in {"send", "wait"} /\ ~watcher[w].woken /\ ~watcher[w].full =>
          \A i \in Beyond(w) \ DOMAIN watcher[w].batch : table[i] # Empty => Publishing(i)

EventInv ==
    /\ TypeOK
    /\ \A p \in Writers : WriterOK(p)
    /\ \A p, q \in Writers : p # q /\ writer[p].id = writer[q].id => writer[p].id = 0
    /\ \A w \in Watchers : WatcherOK(w)

LEMMA EmptyIsNoSnapshot == Empty \notin Snapshot
<1>1. Empty.status = "NONE"
    BY DEF Empty
<1> QED
    BY <1>1 DEF Snapshot, Status

LEMMA InitEvents == Init => EventInv
<1> SUFFICES ASSUME Init PROVE EventInv
    OBVIOUS
<1>1. DOMAIN NoRows = {} /\ NoRows \in [{} -> Snapshot \cup {Empty}]
    BY DEF NoRows
<1>2. 0 \in 0..MaxEvents /\ 0 \in 0..MaxWrites /\ 1 \in 1..MaxEvents + 1
    BY EventsAssumption
<1>3. ASSUME NEW w \in Watchers
      PROVE  /\ watcher[w] \in Watcher /\ watcher[w].pc = "idle"
             /\ watcher[w].batch = NoRows /\ watcher[w].shown = 0
    <2>1. PICK b \in BOOLEAN :
              watcher[w] = [single |-> b, pc |-> "idle", woken |-> FALSE, batch |-> NoRows,
                            full |-> FALSE, cursor |-> 0, shown |-> 0]
        BY DEF Init
    <2>2. NoRows \in UNION {[ids -> Snapshot \cup {Empty}] : ids \in SUBSET Ids}
        BY <1>1
    <2> QED
        BY <1>2, <2>1, <2>2 DEF Watcher
<1>4. TypeOK
    <2>1. IdleWriter \in Writer
        BY <1>2 DEF IdleWriter, Writer
    <2>2. job \in Snapshot
        BY <1>2 DEF Init, Snapshot, Status
    <2>3. watcher \in [Watchers -> Watcher]
        BY <1>3 DEF Init
    <2> QED
        BY <1>1, <1>2, <2>1, <2>2, <2>3 DEF Init, TypeOK
<1>5. \A p \in Writers : writer[p].pc = "idle" /\ writer[p].id = 0
    BY DEF Init, IdleWriter
<1> QED
    BY <1>1, <1>3, <1>4, <1>5 DEF EventInv, WriterOK, WatcherOK

-----------------------------------------------------------------------------
(* The writers.                                                            *)

WriterIs(p, pc, snapshot, id) ==
    /\ writer' \in [Writers -> Writer]
    /\ writer'[p].pc = pc /\ writer'[p].snapshot = snapshot /\ writer'[p].id = id
    /\ \A q \in Writers \ {p} : writer'[q] = writer[q]

Pcs == {"idle", "read", "insert", "commit", "fill", "publish"}

LEMMA WriterMoves ==
    ASSUME writer \in [Writers -> Writer], NEW p \in Writers, NEW pc \in Pcs
    PROVE  /\ writer' = [writer EXCEPT ![p].pc = pc] =>
                 WriterIs(p, pc, writer[p].snapshot, writer[p].id)
           /\ \A snapshot \in Snapshot :
                 writer' = [writer EXCEPT ![p].pc = pc, ![p].snapshot = snapshot] =>
                     WriterIs(p, pc, snapshot, writer[p].id)
           /\ \A id \in 0..MaxEvents :
                 writer' = [writer EXCEPT ![p].pc = pc, ![p].id = id] =>
                     WriterIs(p, pc, writer[p].snapshot, id)
           /\ writer' = [writer EXCEPT ![p] = IdleWriter] => WriterIs(p, "idle", Empty, 0)
<1>1. writer[p] \in Writer
    OBVIOUS
<1>2. ASSUME writer' = [writer EXCEPT ![p].pc = pc]
      PROVE  WriterIs(p, pc, writer[p].snapshot, writer[p].id)
    <2>1. [writer[p] EXCEPT !.pc = pc] \in Writer
        BY <1>1 DEF Writer, Pcs
    <2> QED
        BY <1>1, <1>2, <2>1 DEF WriterIs, Writer
<1>3. ASSUME NEW snapshot \in Snapshot,
             writer' = [writer EXCEPT ![p].pc = pc, ![p].snapshot = snapshot]
      PROVE  WriterIs(p, pc, snapshot, writer[p].id)
    <2> DEFINE g == [writer[p] EXCEPT !.pc = pc, !.snapshot = snapshot]
    <2>1. g \in Writer /\ g.pc = pc /\ g.snapshot = snapshot /\ g.id = writer[p].id
        BY <1>1 DEF Writer, Pcs
    <2>2. writer' = [writer EXCEPT ![p] = g]
        BY <1>3
    <2> HIDE DEF g
    <2> QED
        BY <2>1, <2>2 DEF WriterIs
<1>4. ASSUME NEW id \in 0..MaxEvents,
             writer' = [writer EXCEPT ![p].pc = pc, ![p].id = id]
      PROVE  WriterIs(p, pc, writer[p].snapshot, id)
    <2> DEFINE g == [writer[p] EXCEPT !.pc = pc, !.id = id]
    <2>1. g \in Writer /\ g.pc = pc /\ g.snapshot = writer[p].snapshot /\ g.id = id
        BY <1>1 DEF Writer, Pcs
    <2>2. writer' = [writer EXCEPT ![p] = g]
        BY <1>4
    <2> HIDE DEF g
    <2> QED
        BY <2>1, <2>2 DEF WriterIs
<1>5. ASSUME writer' = [writer EXCEPT ![p] = IdleWriter]
      PROVE  WriterIs(p, "idle", Empty, 0)
    <2>1. IdleWriter \in Writer
        BY EventsAssumption DEF IdleWriter, Writer
    <2> QED
        BY <1>5, <2>1 DEF WriterIs, IdleWriter
<1> QED
    BY <1>2, <1>3, <1>4, <1>5

\* The streams sleep on while the table grows: what is filled in is about to be
\* published.
LEMMA StreamsKept ==
    ASSUME EventInv, watcher' = watcher,
           \A i \in DOMAIN table : i \in DOMAIN table' /\ (table[i] # Empty => table'[i] = table[i]),
           \A i \in DOMAIN table' : table'[i] # Empty => Filled(i) \/ Publishing(i)',
           \A i : Publishing(i) => Publishing(i)'
    PROVE  \A w \in Watchers : WatcherOK(w)'
<1> SUFFICES ASSUME NEW w \in Watchers PROVE WatcherOK(w)'
    OBVIOUS
<1>1. WatcherOK(w)
    BY DEF EventInv
<1>2. \A i \in DOMAIN watcher[w].batch :
          i \in Beyond(w)' /\ (watcher[w].batch[i] # Empty => table'[i] = watcher[w].batch[i])
    BY <1>1 DEF WatcherOK, Beyond
<1>3. watcher[w].shown # 0 =>
          \E i \in DOMAIN table' : /\ i <= watcher[w].cursor /\ table'[i] # Empty
                                   /\ table'[i].version = watcher[w].shown
    BY <1>1 DEF WatcherOK
<1>4. ASSUME watcher[w].pc \in {"send", "wait"}, ~watcher[w].woken, ~watcher[w].full,
             NEW i \in Beyond(w)' \ DOMAIN watcher[w].batch, table'[i] # Empty
      PROVE  Publishing(i)'
    <2>1. CASE Filled(i)
        <3>1. i \in Beyond(w) \ DOMAIN watcher[w].batch
            BY <2>1 DEF Filled, Beyond
        <3>2. Publishing(i)
            BY <1>1, <1>4, <2>1, <3>1 DEF WatcherOK, Filled
        <3> QED
            BY <3>2
    <2>2. CASE ~Filled(i)
        BY <1>4, <2>2 DEF Beyond
    <2> QED
        BY <2>1, <2>2
<1> QED
    BY <1>1, <1>2, <1>3, <1>4 DEF WatcherOK

\* A publication wakes every stream that is open.
LEMMA AllWoken ==
    ASSUME EventInv, watcher' = Woken, UNCHANGED table
    PROVE  watcher' \in [Watchers -> Watcher] /\ \A w \in Watchers : WatcherOK(w)'
<1>1. ASSUME NEW w \in Watchers
      PROVE  /\ watcher'[w] \in Watcher /\ WatcherOK(w)'
    <2>1. watcher[w] \in Watcher /\ WatcherOK(w)
        BY DEF EventInv, TypeOK
    <2>2. watcher'[w] = IF watcher[w].pc \in {"list", "send", "wait"}
                        THEN [watcher[w] EXCEPT !.woken = TRUE] ELSE watcher[w]
        BY DEF Woken
    <2>3. CASE watcher[w].pc \in {"list", "send", "wait"}
        <3> DEFINE g == [watcher[w] EXCEPT !.woken = TRUE]
        <3>1. /\ g \in Watcher /\ g.pc = watcher[w].pc /\ g.batch = watcher[w].batch
              /\ g.cursor = watcher[w].cursor /\ g.shown = watcher[w].shown /\ g.woken
            BY <2>1 DEF Watcher
        <3>2. watcher'[w] = g
            BY <2>2, <2>3
        <3> HIDE DEF g
        <3> QED
            BY <2>1, <3>1, <3>2 DEF WatcherOK, Beyond
    <2>4. CASE watcher[w].pc \notin {"list", "send", "wait"}
        BY <2>1, <2>2, <2>4 DEF WatcherOK, Beyond
    <2> QED
        BY <2>3, <2>4
<1> QED
    BY <1>1 DEF Woken

LEMMA WriterEvents ==
    ASSUME EventInv, NEW p \in Writers,
           WriterStep(p) \/ \E status \in Status : Write(p, status)
    PROVE  EventInv'
<1>1. /\ writer \in [Writers -> Writer] /\ writer[p] \in Writer /\ job \in Snapshot
      /\ next \in 1..MaxEvents + 1 /\ DOMAIN table \subseteq 1..next - 1
      /\ \A i \in DOMAIN table : table[i] \in Snapshot \cup {Empty}
      /\ WriterOK(p) /\ MaxEvents \in Nat /\ MaxWrites \in Nat
    BY EventsAssumption DEF EventInv, TypeOK
<1>2. CASE UNCHANGED <<next, table, watcher>> /\ writer[p].pc # "publish"
    <2>1. /\ job' \in Snapshot
          /\ \E pc \in {"idle", "read", "insert"}, snapshot \in Snapshot \cup {Empty} :
                /\ WriterIs(p, pc, snapshot, 0)
                /\ pc = "insert" => snapshot \in Snapshot
        <3>1. CASE \E status \in Status : Write(p, status)
            <4>1. PICK status \in Status : Write(p, status)
                BY <3>1
            <4>2. job' \in Snapshot
                BY <1>1, <4>1 DEF Write, Snapshot
            <4>3. WriterIs(p, "read", writer[p].snapshot, 0)
                BY <1>1, <4>1, WriterMoves DEF Write, Pcs, WriterOK
            <4> QED
                BY <1>1, <4>2, <4>3 DEF Writer
        <3>2. CASE Read(p)
            <4>1. WriterIs(p, "insert", job, 0)
                BY <1>1, <3>2, WriterMoves DEF Read, Pcs, WriterOK
            <4> QED
                BY <1>1, <3>2, <4>1 DEF Read
        <3>3. CASE Fail(p)
            <4>1. WriterIs(p, "idle", Empty, 0)
                BY <1>1, <3>3, WriterMoves DEF Fail, Pcs
            <4> QED
                BY <1>1, <3>3, <4>1 DEF Fail
        <3>4. ~Insert(p) /\ ~Publish(p)
            BY <1>1, <1>2 DEF Insert, Publish
        <3>5. Commit(p) => FALSE
            <4>1. SUFFICES ASSUME Commit(p) PROVE FALSE
                OBVIOUS
            <4>2. writer[p].id \in DOMAIN table' /\ writer[p].id \notin DOMAIN table
                BY <1>1, <4>1 DEF Commit, WriterOK
            <4> QED
                BY <1>2, <4>2
        <3>6. Fill(p) => FALSE
            <4>1. SUFFICES ASSUME Fill(p) PROVE FALSE
                OBVIOUS
            <4>2. /\ writer[p].id \in DOMAIN table /\ table[writer[p].id] = Empty
                  /\ table'[writer[p].id] = writer[p].snapshot /\ writer[p].snapshot \in Snapshot
                BY <1>1, <4>1 DEF Fill, WriterOK
            <4> QED
                BY <1>2, <4>2, EmptyIsNoSnapshot
        <3> QED
            BY <3>1, <3>2, <3>3, <3>4, <3>5, <3>6 DEF WriterStep
    <2>2. PICK pc \in {"idle", "read", "insert"}, snapshot \in Snapshot \cup {Empty} :
              /\ WriterIs(p, pc, snapshot, 0)
              /\ pc = "insert" => snapshot \in Snapshot
        BY <2>1
    <2>3. TypeOK'
        BY <1>2, <2>1, <2>2 DEF EventInv, TypeOK, WriterIs
    <2>4. \A q \in Writers : WriterOK(q)'
        BY <1>2, <2>2 DEF EventInv, WriterOK, WriterIs
    <2>5. \A q, r \in Writers : q # r /\ writer'[q].id = writer'[r].id => writer'[q].id = 0
        BY <2>2 DEF EventInv, WriterIs
    <2>6. \A i : Publishing(i) => Publishing(i)'
        BY <1>2, <2>2 DEF Publishing, WriterIs
    <2>7. \A w \in Watchers : WatcherOK(w)'
        BY <1>2, <2>6, StreamsKept DEF Filled
    <2> QED
        BY <2>3, <2>4, <2>5, <2>7 DEF EventInv
<1>3. CASE Insert(p)
    <2>1. /\ WriterIs(p, "commit", writer[p].snapshot, next)
          /\ next' = next + 1 /\ next <= MaxEvents /\ next \in Nat /\ next >= 1
          /\ UNCHANGED <<job, table, watcher>> /\ writer[p].pc = "insert"
        <3>1. next \in 0..MaxEvents /\ next \in Nat /\ next >= 1 /\ "commit" \in Pcs
            BY <1>1, <1>3 DEF Insert, Pcs
        <3>2. writer' = [writer EXCEPT ![p].pc = "commit", ![p].id = next]
            BY <1>3 DEF Insert
        <3>3. WriterIs(p, "commit", writer[p].snapshot, next)
            BY <1>1, <3>1, <3>2, WriterMoves
        <3> QED
            BY <1>3, <3>1, <3>3 DEF Insert
    <2>2. 1..next - 1 \subseteq 1..next' - 1 /\ next' \in 1..MaxEvents + 1
          /\ next \in 1..next' - 1 /\ next \notin 1..next - 1 /\ next # 0
        BY <1>1, <2>1
    <2>3. TypeOK'
        BY <1>1, <2>1, <2>2 DEF EventInv, TypeOK, WriterIs
    <2>4. ASSUME NEW q \in Writers PROVE WriterOK(q)'
        <3>1. CASE q = p
            BY <1>1, <2>1, <2>2, <3>1 DEF WriterOK, WriterIs
        <3>2. CASE q # p
            BY <2>1, <2>2, <3>2 DEF EventInv, WriterOK, WriterIs
        <3> QED
            BY <3>1, <3>2
    <2>5. \A q \in Writers \ {p} : writer'[q].id # next
        BY <2>1, <2>2 DEF EventInv, WriterOK, WriterIs, TypeOK, Writer
    <2>6. \A q, r \in Writers : q # r /\ writer'[q].id = writer'[r].id => writer'[q].id = 0
        BY <2>1, <2>5 DEF EventInv, WriterIs
    <2>7. \A i : Publishing(i) => Publishing(i)'
        BY <2>1 DEF Publishing, WriterIs
    <2>8. \A w \in Watchers : WatcherOK(w)'
        BY <2>1, <2>7, StreamsKept DEF Filled
    <2> QED
        BY <2>3, <2>4, <2>6, <2>8 DEF EventInv
<1> DEFINE id == writer[p].id
<1>4. CASE Commit(p)
    <2>1. /\ WriterIs(p, "fill", writer[p].snapshot, id)
          /\ UNCHANGED <<job, next, watcher>> /\ writer[p].pc = "commit"
          /\ DOMAIN table' = DOMAIN table \cup {id} /\ table'[id] = Empty
          /\ \A i \in DOMAIN table \ {id} : table'[i] = table[i]
        BY <1>1, <1>4, WriterMoves DEF Commit, Pcs
    <2>2. id \in 1..next - 1 /\ id \notin DOMAIN table /\ writer[p].snapshot \in Snapshot /\ id # 0
        BY <1>1, <2>1 DEF WriterOK
    <2> HIDE DEF id
    <2>3. TypeOK'
        BY <1>1, <2>1, <2>2 DEF EventInv, TypeOK, WriterIs
    <2>4. \A q \in Writers \ {p} : writer[q].id # id
        BY <2>2 DEF EventInv, id
    <2>5. ASSUME NEW q \in Writers PROVE WriterOK(q)'
        <3>1. CASE q = p
            BY <2>1, <2>2, <3>1 DEF WriterOK, WriterIs
        <3>2. CASE q # p
            BY <2>1, <2>4, <3>2 DEF EventInv, WriterOK, WriterIs
        <3> QED
            BY <3>1, <3>2
    <2>6. \A q, r \in Writers : q # r /\ writer'[q].id = writer'[r].id => writer'[q].id = 0
        BY <2>1 DEF EventInv, WriterIs, id
    <2>7. \A i : Publishing(i) => Publishing(i)'
        BY <2>1 DEF Publishing, WriterIs
    <2>8. \A w \in Watchers : WatcherOK(w)'
        BY <2>1, <2>2, <2>7, StreamsKept DEF Filled
    <2> QED
        BY <2>3, <2>5, <2>6, <2>8 DEF EventInv
<1>5. CASE Fill(p)
    <2>1. /\ WriterIs(p, "publish", writer[p].snapshot, id)
          /\ UNCHANGED <<job, next, watcher>> /\ writer[p].pc = "fill"
          /\ DOMAIN table' = DOMAIN table
          /\ id \in DOMAIN table => table'[id] = writer[p].snapshot
          /\ \A i \in DOMAIN table \ {id} : table'[i] = table[i]
        BY <1>1, <1>5, WriterMoves DEF Fill, Pcs
    <2>2. /\ id \in 1..next - 1 /\ id \in DOMAIN table /\ table[id] = Empty
          /\ writer[p].snapshot \in Snapshot /\ id # 0
        BY <1>1, <2>1 DEF WriterOK
    <2> HIDE DEF id
    <2>3. TypeOK'
        BY <1>1, <2>1, <2>2 DEF EventInv, TypeOK, WriterIs
    <2>4. \A q \in Writers \ {p} : writer[q].id # id
        BY <2>2 DEF EventInv, id
    <2>5. ASSUME NEW q \in Writers PROVE WriterOK(q)'
        <3>1. CASE q = p
            BY <2>1, <2>2, <3>1 DEF WriterOK, WriterIs
        <3>2. CASE q # p
            BY <2>1, <2>4, <3>2 DEF EventInv, WriterOK, WriterIs
        <3> QED
            BY <3>1, <3>2
    <2>6. \A q, r \in Writers : q # r /\ writer'[q].id = writer'[r].id => writer'[q].id = 0
        BY <2>1 DEF EventInv, WriterIs, id
    <2>7. ASSUME NEW i, Publishing(i) PROVE Publishing(i)'
        <3>1. PICK q \in Writers : writer[q].pc = "publish" /\ writer[q].id = i
            BY <2>7 DEF Publishing
        <3>2. writer'[q] = writer[q]
            BY <2>1, <3>1 DEF WriterIs
        <3> QED
            BY <3>1, <3>2 DEF Publishing
    <2>8. \A i : i = id => Publishing(i)'
        <3>1. writer'[p].pc = "publish" /\ writer'[p].id = id
            BY <2>1 DEF WriterIs
        <3> QED
            BY <3>1 DEF Publishing
    <2>9. \A w \in Watchers : WatcherOK(w)'
        BY <2>1, <2>2, <2>7, <2>8, StreamsKept DEF Filled
    <2> QED
        BY <2>3, <2>5, <2>6, <2>9 DEF EventInv
<1>6. CASE Publish(p)
    <2>1. /\ WriterIs(p, "idle", Empty, 0) /\ watcher' = Woken /\ UNCHANGED <<job, next, table>>
        BY <1>1, <1>6, WriterMoves DEF Publish, Pcs
    <2>2. watcher' \in [Watchers -> Watcher] /\ \A w \in Watchers : WatcherOK(w)'
        BY <2>1, AllWoken
    <2>3. TypeOK'
        BY <2>1, <2>2 DEF EventInv, TypeOK, WriterIs
    <2>4. \A q \in Writers : WriterOK(q)'
        BY <2>1 DEF EventInv, WriterOK, WriterIs
    <2>5. \A q, r \in Writers : q # r /\ writer'[q].id = writer'[r].id => writer'[q].id = 0
        BY <2>1 DEF EventInv, WriterIs
    <2> QED
        BY <2>2, <2>3, <2>4, <2>5 DEF EventInv
<1>7. CASE Read(p) \/ Fail(p) \/ \E status \in Status : Write(p, status)
    BY <1>2, <1>7 DEF Read, Fail, Write
<1> QED
    BY <1>3, <1>4, <1>5, <1>6, <1>7 DEF WriterStep

-----------------------------------------------------------------------------
(* The streams.                                                            *)

LEMMA OneStream ==
    ASSUME EventInv, NEW w \in Watchers, NEW v \in Watcher,
           watcher' = [watcher EXCEPT ![w] = v], UNCHANGED <<job, next, table, writer>>,
           WatcherOK(w)'
    PROVE  EventInv'
<1>1. watcher' \in [Watchers -> Watcher] /\ \A u \in Watchers \ {w} : watcher'[u] = watcher[u]
    BY DEF EventInv, TypeOK
<1>2. TypeOK'
    BY <1>1 DEF EventInv, TypeOK
<1>3. \A p \in Writers : WriterOK(p)'
    BY DEF EventInv, WriterOK
<1>4. \A i : Publishing(i)' <=> Publishing(i)
    BY DEF Publishing
<1>5. ASSUME NEW u \in Watchers, u # w PROVE WatcherOK(u)'
    <2>1. WatcherOK(u) /\ watcher'[u] = watcher[u]
        BY <1>1, <1>5 DEF EventInv
    <2>2. Beyond(u)' = Beyond(u)
        BY <2>1 DEF Beyond
    <2> QED
        BY <1>4, <2>1, <2>2 DEF WatcherOK
<1> QED
    BY <1>2, <1>3, <1>5 DEF EventInv

\* Connect, Wake and Disconnect: the stream has nothing to send, before and after.
Turns(w, pc, woken) ==
    /\ watcher[w].pc # "send"
    /\ watcher' = [watcher EXCEPT ![w] = [watcher[w] EXCEPT !.pc = pc, !.woken = woken]]

LEMMA StreamTurns ==
    ASSUME EventInv, NEW w \in Watchers, NEW pc \in {"idle", "list"}, NEW woken \in BOOLEAN,
           Turns(w, pc, woken), UNCHANGED <<job, next, table, writer>>
    PROVE  EventInv' /\ watcher'[w].shown = watcher[w].shown
<1> DEFINE v == [watcher[w] EXCEPT !.pc = pc, !.woken = woken]
<1>1. watcher[w] \in Watcher /\ WatcherOK(w) /\ watcher \in [Watchers -> Watcher]
    BY DEF EventInv, TypeOK
<1>2. /\ v \in Watcher /\ v.pc = pc /\ v.batch = watcher[w].batch
      /\ v.cursor = watcher[w].cursor /\ v.shown = watcher[w].shown
    BY <1>1 DEF Watcher
<1>3. watcher' = [watcher EXCEPT ![w] = v] /\ watcher[w].pc # "send"
    BY DEF Turns
<1> HIDE DEF v
<1>4. watcher'[w] = v
    BY <1>1, <1>3
<1>5. WatcherOK(w)'
    <2>1. watcher[w].batch = NoRows /\ DOMAIN NoRows = {}
        BY <1>1, <1>3 DEF WatcherOK, NoRows
    <2> QED
        BY <1>1, <1>2, <1>4, <2>1 DEF WatcherOK
<1> QED
    BY <1>2, <1>3, <1>4, <1>5, OneStream

LEMMA ListEvents ==
    ASSUME EventInv, NEW w \in Watchers, List(w)
    PROVE  EventInv' /\ watcher'[w].shown = watcher[w].shown
<1> DEFINE rows == [i \in Batch(w) |-> table[i]]
           full == Cardinality(Batch(w)) = Limit
           v == [watcher[w] EXCEPT !.pc = "send", !.batch = rows, !.full = full]
<1>1. /\ watcher[w] \in Watcher /\ WatcherOK(w) /\ watcher \in [Watchers -> Watcher]
      /\ UNCHANGED <<job, next, table, writer>>
    BY DEF EventInv, TypeOK, List
<1>2. Beyond(w) \subseteq DOMAIN table /\ Beyond(w) \in SUBSET Ids /\ Batch(w) \subseteq Beyond(w)
    <2>1. 1..next - 1 \subseteq Ids
        BY EventsAssumption DEF EventInv, TypeOK, Ids
    <2> QED
        BY <2>1 DEF EventInv, TypeOK, Beyond, Batch
<1>3. rows \in UNION {[ids -> Snapshot \cup {Empty}] : ids \in SUBSET Ids}
    <2>1. rows \in [Batch(w) -> Snapshot \cup {Empty}]
        BY <1>2 DEF EventInv, TypeOK
    <2> QED
        BY <1>2, <2>1
<1>4. DOMAIN rows = Batch(w) /\ \A i \in Batch(w) : rows[i] = table[i]
    OBVIOUS
<1>5. ~full => Batch(w) = Beyond(w)
    BY <1>2, ListIsComplete DEF Batch
<1>6. full \in BOOLEAN
    OBVIOUS
<1>7. watcher' = [watcher EXCEPT ![w] = v]
    BY DEF List
<1> HIDE DEF rows, full
<1>8. /\ v \in Watcher /\ v.pc = "send" /\ v.batch = rows /\ v.full = full
      /\ v.cursor = watcher[w].cursor /\ v.shown = watcher[w].shown
    BY <1>1, <1>3, <1>6 DEF Watcher
<1> HIDE DEF v
<1>9. watcher'[w] = v
    BY <1>1, <1>7
<1>10. Beyond(w)' = Beyond(w)
    BY <1>1, <1>8, <1>9 DEF Beyond
<1>11. WatcherOK(w)'
    <2>1. \A i \in DOMAIN rows : i \in Beyond(w) /\ table[i] = rows[i]
        BY <1>2, <1>4
    <2>2. ~full => Beyond(w) \ DOMAIN rows = {}
        BY <1>4, <1>5
    <2>3. watcher[w].shown # 0 =>
              \E i \in DOMAIN table : /\ i <= watcher[w].cursor /\ table[i] # Empty
                                      /\ table[i].version = watcher[w].shown
        BY <1>1 DEF WatcherOK
    <2> QED
        BY <1>1, <1>8, <1>9, <1>10, <2>1, <2>2, <2>3 DEF WatcherOK
<1> QED
    BY <1>1, <1>7, <1>8, <1>9, <1>11, OneStream

\* The client has part of the batch: its cursor is within the batch, or where it was,
\* and what it shows is an event of the table, a newer one than before.
Grown(w, v, i) ==
    /\ v \in Watcher
    /\ v.pc = watcher[w].pc /\ v.woken = watcher[w].woken /\ v.full = watcher[w].full
    /\ v.batch = NoRows /\ v.cursor = i
    /\ i >= watcher[w].cursor
    /\ v.shown # 0 => \E k \in DOMAIN table : /\ k <= i /\ table[k] # Empty
                                              /\ table[k].version = v.shown
    /\ InOrder => v.shown >= watcher[w].shown

LEMMA ReceivedGrows ==
    ASSUME EventInv, NEW w \in Watchers, NEW i \in Sent(w) \cup {watcher[w].cursor}
    PROVE  Grown(w, Received(w, i), i)
<1> DEFINE batch == watcher[w].batch
           cursor == watcher[w].cursor
           got == {j \in Sent(w) : j <= i /\ batch[j] # Empty}
           shown == IF got = {} THEN watcher[w].shown ELSE batch[Max(got)].version
           v == [watcher[w] EXCEPT !.batch = NoRows, !.cursor = i, !.shown = shown]
<1>1. watcher[w] \in Watcher /\ WatcherOK(w)
    BY DEF EventInv, TypeOK
<1>2. /\ cursor \in 0..MaxEvents /\ MaxEvents \in Nat /\ MaxWrites \in Nat
      /\ watcher[w].shown \in 0..MaxWrites
    BY <1>1, EventsAssumption DEF Watcher
<1>3. Sent(w) \subseteq DOMAIN batch /\ DOMAIN batch \subseteq Beyond(w)
    BY <1>1 DEF Sent, WatcherOK
<1>4. DOMAIN table \subseteq Ids
    BY EventsAssumption DEF EventInv, TypeOK, Ids
<1>5. \A j \in Sent(w) : j \in DOMAIN table /\ j \in Ids /\ j > cursor
    BY <1>3, <1>4 DEF Beyond
<1>6. i \in 0..MaxEvents /\ i >= cursor
    <2>1. CASE i = cursor
        BY <1>2, <2>1
    <2>2. CASE i \in Sent(w)
        BY <1>2, <1>5, <2>2 DEF Ids
    <2> QED
        BY <2>1, <2>2
<1>7. got \in SUBSET Ids
    BY <1>5
<1>8. CASE got = {}
    <2>1. shown = watcher[w].shown
        BY <1>8
    <2>2. shown # 0 => \E k \in DOMAIN table : /\ k <= i /\ table[k] # Empty
                                               /\ table[k].version = shown
        <3> SUFFICES ASSUME shown # 0
                     PROVE  \E k \in DOMAIN table : /\ k <= i /\ table[k] # Empty
                                                    /\ table[k].version = shown
            OBVIOUS
        <3>1. PICK k \in DOMAIN table : /\ k <= cursor /\ table[k] # Empty
                                        /\ table[k].version = shown
            BY <1>1, <2>1 DEF WatcherOK
        <3>2. k <= i
            BY <1>2, <1>4, <1>6, <3>1 DEF Ids
        <3> QED
            BY <3>1, <3>2
    <2> HIDE DEF shown, got
    <2>3. /\ v \in Watcher /\ v.pc = watcher[w].pc /\ v.woken = watcher[w].woken
          /\ v.full = watcher[w].full /\ v.batch = NoRows /\ v.cursor = i /\ v.shown = shown
        <3>1. NoRows \in UNION {[ids -> Snapshot \cup {Empty}] : ids \in SUBSET Ids}
            BY DEF NoRows
        <3> QED
            BY <1>1, <1>2, <1>6, <2>1, <3>1 DEF Watcher
    <2>4. v = Received(w, i)
        BY <1>1 DEF Received, shown, got, Watcher
    <2> HIDE DEF v
    <2>5. v.shown >= watcher[w].shown
        BY <1>2, <2>1, <2>3
    <2> QED
        BY <1>6, <2>2, <2>3, <2>4, <2>5 DEF Grown
<1>9. CASE got # {}
    <2> DEFINE m == Max(got)
    <2>1. m \in got
        BY <1>7, <1>9, LastId
    <2>2. m \in Sent(w) /\ m <= i /\ batch[m] # Empty
        BY <2>1
    <2>3. m \in DOMAIN table /\ m \in Ids /\ m > cursor /\ table[m] = batch[m]
        BY <1>1, <1>3, <1>5, <2>2 DEF WatcherOK
    <2>4. shown = table[m].version /\ table[m] \in Snapshot
        BY <1>9, <2>2, <2>3 DEF EventInv, TypeOK
    <2>5. shown \in 0..MaxWrites
        BY <2>4 DEF Snapshot
    <2>6. InOrder => shown >= watcher[w].shown
        <3> SUFFICES ASSUME InOrder, watcher[w].shown # 0
                     PROVE  shown >= watcher[w].shown
            BY <1>2, <2>5
        <3>1. PICK k \in DOMAIN table : /\ k <= cursor /\ table[k] # Empty
                                        /\ table[k].version = watcher[w].shown
            BY <1>1 DEF WatcherOK
        <3>2. k < m
            BY <1>2, <1>4, <2>3, <3>1 DEF Ids
        <3>3. table[k].version <= table[m].version
            BY <2>2, <2>3, <3>1, <3>2 DEF InOrder
        <3> HIDE DEF shown, m
        <3> QED
            BY <1>2, <2>4, <2>5, <3>1, <3>3
    <2>7. \E k \in DOMAIN table : k <= i /\ table[k] # Empty /\ table[k].version = shown
        BY <2>2, <2>3, <2>4
    <2> HIDE DEF m, shown, got
    <2>8. /\ v \in Watcher /\ v.pc = watcher[w].pc /\ v.woken = watcher[w].woken
          /\ v.full = watcher[w].full /\ v.batch = NoRows /\ v.cursor = i /\ v.shown = shown
        <3>1. NoRows \in UNION {[ids -> Snapshot \cup {Empty}] : ids \in SUBSET Ids}
            BY DEF NoRows
        <3> QED
            BY <1>1, <1>6, <2>5, <3>1 DEF Watcher
    <2>9. v = Received(w, i)
        BY <1>1 DEF Received, shown, got, Watcher
    <2> HIDE DEF v
    <2> QED
        BY <1>6, <2>6, <2>7, <2>8, <2>9 DEF Grown
<1> QED
    BY <1>8, <1>9

\* A stream that is not at the end of its job has sent the whole batch.
LEMMA AllIsSent ==
    ASSUME EventInv, NEW w \in Watchers, ~Ends(w)
    PROVE  Sent(w) = DOMAIN watcher[w].batch
<1> DEFINE batch == watcher[w].batch
           ends == {i \in DOMAIN batch : Terminal(batch[i])}
<1>1. ends \in SUBSET Ids
    <2>1. DOMAIN batch \subseteq DOMAIN table /\ 1..next - 1 \subseteq Ids
        BY EventsAssumption DEF EventInv, TypeOK, WatcherOK, Beyond, Ids
    <2> QED
        BY <2>1 DEF EventInv, TypeOK
<1>2. CASE ~watcher[w].single
    BY <1>2 DEF Sent
<1>3. CASE ends = {}
    BY <1>3 DEF Sent
<1>4. CASE watcher[w].single /\ ends # {}
    <2>1. PICK i \in ends : \A j \in ends : i <= j
        <3> HIDE DEF ends
        <3> QED
            BY <1>1, <1>4, FirstId
    <2>2. \A j \in DOMAIN batch : j < i => ~Terminal(batch[j])
        <3> SUFFICES ASSUME NEW j \in ends, j < i PROVE FALSE
            OBVIOUS
        <3>1. i <= j /\ i \in Nat /\ j \in Nat
            BY <1>1, <2>1 DEF Ids
        <3> QED
            BY <3>1
    <2>3. i \in Sent(w) /\ Terminal(batch[i])
        BY <2>1, <2>2 DEF Sent
    <2> QED
        BY <1>4, <2>3 DEF Ends
<1> QED
    BY <1>2, <1>3, <1>4

\* SendPending and BreakOff: when the stream goes on, it has sent everything.
LEMMA StreamSent ==
    ASSUME EventInv, NEW w \in Watchers, NEW i \in Sent(w) \cup {watcher[w].cursor},
           NEW pc \in {"idle", "wait", "closed"},
           watcher' = [watcher EXCEPT ![w] = [Received(w, i) EXCEPT !.pc = pc]],
           UNCHANGED <<job, next, table, writer>>, watcher[w].pc = "send",
           pc = "wait" => ~Ends(w) /\ \A j \in Sent(w) : j <= i
    PROVE  EventInv' /\ (InOrder => watcher'[w].shown >= watcher[w].shown)
<1> DEFINE r == Received(w, i)
           v == [r EXCEPT !.pc = pc]
<1>1. WatcherOK(w) /\ watcher[w] \in Watcher /\ watcher \in [Watchers -> Watcher]
    BY DEF EventInv, TypeOK
<1>2. Grown(w, r, i)
    BY ReceivedGrows
<1>3. watcher' = [watcher EXCEPT ![w] = v]
    OBVIOUS
<1> HIDE DEF r
<1>4. /\ v \in Watcher /\ v.pc = pc /\ v.batch = NoRows /\ v.cursor = i
      /\ v.shown = r.shown /\ v.woken = watcher[w].woken /\ v.full = watcher[w].full
    BY <1>2 DEF Grown, Watcher
<1> HIDE DEF v
<1>5. watcher'[w] = v
    BY <1>1, <1>3
<1>6. DOMAIN NoRows = {}
    BY DEF NoRows
<1>7. \A j \in Beyond(w)' : j \in Beyond(w) /\ j > i
    <2> SUFFICES ASSUME NEW j \in Beyond(w)' PROVE j \in Beyond(w) /\ j > i
        OBVIOUS
    <2>1. j \in DOMAIN table /\ j > i
        BY <1>4, <1>5 DEF Beyond
    <2>2. j \in Nat /\ i \in Nat /\ watcher[w].cursor \in Nat /\ i >= watcher[w].cursor
        BY <1>1, <1>2, <1>4, <2>1, EventsAssumption DEF EventInv, TypeOK, Watcher, Grown
    <2> QED
        BY <2>1, <2>2 DEF Beyond
<1>8. ASSUME pc = "wait", ~watcher[w].woken, ~watcher[w].full,
             NEW j \in Beyond(w)', table[j] # Empty
      PROVE  Publishing(j)'
    <2>1. j \notin DOMAIN watcher[w].batch
        <3> SUFFICES ASSUME j \in Sent(w) PROVE FALSE
            BY <1>8, AllIsSent
        <3>1. j <= i /\ j > i /\ j \in Nat
            BY <1>7, <1>8, EventsAssumption DEF EventInv, TypeOK, Beyond
        <3>2. i \in Nat
            BY <1>4, EventsAssumption DEF Watcher
        <3> QED
            BY <3>1, <3>2
    <2>2. Publishing(j)
        BY <1>1, <1>7, <1>8, <2>1 DEF WatcherOK
    <2> QED
        BY <2>2 DEF Publishing
<1>9. WatcherOK(w)'
    <2>1. watcher'[w].shown # 0 =>
              \E k \in DOMAIN table' : /\ k <= watcher'[w].cursor /\ table'[k] # Empty
                                       /\ table'[k].version = watcher'[w].shown
        BY <1>2, <1>4, <1>5 DEF Grown
    <2>2. watcher'[w].pc # "send" /\ watcher'[w].batch = NoRows
        BY <1>4, <1>5
    <2>3. watcher'[w].pc = "wait" /\ ~watcher'[w].woken /\ ~watcher'[w].full =>
              \A j \in Beyond(w)' : table'[j] # Empty => Publishing(j)'
        BY <1>4, <1>5, <1>8
    <2> QED
        BY <1>6, <2>1, <2>2, <2>3 DEF WatcherOK
<1>10. EventInv'
    BY <1>3, <1>4, <1>9, OneStream
<1> QED
    BY <1>2, <1>4, <1>5, <1>10 DEF Grown

LEMMA StreamEvents ==
    ASSUME EventInv, NEW w \in Watchers,
           \/ Connect(w) \/ List(w) \/ SendPending(w)
           \/ BreakOff(w) \/ Wake(w) \/ Disconnect(w)
    PROVE  /\ EventInv'
           /\ InOrder => \A u \in Watchers : watcher'[u].shown >= watcher[u].shown
<1>1. \A u \in Watchers : watcher[u] \in Watcher /\ watcher[u].shown \in Nat
    BY EventsAssumption DEF EventInv, TypeOK, Watcher
<1>2. \A u \in Watchers \ {w} : watcher'[u] = watcher[u]
    BY DEF EventInv, TypeOK, Connect, List, SendPending, BreakOff, Wake, Disconnect
<1> DEFINE Kept == watcher'[w].shown = watcher[w].shown
<1>3. CASE Connect(w)
    <2>1. Turns(w, "list", FALSE) /\ UNCHANGED <<job, next, table, writer>>
        BY <1>1, <1>3 DEF Connect, Turns
    <2>2. EventInv' /\ Kept
        BY <2>1, StreamTurns
    <2> QED
        BY <1>1, <1>2, <2>2
<1>4. CASE Wake(w)
    <2>1. Turns(w, "list", FALSE) /\ UNCHANGED <<job, next, table, writer>>
        BY <1>1, <1>4 DEF Wake, Turns
    <2>2. EventInv' /\ Kept
        BY <2>1, StreamTurns
    <2> QED
        BY <1>1, <1>2, <2>2
<1>5. CASE Disconnect(w)
    <2>1. [watcher[w] EXCEPT !.pc = "idle"] =
              [watcher[w] EXCEPT !.pc = "idle", !.woken = watcher[w].woken]
        BY <1>1 DEF Watcher
    <2>2. Turns(w, "idle", watcher[w].woken) /\ UNCHANGED <<job, next, table, writer>>
        BY <1>5, <2>1 DEF Disconnect, Turns
    <2>3. watcher[w].woken \in BOOLEAN
        BY <1>1 DEF Watcher
    <2>4. EventInv' /\ Kept
        BY <2>2, <2>3, StreamTurns
    <2> QED
        BY <1>1, <1>2, <2>4
<1>6. CASE List(w)
    <2>1. EventInv' /\ Kept
        BY <1>6, ListEvents
    <2> QED
        BY <1>1, <1>2, <2>1
<1>7. CASE SendPending(w)
    <2> DEFINE last == IF Sent(w) = {} THEN watcher[w].cursor ELSE Max(Sent(w))
               pc == IF Ends(w) THEN "closed" ELSE "wait"
    <2>1. /\ watcher' = [watcher EXCEPT ![w] = [Received(w, last) EXCEPT !.pc = pc]]
          /\ UNCHANGED <<job, next, table, writer>> /\ watcher[w].pc = "send"
        BY <1>7 DEF SendPending
    <2>2. Sent(w) \in SUBSET Ids
        <3>1. DOMAIN watcher[w].batch \subseteq DOMAIN table /\ 1..next - 1 \subseteq Ids
            BY EventsAssumption DEF EventInv, TypeOK, WatcherOK, Beyond, Ids
        <3> QED
            BY <3>1 DEF EventInv, TypeOK, Sent
    <2>3. last \in Sent(w) \cup {watcher[w].cursor} /\ \A j \in Sent(w) : j <= last
        <3>1. CASE Sent(w) = {}
            BY <3>1
        <3>2. CASE Sent(w) # {}
            <4>1. Max(Sent(w)) \in Sent(w) /\ \A j \in Sent(w) : Max(Sent(w)) >= j
                BY <2>2, <3>2, LastId
            <4> QED
                BY <2>2, <3>2, <4>1 DEF Ids
        <3> QED
            BY <3>1, <3>2
    <2>4. pc \in {"idle", "wait", "closed"} /\ (pc = "wait" => ~Ends(w))
        OBVIOUS
    <2> HIDE DEF last, pc
    <2>5. EventInv' /\ (InOrder => watcher'[w].shown >= watcher[w].shown)
        BY <2>1, <2>3, <2>4, StreamSent
    <2> QED
        BY <1>1, <1>2, <2>5
<1>8. CASE BreakOff(w)
    <2>1. PICK i \in Sent(w) \cup {watcher[w].cursor} :
              watcher' = [watcher EXCEPT ![w] = [Received(w, i) EXCEPT !.pc = "idle"]]
        BY <1>8 DEF BreakOff
    <2>2. EventInv' /\ (InOrder => watcher'[w].shown >= watcher[w].shown)
        BY <1>8, <2>1, StreamSent DEF BreakOff
    <2> QED
        BY <1>1, <1>2, <2>2
<1> QED
    BY <1>3, <1>4, <1>5, <1>6, <1>7, <1>8

LEMMA ListenEvents == EventInv /\ Listen => EventInv'
<1> SUFFICES ASSUME EventInv, Listen PROVE EventInv'
    OBVIOUS
<1>1. watcher' = Woken /\ UNCHANGED <<job, next, table, writer>>
    BY DEF Listen
<1>2. watcher' \in [Watchers -> Watcher] /\ \A w \in Watchers : WatcherOK(w)'
    BY <1>1, AllWoken
<1>3. TypeOK'
    BY <1>1, <1>2 DEF EventInv, TypeOK
<1>4. \A p \in Writers : WriterOK(p)'
    BY <1>1 DEF EventInv, WriterOK
<1> QED
    BY <1>1, <1>2, <1>3, <1>4 DEF EventInv

LEMMA RestartEvents == EventInv /\ Restart => EventInv'
<1> SUFFICES ASSUME EventInv, Restart PROVE EventInv'
    OBVIOUS
<1>1. /\ UNCHANGED <<job, next, table>> /\ MaxEvents \in Nat
      /\ writer' = [p \in Writers |-> IdleWriter]
    BY EventsAssumption DEF Restart
<1>2. \A p \in Writers : writer'[p].pc = "idle" /\ writer'[p].id = 0 /\ writer'[p] \in Writer
    BY <1>1 DEF IdleWriter, Writer
<1>3. ASSUME NEW w \in Watchers
      PROVE  watcher'[w] \in Watcher /\ WatcherOK(w)'
    <2>1. watcher[w] \in Watcher /\ WatcherOK(w) /\ DOMAIN NoRows = {}
        BY DEF EventInv, TypeOK, NoRows
    <2>2. CASE watcher[w].pc = "closed"
        <3>1. watcher'[w] = watcher[w]
            BY <2>2 DEF Restart
        <3> QED
            BY <1>1, <2>1, <2>2, <3>1 DEF WatcherOK
    <2>3. CASE watcher[w].pc # "closed"
        <3> DEFINE v == [watcher[w] EXCEPT !.pc = "idle", !.batch = NoRows]
        <3>1. NoRows \in UNION {[ids -> Snapshot \cup {Empty}] : ids \in SUBSET Ids}
            BY DEF NoRows
        <3>2. /\ v \in Watcher /\ v.pc = "idle" /\ v.batch = NoRows
              /\ v.cursor = watcher[w].cursor /\ v.shown = watcher[w].shown
            BY <2>1, <3>1 DEF Watcher
        <3>3. watcher'[w] = v
            BY <2>3 DEF Restart
        <3> HIDE DEF v
        <3> QED
            BY <1>1, <2>1, <3>2, <3>3 DEF WatcherOK
    <2> QED
        BY <2>2, <2>3
<1>4. watcher' \in [Watchers -> Watcher]
    BY <1>3 DEF Restart
<1>5. TypeOK'
    BY <1>1, <1>2, <1>4 DEF EventInv, TypeOK
<1>6. \A p \in Writers : WriterOK(p)'
    BY <1>2 DEF WriterOK
<1> QED
    BY <1>2, <1>3, <1>5, <1>6 DEF EventInv

LEMMA NextEvents == EventInv /\ [Next]_vars => EventInv'
<1> SUFFICES ASSUME EventInv, [Next]_vars PROVE EventInv'
    OBVIOUS
<1>1. CASE UNCHANGED vars
    <2>1. UNCHANGED <<job, next, table, writer, watcher>>
        BY <1>1 DEF vars
    <2>2. TypeOK'
        BY <2>1 DEF EventInv, TypeOK
    <2>3. \A p \in Writers : WriterOK(p)'
        BY <2>1 DEF EventInv, WriterOK
    <2>4. \A w \in Watchers : WatcherOK(w)'
        BY <2>1 DEF EventInv, WatcherOK, Beyond, Publishing
    <2> QED
        BY <2>1, <2>2, <2>3, <2>4 DEF EventInv
<1>2. ASSUME NEW p \in Writers, WriterStep(p) \/ \E status \in Status : Write(p, status)
      PROVE  EventInv'
    BY <1>2, WriterEvents
<1>3. ASSUME NEW w \in Watchers,
             \/ Connect(w) \/ List(w) \/ SendPending(w)
             \/ BreakOff(w) \/ Wake(w) \/ Disconnect(w)
      PROVE  EventInv'
    BY <1>3, StreamEvents
<1>4. CASE Listen
    BY <1>4, ListenEvents
<1>5. CASE Restart
    BY <1>5, RestartEvents
<1> QED
    BY <1>1, <1>2, <1>3, <1>4, <1>5 DEF Next

LEMMA EventsInvariant == Spec => []EventInv
<1> QED
    BY InitEvents, NextEvents, PTL DEF Spec

\* Every event of job_events has one writer, who finds the row it fills in
\* (PublishSnapshot): also with any number of activities that publish at once.
THEOREM EventsStaySound == Spec => []EventsAreSound
<1>1. EventInv => EventsAreSound
    <2> SUFFICES ASSUME EventInv PROVE EventHasOneWriter
        BY DEF EventInv, EventsAreSound
    <2> SUFFICES ASSUME NEW p \in Writers, writer[p].pc \in {"commit", "fill", "publish"}
                 PROVE  /\ writer[p].pc # "commit" => writer[p].id \in DOMAIN table
                        /\ \A q \in Writers \ {p} : writer[q].id # writer[p].id
        BY DEF EventHasOneWriter
    <2>1. WriterOK(p) /\ next \in Int
        BY DEF EventInv, TypeOK
    <2>2. writer[p].id # 0
        BY <2>1 DEF WriterOK
    <2> QED
        BY <2>1, <2>2 DEF EventInv, WriterOK
<1> QED
    BY <1>1, EventsInvariant, PTL

\* Subscribing before the first List, and a channel of capacity one, are enough for
\* no wakeup to be lost (watchJobEvents, broker.publish).
THEOREM SleepersAreUpToDate == Spec => []SleepsOnlyWhenUpToDate
<1>1. EventInv => SleepsOnlyWhenUpToDate
    <2> SUFFICES ASSUME EventInv, NEW w \in Watchers, watcher[w].pc = "wait",
                        ~watcher[w].woken, ~watcher[w].full,
                        NEW i \in Beyond(w), table[i] # Empty
                 PROVE  \E p \in Writers : writer[p].pc = "publish" /\ writer[p].id = i
        BY DEF SleepsOnlyWhenUpToDate
    <2>1. watcher[w].batch = NoRows /\ DOMAIN NoRows = {}
        BY DEF EventInv, WatcherOK, NoRows
    <2>2. Publishing(i)
        BY <2>1 DEF EventInv, WatcherOK
    <2> QED
        BY <2>2 DEF Publishing
<1> QED
    BY <1>1, EventsInvariant, PTL

\* As long as the events are in order, no client goes back to an older state of the
\* job, whatever it reconnects to and after however many restarts.
THEOREM ClientsNeverFallBack == Spec => NeverFallsBack
<1> DEFINE Forward == InOrder => \A w \in Watchers : watcher'[w].shown >= watcher[w].shown
<1>1. EventInv /\ [Next]_vars => [Forward]_vars
    <2> SUFFICES ASSUME EventInv, Next PROVE Forward
        OBVIOUS
    <2>1. \A w \in Watchers : watcher[w] \in Watcher /\ watcher[w].shown \in Nat
        BY EventsAssumption DEF EventInv, TypeOK, Watcher
    <2>2. CASE UNCHANGED watcher
        BY <2>1, <2>2
    <2>3. CASE watcher' = Woken
        <3>1. \A w \in Watchers : watcher'[w].shown = watcher[w].shown
            BY <2>1, <2>3 DEF Woken, Watcher
        <3> QED
            BY <2>1, <3>1
    <2>4. CASE Restart
        <3>1. \A w \in Watchers : watcher'[w].shown = watcher[w].shown
            BY <2>1, <2>4 DEF Restart, Watcher
        <3> QED
            BY <2>1, <3>1
    <2>5. ASSUME NEW w \in Watchers,
                 \/ Connect(w) \/ List(w) \/ SendPending(w)
                 \/ BreakOff(w) \/ Wake(w) \/ Disconnect(w)
          PROVE  Forward
        BY <2>5, StreamEvents
    <2>6. ASSUME NEW p \in Writers, WriterStep(p) \/ \E status \in Status : Write(p, status)
          PROVE  UNCHANGED watcher \/ watcher' = Woken
        BY <2>6 DEF WriterStep, Write, Read, Insert, Commit, Fill, Publish, Fail
    <2>7. Listen => watcher' = Woken
        BY DEF Listen
    <2> HIDE DEF Forward
    <2> QED
        BY <2>2, <2>3, <2>4, <2>5, <2>6, <2>7 DEF Next
<1>2. Spec => [][Forward]_vars
    BY <1>1, EventsInvariant, PTL DEF Spec
<1> QED
    BY <1>2 DEF NeverFallsBack
=============================================================================
