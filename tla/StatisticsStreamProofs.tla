----------------------- MODULE StatisticsStreamProofs -----------------------
(***************************************************************************)
(* Theorems about StatisticsStream, for every set of consumers, every      *)
(* number of entries and every batch size: an entry is counted at most     *)
(* once, and none leaves the stream or falls behind the replay floor       *)
(* before it is settled.                                                   *)
(***************************************************************************)
EXTENDS StatisticsStream, FiniteSetTheorems, WellFoundedInduction, TLAPS

-----------------------------------------------------------------------------
(* The inductive invariant.                                                *)

\* The ledger, or once it is retired the floor, remembers what was counted.
Remembered ==
    /\ \A e \in Id : counted[e] <= 1
    /\ \A e \in Id : counted[e] = 1 => e \in ledger \/ e < floor
    /\ \A e \in ledger : counted[e] = 1

\* The message IDs a worker may acknowledge are settled.
ReadySettled == \A c \in Consumer : \A e \in Ready(worker[c]) : Settled(e)

\* Group r has every unsettled entry it delivered in its pending list, and
\* nothing else there than entries it delivered.
GroupSound(r) ==
    /\ r.delivered < next
    /\ \A e \in r.entries : e < next
    /\ \A e \in Id : r.owner[e] # None => e <= r.delivered
    /\ \A e \in Id : e <= r.delivered => Settled(e) \/ r.owner[e] # None

\* The boundary that a maintenance pass carries is behind the work as well.
BoundaryBehindWork ==
    maint.pc \in {"trim", "retire"} => \A e \in Id : e < maint.before => Settled(e)

Delivery ==
    /\ BufferTracked
    /\ ReadySettled
    /\ NothingLost
    /\ GroupSound(redis)
    /\ GroupSound(disk)
    /\ FloorBehindWork
    /\ BoundaryBehindWork

-----------------------------------------------------------------------------
(* Lemmas on the operators.                                                *)

\* Every non-empty set of naturals has a least element.
LEMMA LeastId ==
    ASSUME NEW T \in SUBSET Nat, T # {}
    PROVE  \E x \in T : \A y \in T : x <= y
<1>1. PICK x \in T : \A y \in T : ~ (<<y, x>> \in OpToRel(<, Nat))
  BY NatLessThanWellFounded, WFMin
<1>2. ASSUME NEW y \in T PROVE x <= y
  <2>1. ~(y < x)
    BY <1>1 DEF OpToRel
  <2>2. QED
    BY <2>1
<1>3. QED
  BY <1>2

\* The script returns the lowest pending ID, or the ID after the last delivered.
LEMMA ReplayFloorValue ==
    ASSUME NEW r \in Stream
    PROVE  /\ ReplayFloor(r) \in 0..MaxId + 1
           /\ Pending(r) # {} => ReplayFloor(r) \in Pending(r) /\ \A f \in Pending(r) : ReplayFloor(r) <= f
           /\ Pending(r) = {} => ReplayFloor(r) = r.delivered + 1
<1>1. MaxId \in Nat
  BY StreamAssumption
<1>2. CASE Pending(r) = {}
  BY <1>1, <1>2 DEF ReplayFloor, Stream
<1>3. CASE Pending(r) # {}
  <2>1. Pending(r) \in SUBSET Nat
    BY <1>1 DEF Pending, Id
  <2>2. \E e \in Pending(r) : \A f \in Pending(r) : e <= f
    BY <1>3, <2>1, LeastId
  <2>3. ReplayFloor(r) \in Pending(r) /\ \A f \in Pending(r) : ReplayFloor(r) <= f
    BY <1>3, <2>2 DEF ReplayFloor
  <2>4. ReplayFloor(r) \in 1..MaxId
    BY <2>3 DEF Pending, Id
  <2>5. QED
    BY <1>1, <1>3, <2>3, <2>4
<1>4. QED
  BY <1>2, <1>3

\* A page of the first n IDs has no gaps.
LEMMA FirstOfClosed ==
    ASSUME NEW S \in SUBSET Id, NEW n \in Nat, NEW e \in S, NEW m \in FirstOf(S, n), e <= m
    PROVE  e \in FirstOf(S, n)
<1>1. MaxId \in Nat
  BY StreamAssumption
<1> DEFINE A == {f \in S : f < e}
           B == {f \in S : f < m}
<1>2. m \in S /\ Cardinality(B) < n
  BY DEF FirstOf
<1>3. A \subseteq B
  <2>1. \A f \in S : f \in Nat
    BY <1>1 DEF Id
  <2>2. ASSUME NEW f \in S, f < e PROVE f < m
    BY <1>2, <2>1, <2>2
  <2>3. QED
    BY <2>2
<1>4. IsFiniteSet(Id)
  <2>1. 1 \in Int /\ MaxId \in Int
    BY <1>1
  <2>2. QED
    BY <2>1, FS_Interval DEF Id
<1>5. IsFiniteSet(B)
  BY <1>4, FS_Subset
<1>6. Cardinality(A) <= Cardinality(B) /\ IsFiniteSet(A)
  BY <1>3, <1>5, FS_Subset
<1>7. Cardinality(A) \in Nat /\ Cardinality(B) \in Nat
  BY <1>5, <1>6, FS_CardinalityType
<1>8. Cardinality(A) < n
  BY <1>2, <1>6, <1>7
<1>9. QED
  BY <1>8 DEF FirstOf

\* A page consists of elements of the set it is taken from.
LEMMA FirstOfSubset == \A S, n : FirstOf(S, n) \subseteq S
BY DEF FirstOf

\* The stages of a flush change neither the buffer nor the tracked IDs.
LEMMA Stages ==
    ASSUME NEW w \in WorkerState
    PROVE  \A v \in {EndFlush(w), AckRest(w), Persist(w), BeginFlush(w), RetryLater(w)} :
              v \in WorkerState /\ v.buf = w.buf /\ v.ids = w.ids
<1>1. EndFlush(w) \in WorkerState /\ EndFlush(w).buf = w.buf /\ EndFlush(w).ids = w.ids
  BY DEF EndFlush, WorkerState
<1>2. RetryLater(w) \in WorkerState /\ RetryLater(w).buf = w.buf /\ RetryLater(w).ids = w.ids
  BY DEF RetryLater, WorkerState
<1>3. AckRest(w) \in WorkerState /\ AckRest(w).buf = w.buf /\ AckRest(w).ids = w.ids
  BY <1>1 DEF AckRest, WorkerState
<1>4. Persist(w) \in WorkerState /\ Persist(w).buf = w.buf /\ Persist(w).ids = w.ids
  BY <1>3 DEF Persist, WorkerState
<1>5. BeginFlush(w) \in WorkerState /\ BeginFlush(w).buf = w.buf /\ BeginFlush(w).ids = w.ids
  BY <1>4 DEF BeginFlush, WorkerState
<1>6. QED
  BY <1>1, <1>2, <1>3, <1>4, <1>5

\* Appending buffers results together with their IDs.
LEMMA AppendTracks ==
    ASSUME NEW w \in WorkerState, NEW S \in SUBSET Id, NEW r
    PROVE  /\ Append(w, S, r) \in WorkerState
           /\ Ready(Append(w, S, r)) \subseteq Ready(w)
           /\ w.buf \subseteq w.ids => Append(w, S, r).buf \subseteq Append(w, S, r).ids
BY DEF Append, WorkerState, Ready

\* What the commands on the pending list do, owner by owner.
LEMMA SetOwnerType ==
    ASSUME NEW r \in Stream, NEW S, NEW c \in Consumer \cup {None}
    PROVE  /\ SetOwner(r, S, c) \in Stream
           /\ SetOwner(r, S, c).entries = r.entries
           /\ SetOwner(r, S, c).delivered = r.delivered
           /\ \A e \in Id : SetOwner(r, S, c).owner[e] = IF e \in S THEN c ELSE r.owner[e]
<1> DEFINE o == [e \in Id |-> IF e \in S THEN c ELSE r.owner[e]]
<1>1. o \in [Id -> Consumer \cup {None}]
  BY DEF Stream
<1>2. SetOwner(r, S, c) = [entries |-> r.entries, group |-> r.group,
                           delivered |-> r.delivered, owner |-> o]
  BY DEF SetOwner, Stream
<1>3. QED
  BY <1>1, <1>2 DEF Stream

\* XDEL and XACK take the entries out of the stream and the pending list.
LEMMA AckDeleteType ==
    ASSUME NEW r \in Stream, NEW S
    PROVE  /\ AckDelete(r, S) \in Stream
           /\ AckDelete(r, S).entries = r.entries \ S
           /\ AckDelete(r, S).delivered = r.delivered
           /\ \A e \in Id : AckDelete(r, S).owner[e] = IF e \in S THEN None ELSE r.owner[e]
<1> DEFINE t == SetOwner(r, S, None)
<1>1. /\ t \in Stream /\ t.entries = r.entries /\ t.delivered = r.delivered
      /\ \A e \in Id : t.owner[e] = IF e \in S THEN None ELSE r.owner[e]
  BY SetOwnerType
<1>2. r.entries \ S \in SUBSET Id
  BY DEF Stream
<1> HIDE DEF t
<1>3. [t EXCEPT !.entries = r.entries \ S] \in Stream
      /\ [t EXCEPT !.entries = r.entries \ S].entries = r.entries \ S
      /\ [t EXCEPT !.entries = r.entries \ S].delivered = t.delivered
      /\ [t EXCEPT !.entries = r.entries \ S].owner = t.owner
  BY <1>1, <1>2 DEF Stream
<1>4. AckDelete(r, S) = [t EXCEPT !.entries = r.entries \ S]
  BY DEF AckDelete, t
<1>5. QED
  BY <1>1, <1>3, <1>4

\* Delivery makes c the owner of a page and moves the group's position.
LEMMA DeliverType ==
    ASSUME NEW r \in Stream, NEW S, NEW last \in Id, NEW c \in Consumer
    PROVE  /\ Deliver(r, S, last, c) \in Stream
           /\ Deliver(r, S, last, c).entries = r.entries
           /\ Deliver(r, S, last, c).delivered = last
           /\ \A e \in Id : Deliver(r, S, last, c).owner[e] = IF e \in S THEN c ELSE r.owner[e]
<1> DEFINE t == SetOwner(r, S, c)
<1>1. /\ t \in Stream /\ t.entries = r.entries
      /\ \A e \in Id : t.owner[e] = IF e \in S THEN c ELSE r.owner[e]
  BY SetOwnerType
<1>2. last \in 0..MaxId
  BY StreamAssumption DEF Id
<1> HIDE DEF t
<1>3. /\ [t EXCEPT !.delivered = last] \in Stream
      /\ [t EXCEPT !.delivered = last].entries = t.entries
      /\ [t EXCEPT !.delivered = last].delivered = last
      /\ [t EXCEPT !.delivered = last].owner = t.owner
  BY <1>1, <1>2 DEF Stream
<1>4. Deliver(r, S, last, c) = [t EXCEPT !.delivered = last]
  BY DEF Deliver, t
<1>5. QED
  BY <1>1, <1>3, <1>4

\* A claim makes c the owner of what is left and frees what was trimmed.
LEMMA AutoClaimType ==
    ASSUME NEW r \in Stream, NEW S, NEW c \in Consumer
    PROVE  /\ AutoClaim(r, S, c) \in Stream
           /\ AutoClaim(r, S, c).entries = r.entries
           /\ AutoClaim(r, S, c).delivered = r.delivered
           /\ \A e \in Id : AutoClaim(r, S, c).owner[e] =
                 IF e \in S THEN (IF e \in r.entries THEN c ELSE None) ELSE r.owner[e]
<1> DEFINE t == SetOwner(r, S, None)
<1>1. /\ t \in Stream /\ t.entries = r.entries /\ t.delivered = r.delivered
      /\ \A e \in Id : t.owner[e] = IF e \in S THEN None ELSE r.owner[e]
  BY SetOwnerType
<1> HIDE DEF t
<1> DEFINE u == SetOwner(t, S \cap r.entries, c)
<1>2. /\ u \in Stream /\ u.entries = t.entries /\ u.delivered = t.delivered
      /\ \A e \in Id : u.owner[e] = IF e \in S \cap r.entries THEN c ELSE t.owner[e]
  BY <1>1, SetOwnerType
<1> HIDE DEF u
<1>3. AutoClaim(r, S, c) = u
  BY DEF AutoClaim, t, u
<1>4. QED
  BY <1>1, <1>2, <1>3

\* Creating the group keeps the entries.
LEMMA GroupCreateType ==
    ASSUME NEW r \in Stream
    PROVE  /\ GroupCreate(r) \in Stream
           /\ GroupCreate(r).entries = r.entries
           /\ \/ GroupCreate(r) = r
              \/ /\ GroupCreate(r).delivered = 0
                 /\ \A e \in Id : GroupCreate(r).owner[e] = None
<1>1. MaxId \in Nat
  BY StreamAssumption
<1>2. CASE r.group
  BY <1>2 DEF GroupCreate
<1>3. CASE ~r.group
  <2> DEFINE o == [e \in Id |-> None]
  <2>1. GroupCreate(r) = [entries |-> r.entries, group |-> TRUE, delivered |-> 0, owner |-> o]
    BY <1>3 DEF GroupCreate, NoStream
  <2>2. o \in [Id -> Consumer \cup {None}]
    OBVIOUS
  <2>3. 0 \in 0..MaxId
    BY <1>1
  <2>4. QED
    BY <2>1, <2>2, <2>3 DEF Stream
<1>4. QED
  BY <1>2, <1>3

-----------------------------------------------------------------------------
(* Types.                                                                  *)

\* The initial state is well typed.
LEMMA TypeInit == Init => TypeOK
<1> SUFFICES ASSUME Init PROVE TypeOK
  OBVIOUS
<1>1. MaxId \in Nat /\ MaxFaults \in Nat /\ MaxSaves \in Nat
  BY StreamAssumption
<1>2. NoStream \in Stream
  <2>1. [e \in Id |-> None] \in [Id -> Consumer \cup {None}]
    OBVIOUS
  <2>2. QED
    BY <1>1, <2>1 DEF NoStream, Stream
<1>3. redis \in Stream /\ disk \in Stream
  <2>1. PICK group \in BOOLEAN : redis = [NoStream EXCEPT !.group = group]
    BY DEF Init
  <2>2. redis \in Stream
    BY <1>2, <2>1 DEF Stream
  <2>3. QED
    BY <1>2, <2>2 DEF Init
<1>4. Started \in WorkerState
  BY <1>1 DEF Started, WorkerState, New
<1>5. Resting \in Maintenance
  BY <1>1 DEF Resting, Maintenance
<1>6. [c \in Consumer |-> Started] \in [Consumer -> WorkerState]
  BY <1>4
<1>7. [e \in Id |-> 0] \in [Id -> Nat]
  OBVIOUS
<1>8. QED
  BY <1>1, <1>3, <1>5, <1>6, <1>7 DEF Init, TypeOK

\* A consumer takes over a well-typed state.
LEMMA BecomesType ==
    ASSUME TypeOK, NEW c \in Consumer, NEW w \in WorkerState, Becomes(c, w)
    PROVE  worker' \in [Consumer -> WorkerState]
BY DEF TypeOK, Becomes

\* The counters of a committed transaction.
LEMMA CommitType ==
    ASSUME TypeOK, NEW A \in SUBSET Id, Commit(A)
    PROVE  /\ ledger' = ledger \cup A /\ floor' = floor
           /\ counted' \in [Id -> Nat]
           /\ \A e \in Id : counted'[e] = IF e \in A THEN counted[e] + 1 ELSE counted[e]
BY DEF TypeOK, Commit

\* Every step of the system keeps the types.
LEMMA TypeStep ==
    ASSUME TypeOK, [Next]_vars
    PROVE  TypeOK'
<1>1. MaxId \in Nat /\ MaxFaults \in Nat /\ MaxSaves \in Nat
  BY StreamAssumption
<1>2. Fault => faults' \in 0..MaxFaults
  BY <1>1 DEF Fault, TypeOK
<1>3. CASE UNCHANGED vars
  BY <1>3 DEF vars, TypeOK
<1>4. CASE AddToStream
  <2>1. PICK evicted \in SUBSET (redis.entries \cup {next}) :
            /\ redis' = [redis EXCEPT !.entries = (redis.entries \cup {next}) \ evicted]
            /\ waived' = waived \cup evicted
    BY <1>4 DEF AddToStream
  <2>2. next \in Id /\ redis.entries \in SUBSET Id
    BY <1>4 DEF AddToStream, TypeOK, Stream
  <2>3. redis' \in Stream /\ waived' \subseteq Id
    BY <2>1, <2>2 DEF TypeOK, Stream
  <2>4. next' \in 1..MaxId + 1
    BY <1>1, <1>4, <2>2 DEF AddToStream, Id
  <2>5. QED
    BY <1>4, <2>3, <2>4 DEF AddToStream, TypeOK, db, bounds
<1>5. ASSUME NEW e \in Doomed, DeleteRoute(e) PROVE TypeOK'
  BY <1>5 DEF DeleteRoute, TypeOK, db, bounds
<1>6. ASSUME NEW c \in Consumer, ConsumerStep(c) PROVE TypeOK'
  <2>w. worker[c] \in WorkerState
    BY DEF TypeOK
  <2>r. redis \in Stream
    BY DEF TypeOK
  <2>1. CASE StartFlush(c)
    <3> DEFINE w == [worker[c] EXCEPT !.retry = FALSE]
    <3>1. w \in WorkerState
      BY <2>w DEF WorkerState
    <3>2. BeginFlush(w) \in WorkerState
      BY <3>1, Stages
    <3>3. worker' \in [Consumer -> WorkerState]
      BY <2>1, <3>2, BecomesType DEF StartFlush
    <3>4. QED
      BY <2>1, <3>3 DEF StartFlush, TypeOK, db, bounds
  <2>2. ASSUME NEW S \in SUBSET Pending(redis), NEW answered \in BOOLEAN, ClaimStale(c, S, answered)
        PROVE  TypeOK'
    <3>1. redis' \in Stream
      BY <2>2, <2>r, AutoClaimType DEF ClaimStale
    <3>2. S \cap redis.entries \in SUBSET Id
      BY DEF Pending
    <3>3. Append(worker[c], S \cap redis.entries, redis) \in WorkerState
      BY <2>w, <3>2, AppendTracks
    <3>4. worker' \in [Consumer -> WorkerState] /\ faults' \in 0..MaxFaults
      <4>1. CASE answered
        BY <2>2, <3>3, <4>1, BecomesType DEF ClaimStale, TypeOK
      <4>2. CASE ~answered
        BY <1>2, <2>2, <4>2 DEF ClaimStale, TypeOK
      <4>3. QED
        BY <4>1, <4>2
    <3>5. QED
      BY <2>2, <3>1, <3>4 DEF ClaimStale, TypeOK, db
  <2>3. CASE ReadPending(c)
    <3> DEFINE page == FirstOf({e \in OwnPending(redis, c) : e > worker[c].cursor}, ReadBatch)
    <3>1. page \in SUBSET Id
      BY FirstOfSubset DEF OwnPending
    <3>2. [worker[c] EXCEPT !.cursor = New] \in WorkerState
      BY <1>1, <2>w DEF WorkerState, New
    <3>3. BeginFlush([worker[c] EXCEPT !.cursor = New]) \in WorkerState
      BY <3>2, Stages
    <3>4. ASSUME NEW last \in page
          PROVE  [Append(worker[c], page, redis) EXCEPT !.cursor = last] \in WorkerState
      <4>1. Append(worker[c], page, redis) \in WorkerState
        BY <2>w, <3>1, AppendTracks
      <4>2. last \in 0..New
        BY <1>1, <3>1 DEF Id, New
      <4> HIDE DEF page
      <4>3. QED
        BY <4>1, <4>2 DEF WorkerState
    <3>5. \E v \in WorkerState : Becomes(c, v)
      <4>1. \/ Becomes(c, BeginFlush([worker[c] EXCEPT !.cursor = New]))
            \/ \E last \in page : Becomes(c, [Append(worker[c], page, redis) EXCEPT !.cursor = last])
        BY <2>3 DEF ReadPending
      <4> HIDE DEF page
      <4>2. QED
        BY <3>3, <3>4, <4>1
    <3>6. worker' \in [Consumer -> WorkerState]
      BY <3>5, BecomesType
    <3>7. QED
      BY <2>3, <3>6 DEF ReadPending, TypeOK, db, bounds
  <2>4. ASSUME NEW answered \in BOOLEAN, ReadNew(c, answered) PROVE TypeOK'
    <3> DEFINE page == FirstOf(Unread(redis), ReadBatch)
    <3>1. page \in SUBSET Id
      BY <2>r, FirstOfSubset DEF Unread, Stream
    <3>2. PICK last \in page : redis' = Deliver(redis, page, last, c)
      BY <2>4 DEF ReadNew
    <3>3. redis' \in Stream
      BY <2>r, <3>1, <3>2, DeliverType
    <3>4. Append(worker[c], page, redis) \in WorkerState
      BY <2>w, <3>1, AppendTracks
    <3>5. worker' \in [Consumer -> WorkerState] /\ faults' \in 0..MaxFaults
      <4>1. CASE answered
        BY <2>4, <3>4, <4>1, BecomesType DEF ReadNew, TypeOK
      <4>2. CASE ~answered
        BY <1>2, <2>4, <4>2 DEF ReadNew, TypeOK
      <4>3. QED
        BY <4>1, <4>2
    <3>6. QED
      BY <2>4, <3>3, <3>5 DEF ReadNew, TypeOK, db
  <2>5. ASSUME NEW e \in worker[c].bad, Discard(c, e) PROVE TypeOK'
    <3>1. e \in Id
      BY <2>w DEF WorkerState
    <3>2. AckDelete(redis, {e}) \in Stream
      BY <2>r, AckDeleteType
    <3>3. /\ [worker[c] EXCEPT !.bad = @ \ {e}] \in WorkerState
          /\ [worker[c] EXCEPT !.bad = @ \ {e}, !.ids = @ \cup {e}] \in WorkerState
      BY <2>w, <3>1 DEF WorkerState
    <3>4. redis' \in Stream /\ faults' \in 0..MaxFaults /\ \E v \in WorkerState : Becomes(c, v)
      BY <1>2, <2>5, <2>r, <3>2, <3>3 DEF Discard, TypeOK
    <3>5. worker' \in [Consumer -> WorkerState]
      BY <3>4, BecomesType
    <3>6. waived' \subseteq Id
      BY <2>5, <3>1 DEF Discard, TypeOK
    <3>7. QED
      BY <2>5, <3>4, <3>5, <3>6 DEF Discard, TypeOK, db
  <2>6. CASE AckReady(c)
    <3>1. PICK S \in SUBSET Ready(worker[c]) :
             LET w == [worker[c] EXCEPT !.ids = @ \ S] IN
             /\ redis' = AckDelete(redis, S)
             /\ Becomes(c, IF Ready(w) # {} THEN w
                           ELSE IF At(c, "ack") THEN Persist(w) ELSE EndFlush(w))
      BY <2>6 DEF AckReady
    <3> DEFINE w == [worker[c] EXCEPT !.ids = @ \ S]
    <3>2. w \in WorkerState
      BY <2>w DEF WorkerState
    <3>3. Persist(w) \in WorkerState /\ EndFlush(w) \in WorkerState
      BY <3>2, Stages
    <3>4. worker' \in [Consumer -> WorkerState]
      <4>1. \E v \in {w, Persist(w), EndFlush(w)} : Becomes(c, v)
        BY <3>1
      <4>2. QED
        BY <3>2, <3>3, <4>1, BecomesType
    <3>5. redis' \in Stream
      BY <2>r, <3>1, AckDeleteType
    <3>6. QED
      BY <2>6, <3>4, <3>5 DEF AckReady, TypeOK, db, bounds
  <2>7. CASE AckFails(c)
    <3>1. redis' \in Stream
      BY <2>7, <2>r, AckDeleteType DEF AckFails
    <3>2. RetryLater(worker[c]) \in WorkerState
      BY <2>w, Stages
    <3>3. worker' \in [Consumer -> WorkerState]
      BY <2>7, <3>2, BecomesType DEF AckFails
    <3>4. QED
      BY <1>2, <2>7, <3>1, <3>3 DEF AckFails, TypeOK, db
  <2>8. CASE Prepare(c)
    <3>1. [worker[c] EXCEPT !.pc = "insert", !.kept = Kept(worker[c])] \in WorkerState
      BY <2>w DEF WorkerState, Kept
    <3>2. AckRest(worker[c]) \in WorkerState
      BY <2>w, Stages
    <3>3. worker' \in [Consumer -> WorkerState] /\ faults' \in 0..MaxFaults
      BY <1>2, <2>8, <3>1, <3>2, BecomesType DEF Prepare, TypeOK
    <3>4. QED
      BY <2>8, <3>3 DEF Prepare, TypeOK, db
  <2>9. ASSUME NEW page \in SUBSET worker[c].buf, InsertPage(c, page) PROVE TypeOK'
    <3> DEFINE w == worker[c]
               rest == [w EXCEPT !.buf = @ \ page]
               accepted == Accept(page \cap w.kept)
    <3>1. accepted \in SUBSET Id /\ page \in SUBSET Id
      BY <2>w DEF Accept, WorkerState
    <3>2. rest \in WorkerState
      BY <2>w DEF WorkerState
    <3>3. AckRest(rest) \in WorkerState /\ AckRest(w) \in WorkerState
      BY <2>w, <3>2, Stages
    <3>4. Commit(accepted) => ledger' \subseteq Id /\ floor' = floor /\ counted' \in [Id -> Nat]
      BY <3>1, CommitType DEF TypeOK
    <3> HIDE DEF accepted, rest
    <3>5. /\ Commit(accepted) \/ UNCHANGED db
          /\ \E v \in {rest, AckRest(rest), AckRest(w)} : Becomes(c, v)
          /\ waived' \subseteq waived \cup page
          /\ faults' \in 0..MaxFaults
          /\ UNCHANGED <<redis, disk, next, deleted, maint, saves>>
      BY <1>2, <2>9 DEF InsertPage, accepted, rest, TypeOK
    <3>6. worker' \in [Consumer -> WorkerState]
      BY <2>w, <3>2, <3>3, <3>5, BecomesType
    <3>7. ledger' \subseteq Id /\ floor' = floor /\ counted' \in [Id -> Nat]
      BY <3>4, <3>5 DEF db, TypeOK
    <3>8. waived' \subseteq Id
      BY <3>1, <3>5 DEF TypeOK
    <3>9. QED
      BY <3>5, <3>6, <3>7, <3>8 DEF TypeOK
  <2>10. CASE MissGroup(c)
    <3>1. [worker[c] EXCEPT !.pc = "repair"] \in WorkerState
      BY <2>w DEF WorkerState
    <3>2. worker' \in [Consumer -> WorkerState]
      BY <2>10, <3>1, BecomesType DEF MissGroup
    <3>3. QED
      BY <2>10, <3>2 DEF MissGroup, TypeOK, db, bounds
  <2>11. CASE RepairGroup(c)
    <3>1. [worker[c] EXCEPT !.pc = "loop", !.cursor = 0] \in WorkerState
      <4>1. 0 \in 0..New
        BY <1>1 DEF New
      <4>2. QED
        BY <2>w, <4>1 DEF WorkerState
    <3>2. worker' \in [Consumer -> WorkerState]
      BY <2>11, <3>1, BecomesType DEF RepairGroup
    <3>3. redis' \in Stream
      BY <2>11, <2>r, GroupCreateType DEF RepairGroup
    <3>4. QED
      BY <2>11, <3>2, <3>3 DEF RepairGroup, TypeOK, db, bounds
  <2>11a. CASE RepairFails(c)
    <3>1. [worker[c] EXCEPT !.pc = "loop"] \in WorkerState
      BY <2>w DEF WorkerState
    <3>2. worker' \in [Consumer -> WorkerState]
      BY <2>11a, <3>1, BecomesType DEF RepairFails
    <3>3. redis' \in Stream /\ faults' \in 0..MaxFaults
      BY <1>2, <2>11a, <2>r, GroupCreateType DEF RepairFails
    <3>4. QED
      BY <2>11a, <3>2, <3>3 DEF RepairFails, TypeOK, db
  <2>12. CASE Stop(c)
    <3>1. [Started EXCEPT !.pc = "down"] \in WorkerState
      <4>1. Started \in WorkerState
        BY <1>1 DEF Started, WorkerState, New
      <4>2. QED
        BY <4>1 DEF WorkerState
    <3>2. worker' \in [Consumer -> WorkerState]
      BY <2>12, <3>1, BecomesType DEF Stop
    <3>3. QED
      BY <1>2, <2>12, <3>2 DEF Stop, TypeOK, db
  <2>13. CASE Start(c)
    <3>1. Started \in WorkerState
      BY <1>1 DEF Started, WorkerState, New
    <3>2. worker' \in [Consumer -> WorkerState]
      BY <2>13, <3>1, BecomesType DEF Start
    <3>3. redis' \in Stream
      BY <2>13, <2>r, GroupCreateType DEF Start
    <3>4. QED
      BY <2>13, <3>2, <3>3 DEF Start, TypeOK, db, bounds
  <2>14. QED
    BY <1>6, <2>1, <2>2, <2>3, <2>4, <2>5, <2>6, <2>7, <2>8, <2>9, <2>10, <2>11,
       <2>11a, <2>12, <2>13
       DEF ConsumerStep
<1>7. CASE ReadFloor
  <2>1. ReplayFloor(redis) \in 0..MaxId + 1
    BY ReplayFloorValue DEF TypeOK
  <2>2. maint' \in Maintenance
    BY <1>1, <1>7, <2>1 DEF ReadFloor, Maintenance, Resting
  <2>3. QED
    BY <1>7, <2>2 DEF ReadFloor, TypeOK, db, bounds
<1>8. CASE MaintenanceRepair
  <2>1. redis' \in Stream
    BY <1>8, GroupCreateType DEF MaintenanceRepair, TypeOK
  <2>2. maint' \in Maintenance
    BY <1>1, <1>8 DEF MaintenanceRepair, Maintenance, Resting
  <2>3. QED
    BY <1>8, <2>1, <2>2 DEF MaintenanceRepair, TypeOK, db, bounds
<1>9. CASE TrimStream
  <2>1. redis' \in Stream
    BY <1>9 DEF TrimStream, TypeOK, Stream
  <2>2. maint' \in Maintenance
    BY <1>9 DEF TrimStream, TypeOK, Maintenance
  <2>3. QED
    BY <1>9, <2>1, <2>2 DEF TrimStream, TypeOK, db, bounds
<1>10. CASE RetireEvents
  <2>1. maint' \in Maintenance
    BY <1>1, <1>10 DEF RetireEvents, TypeOK, Maintenance, Resting
  <2>2. floor' \in 0..MaxId + 1
    BY <1>10 DEF RetireEvents, RaiseFloor, TypeOK, Maintenance
  <2>3. ledger' \subseteq Id
    BY <1>10 DEF RetireEvents, TypeOK
  <2>4. QED
    BY <1>10, <2>1, <2>2, <2>3 DEF RetireEvents, TypeOK, bounds
<1>11. CASE MaintenanceFails
  BY <1>1, <1>2, <1>11 DEF MaintenanceFails, TypeOK, db, Maintenance, Resting
<1>12. CASE Save
  BY <1>1, <1>12 DEF Save, TypeOK, db
<1>13. CASE Failover
  <2>1. waived' \subseteq Id
    BY <1>13 DEF Failover, TypeOK, Stream
  <2>2. QED
    BY <1>2, <1>13, <2>1 DEF Failover, TypeOK, db
<1>14. QED
  BY <1>3, <1>4, <1>5, <1>6, <1>7, <1>8, <1>9, <1>10, <1>11, <1>12, <1>13 DEF Next

\* The stream, the ledger, the workers and the history stay well typed.
THEOREM StreamTypeCorrect == Spec => []TypeOK
<1>1. Init => TypeOK
  BY TypeInit
<1>2. TypeOK /\ [Next]_vars => TypeOK'
  BY TypeStep
<1>3. QED
  BY <1>1, <1>2, PTL DEF Spec

-----------------------------------------------------------------------------
(* Counting.                                                               *)

\* PostgreSQL changes in two ways: a page of new entries is accepted and
\* counted, or the floor rises and identities behind it are retired.
LEMMA DatabaseSteps ==
    ASSUME TypeOK, [Next]_vars
    PROVE  \/ UNCHANGED db
           \/ \E A \in SUBSET Id :
                 /\ \A e \in A : e \notin ledger /\ e >= floor
                 /\ Commit(A)
           \/ /\ maint.pc = "retire"
              /\ floor' = RaiseFloor(maint.before) /\ counted' = counted
              /\ ledger' \subseteq ledger
              /\ \A e \in ledger : e \notin ledger' => e < floor'
<1>1. CASE UNCHANGED vars
  BY <1>1 DEF vars, db
<1>2. CASE RetireEvents
  <2>1. \A S, n : FirstOf(S, n) \subseteq S
    BY FirstOfSubset
  <2>2. QED
    BY <1>2, <2>1 DEF RetireEvents
<1>3. ASSUME NEW c \in Consumer, NEW page \in SUBSET worker[c].buf, InsertPage(c, page)
      PROVE  \/ UNCHANGED db
             \/ \E A \in SUBSET Id :
                   /\ \A e \in A : e \notin ledger /\ e >= floor
                   /\ Commit(A)
  <2> DEFINE A == Accept(page \cap worker[c].kept)
  <2>1. page \in SUBSET Id
    BY DEF TypeOK, WorkerState
  <2>2. A \in SUBSET Id /\ \A e \in A : e \notin ledger /\ e >= floor
    BY <2>1 DEF Accept
  <2>3. UNCHANGED db \/ Commit(A)
    BY <1>3 DEF InsertPage
  <2> HIDE DEF A
  <2>4. QED
    BY <2>2, <2>3
<1>4. ASSUME NEW c \in Consumer, ConsumerStep(c),
             ~ \E page \in SUBSET worker[c].buf : InsertPage(c, page)
      PROVE  UNCHANGED db
  BY <1>4 DEF ConsumerStep, StartFlush, ClaimStale, ReadPending, ReadNew, Discard, AckReady,
              AckFails, Prepare, MissGroup, RepairGroup, RepairFails, Stop, Start
<1>5. CASE \/ AddToStream \/ (\E e \in Doomed : DeleteRoute(e)) \/ ReadFloor \/ MaintenanceRepair
           \/ TrimStream \/ MaintenanceFails \/ Save \/ Failover
  BY <1>5 DEF AddToStream, DeleteRoute, ReadFloor, MaintenanceRepair, TrimStream,
              MaintenanceFails, Save, Failover
<1>6. QED
  BY <1>1, <1>2, <1>3, <1>4, <1>5 DEF Next

\* The ledger and the floor together keep remembering what was counted.
LEMMA RememberedStep ==
    ASSUME TypeOK, Remembered, [Next]_vars
    PROVE  Remembered'
<1>t. /\ MaxId \in Nat /\ counted \in [Id -> Nat] /\ ledger \subseteq Id /\ floor \in Nat
      /\ maint.before \in Nat
  BY StreamAssumption DEF TypeOK, Maintenance
<1>1. CASE UNCHANGED db
  BY <1>1 DEF Remembered, db
<1>2. ASSUME NEW A \in SUBSET Id, \A e \in A : e \notin ledger /\ e >= floor, Commit(A)
      PROVE  Remembered'
  <2>1. /\ ledger' = ledger \cup A /\ floor' = floor
        /\ \A e \in Id : counted'[e] = IF e \in A THEN counted[e] + 1 ELSE counted[e]
    BY <1>2, CommitType
  <2>2. \A e \in A : counted[e] = 0
    <3>1. \A e \in A : e \in Nat /\ e \in Id /\ ~(e < floor)
      BY <1>2, <1>t DEF Id
    <3>2. \A e \in A : counted[e] <= 1 /\ counted[e] # 1
      BY <1>2, <3>1 DEF Remembered
    <3>3. QED
      BY <1>t, <3>1, <3>2
  <2>3. \A e \in Id : counted'[e] <= 1
    BY <2>1, <2>2 DEF Remembered
  <2>4. \A e \in Id : counted'[e] = 1 => e \in ledger' \/ e < floor'
    BY <2>1 DEF Remembered
  <2>5. \A e \in ledger' : counted'[e] = 1
    BY <1>2, <1>t, <2>1, <2>2 DEF Remembered
  <2>6. QED
    BY <2>3, <2>4, <2>5 DEF Remembered
<1>3. ASSUME floor' = RaiseFloor(maint.before), counted' = counted, ledger' \subseteq ledger,
             \A e \in ledger : e \notin ledger' => e < floor'
      PROVE  Remembered'
  <2>1. floor' \in Nat /\ floor <= floor'
    BY <1>3, <1>t DEF RaiseFloor
  <2>2. \A e \in Id : counted[e] = 1 => e \in ledger' \/ e < floor'
    <3>1. \A e \in Id : e \in Nat
      BY <1>t DEF Id
    <3>2. QED
      BY <1>3, <1>t, <2>1, <3>1 DEF Remembered
  <2>3. QED
    BY <1>3, <2>2 DEF Remembered
<1>4. QED
  BY <1>1, <1>2, <1>3, DatabaseSteps

\* However often an entry is replayed it is counted at most once, also after
\* its identity was retired (acceptProxyStatisticEvents, RetireProxyStatisticEvents).
THEOREM CountedAtMostOnce == Spec => []CountedOnce
<1>1. Init => Remembered
  BY DEF Init, Remembered
<1>2. TypeOK /\ Remembered /\ [Next]_vars => Remembered'
  BY RememberedStep
<1>3. Remembered => CountedOnce
  BY DEF Remembered, CountedOnce
<1>4. QED
  BY <1>1, <1>2, <1>3, StreamTypeCorrect, PTL DEF Spec

-----------------------------------------------------------------------------
(* Delivery: the lemmas say what a step has to show for each part of the   *)
(* invariant, given that settled entries stay settled.                     *)

StaysSettled == \A e \in Id : Settled(e) => Settled(e)'

\* No step takes back a count or an exclusion.
LEMMA SettledStays ==
    ASSUME TypeOK, [Next]_vars
    PROVE  StaysSettled
<1>1. \A e \in Id : counted[e] \in Nat
  BY DEF TypeOK
<1>2. \A e \in Id : counted[e] > 0 => counted'[e] > 0
  <2>1. CASE UNCHANGED db
    BY <2>1 DEF db
  <2>2. ASSUME NEW A \in SUBSET Id, Commit(A)
        PROVE  \A e \in Id : counted[e] > 0 => counted'[e] > 0
    BY <1>1, <2>2, CommitType
  <2>3. QED
    BY <2>1, <2>2, DatabaseSteps
<1>3. waived \subseteq waived'
  <2>1. CASE UNCHANGED vars
    BY <2>1 DEF vars
  <2>2. ASSUME NEW c \in Consumer, ConsumerStep(c) PROVE waived \subseteq waived'
    BY <2>2 DEF ConsumerStep, StartFlush, ClaimStale, ReadPending, ReadNew, Discard, AckReady,
                AckFails, Prepare, InsertPage, MissGroup, RepairGroup, RepairFails, Stop, Start
  <2>3. CASE \/ AddToStream \/ (\E e \in Doomed : DeleteRoute(e)) \/ ReadFloor
             \/ MaintenanceRepair \/ TrimStream \/ RetireEvents \/ MaintenanceFails
             \/ Save \/ Failover
    BY <2>3 DEF AddToStream, DeleteRoute, ReadFloor, MaintenanceRepair, TrimStream,
                RetireEvents, MaintenanceFails, Save, Failover
  <2>4. QED
    BY <2>1, <2>2, <2>3 DEF Next
<1>4. QED
  BY <1>2, <1>3 DEF StaysSettled, Settled

\* A group whose state is left alone stays sound while IDs are handed out.
LEMMA GroupKept ==
    ASSUME TypeOK, StaysSettled, next' \in Nat, next <= next'
    PROVE  /\ GroupSound(redis) /\ redis' = redis => GroupSound(redis)'
           /\ GroupSound(disk) /\ disk' = disk => GroupSound(disk)'
<1>1. /\ next \in Nat
      /\ redis.delivered \in Nat /\ \A e \in redis.entries : e \in Nat
      /\ disk.delivered \in Nat /\ \A e \in disk.entries : e \in Nat
  BY StreamAssumption DEF TypeOK, Stream, Id
<1>2. ASSUME GroupSound(redis), redis' = redis PROVE GroupSound(redis)'
  BY <1>1, <1>2 DEF GroupSound, StaysSettled
<1>3. ASSUME GroupSound(disk), disk' = disk PROVE GroupSound(disk)'
  BY <1>1, <1>3 DEF GroupSound, StaysSettled
<1>4. QED
  BY <1>2, <1>3

\* An unchanged stream loses nothing.
LEMMA StreamKept ==
    ASSUME StaysSettled, TypeOK, NothingLost, redis' = redis, next' = next
    PROVE  NothingLost'
<1>1. \A e \in 1..next - 1 : e \in Id
  BY StreamAssumption DEF TypeOK, Id
<1>2. QED
  BY <1>1 DEF NothingLost, StaysSettled

\* Only what a consumer's new state may acknowledge has to be settled.
LEMMA WorkerKept ==
    ASSUME TypeOK, StaysSettled, BufferTracked, ReadySettled,
           NEW c \in Consumer, NEW w \in WorkerState, Becomes(c, w),
           w.buf \subseteq w.ids, \A e \in Ready(w) : Settled(e)'
    PROVE  BufferTracked' /\ ReadySettled'
<1>1. \A d \in Consumer : worker'[d] = IF d = c THEN w ELSE worker[d]
  BY DEF Becomes, TypeOK
<1>2. \A d \in Consumer : worker'[d].buf \subseteq worker'[d].ids
  BY <1>1 DEF BufferTracked
<1>3. ASSUME NEW d \in Consumer, NEW e \in Ready(worker'[d]) PROVE Settled(e)'
  <2>1. CASE d = c
    BY <1>1, <1>3, <2>1
  <2>2. CASE d # c
    <3>1. e \in Ready(worker[d])
      BY <1>1, <1>3, <2>2
    <3>2. e \in Id
      BY <3>1 DEF Ready, TypeOK, WorkerState
    <3>3. QED
      BY <3>1, <3>2 DEF ReadySettled, StaysSettled
  <2>3. QED
    BY <2>1, <2>2
<1>4. QED
  BY <1>2, <1>3 DEF BufferTracked, ReadySettled, Ready

\* A worker that does not move keeps what it may acknowledge.
LEMMA WorkersKept ==
    ASSUME TypeOK, StaysSettled, BufferTracked, ReadySettled, worker' = worker
    PROVE  BufferTracked' /\ ReadySettled'
<1>1. \A c \in Consumer : Ready(worker[c]) \subseteq Id
  BY DEF Ready, TypeOK, WorkerState
<1>2. QED
  BY <1>1 DEF BufferTracked, ReadySettled, Ready, StaysSettled

\* The floor stays behind the work.
LEMMA FloorKept ==
    ASSUME StaysSettled, FloorBehindWork, floor' = floor
    PROVE  FloorBehindWork'
BY DEF StaysSettled, FloorBehindWork

\* The boundary that a maintenance pass carries stays behind the work.
LEMMA BoundaryKept ==
    ASSUME StaysSettled, BoundaryBehindWork, maint' = maint
    PROVE  BoundaryBehindWork'
BY DEF StaysSettled, BoundaryBehindWork

\* Acknowledging and deleting settled entries loses nothing.
LEMMA AckKept ==
    ASSUME TypeOK, StaysSettled, NothingLost, GroupSound(redis), next' = next,
           NEW S, \A e \in S : Settled(e)', redis' = AckDelete(redis, S)
    PROVE  NothingLost' /\ GroupSound(redis)'
<1>1. redis \in Stream /\ next \in Nat /\ \A e \in 1..next - 1 : e \in Id
  BY StreamAssumption DEF TypeOK, Id
<1>2. /\ redis'.entries = redis.entries \ S
      /\ redis'.delivered = redis.delivered
      /\ \A e \in Id : redis'.owner[e] = IF e \in S THEN None ELSE redis.owner[e]
  BY <1>1, AckDeleteType
<1>3. NothingLost'
  BY <1>1, <1>2 DEF NothingLost, StaysSettled
<1>4. QED
  BY <1>2, <1>3 DEF GroupSound, StaysSettled

\* Creating the group makes every entry of the stream unread.
LEMMA CreateKept ==
    ASSUME TypeOK, StaysSettled, NothingLost, GroupSound(redis), next' = next,
           redis' = GroupCreate(redis)
    PROVE  NothingLost' /\ GroupSound(redis)'
<1>1. redis \in Stream /\ next \in Nat /\ next >= 1 /\ \A e \in 1..next - 1 : e \in Id
  BY StreamAssumption DEF TypeOK, Id
<1>2. /\ redis'.entries = redis.entries
      /\ \/ redis' = redis
         \/ redis'.delivered = 0 /\ \A e \in Id : redis'.owner[e] = None
  BY <1>1, GroupCreateType
<1>3. NothingLost'
  BY <1>1, <1>2 DEF NothingLost, StaysSettled
<1>4. CASE redis' = redis
  BY <1>1, <1>3, <1>4, GroupKept
<1>5. CASE redis'.delivered = 0 /\ \A e \in Id : redis'.owner[e] = None
  <2>1. \A e \in Id : e \in Nat /\ e > 0
    BY StreamAssumption DEF Id
  <2>2. redis'.delivered < next' /\ \A e \in redis'.entries : e < next'
    BY <1>1, <1>2, <1>5 DEF GroupSound
  <2>3. \A e \in Id : ~(e <= redis'.delivered)
    BY <1>5, <2>1
  <2>4. QED
    BY <1>3, <1>5, <2>2, <2>3 DEF GroupSound
<1>6. QED
  BY <1>2, <1>3, <1>4, <1>5

\* The initial state: nothing is delivered, nothing is known.
LEMMA DeliveryInit == Init => Delivery
<1> SUFFICES ASSUME Init PROVE Delivery
  OBVIOUS
<1>1. MaxId \in Nat /\ \A e \in Id : e \in Nat /\ e > 0
  BY StreamAssumption DEF Id
<1>2. \A c \in Consumer : worker[c] = Started
  BY DEF Init
<1>3. BufferTracked /\ ReadySettled
  BY <1>2 DEF BufferTracked, ReadySettled, Ready, Started
<1>4. NothingLost
  BY DEF Init, NothingLost
<1>5. /\ redis.entries = {} /\ redis.delivered = 0 /\ \A e \in Id : redis.owner[e] = None
      /\ disk.entries = {} /\ disk.delivered = 0 /\ \A e \in Id : disk.owner[e] = None
  BY DEF Init, NoStream
<1>6. GroupSound(redis) /\ GroupSound(disk)
  <2>1. \A e \in Id : ~(e <= 0)
    BY <1>1
  <2>2. next = 1
    BY DEF Init
  <2>3. QED
    BY <1>5, <2>1, <2>2 DEF GroupSound
<1>7. FloorBehindWork /\ BoundaryBehindWork
  BY <1>1 DEF Init, FloorBehindWork, BoundaryBehindWork, Resting
<1>8. QED
  BY <1>3, <1>4, <1>6, <1>7 DEF Delivery

\* Every step of a consumer keeps the invariant.
LEMMA DeliveryConsumer ==
    ASSUME TypeOK, Remembered, Delivery, StaysSettled, NEW c \in Consumer, ConsumerStep(c)
    PROVE  Delivery'
<1>d. /\ BufferTracked /\ ReadySettled /\ NothingLost /\ GroupSound(redis) /\ GroupSound(disk)
      /\ FloorBehindWork /\ BoundaryBehindWork
  BY DEF Delivery
<1>w. worker[c] \in WorkerState /\ worker[c].buf \subseteq worker[c].ids
  BY <1>d DEF TypeOK, BufferTracked
<1>s. \A e \in Ready(worker[c]) : e \in Id /\ Settled(e) /\ Settled(e)'
  <2>1. \A e \in Ready(worker[c]) : e \in Id
    BY <1>w DEF Ready, WorkerState
  <2>2. QED
    BY <1>d, <2>1 DEF ReadySettled, StaysSettled
<1>r. redis \in Stream /\ next \in Nat /\ MaxId \in Nat
  BY StreamAssumption DEF TypeOK
<1>f. disk' = disk /\ next' = next /\ floor' = floor /\ maint' = maint
  BY DEF ConsumerStep, StartFlush, ClaimStale, ReadPending, ReadNew, Discard, AckReady, AckFails,
         Prepare, InsertPage, Commit, MissGroup, RepairGroup, RepairFails, Stop, Start, db, bounds
<1>k. GroupSound(disk)' /\ FloorBehindWork' /\ BoundaryBehindWork'
  BY <1>d, <1>f, <1>r, GroupKept, FloorKept, BoundaryKept
<1>u. redis' = redis => NothingLost' /\ GroupSound(redis)'
  BY <1>d, <1>f, <1>r, GroupKept, StreamKept
<1>1. CASE StartFlush(c)
  <2> DEFINE w == [worker[c] EXCEPT !.retry = FALSE]
  <2>1. w \in WorkerState /\ w.buf = worker[c].buf /\ w.ids = worker[c].ids
    BY <1>w DEF WorkerState
  <2>2. /\ BeginFlush(w) \in WorkerState
        /\ BeginFlush(w).buf = worker[c].buf /\ BeginFlush(w).ids = worker[c].ids
    BY <2>1, Stages
  <2>3. Becomes(c, BeginFlush(w)) /\ redis' = redis
    BY <1>1 DEF StartFlush
  <2>4. BufferTracked' /\ ReadySettled'
    BY <1>d, <1>s, <1>w, <2>2, <2>3, WorkerKept DEF Ready
  <2>5. QED
    BY <1>k, <1>u, <2>3, <2>4 DEF Delivery
<1>2. ASSUME NEW S \in SUBSET Pending(redis), NEW answered \in BOOLEAN, ClaimStale(c, S, answered)
      PROVE  Delivery'
  <2>1. S \cap redis.entries \in SUBSET Id
    BY DEF Pending
  <2> DEFINE v == Append(worker[c], S \cap redis.entries, redis)
  <2>2. v \in WorkerState /\ Ready(v) \subseteq Ready(worker[c]) /\ v.buf \subseteq v.ids
    BY <1>w, <2>1, AppendTracks
  <2>3. (Becomes(c, v) \/ worker' = worker) /\ redis' = AutoClaim(redis, S, c)
    BY <1>2 DEF ClaimStale
  <2> HIDE DEF v
  <2>4. BufferTracked' /\ ReadySettled'
    BY <1>d, <1>s, <2>2, <2>3, WorkerKept, WorkersKept
  <2>5. /\ redis'.entries = redis.entries /\ redis'.delivered = redis.delivered
        /\ \A e \in Id : redis'.owner[e] =
              IF e \in S THEN (IF e \in redis.entries THEN c ELSE None) ELSE redis.owner[e]
    BY <1>r, <2>3, AutoClaimType
  <2>6. NothingLost'
    <3>1. \A e \in 1..next - 1 : e \in Id
      BY <1>r DEF TypeOK, Id
    <3>2. QED
      BY <1>d, <1>f, <2>5, <3>1 DEF NothingLost, StaysSettled
  <2>7. \A e \in S : e \in Id /\ e <= redis.delivered
    BY <1>d DEF Pending, GroupSound
  <2>8. ASSUME NEW e \in S, e \notin redis.entries PROVE Settled(e)'
    <3>1. e \in 1..next - 1
      <4>1. redis.delivered \in Nat /\ redis.delivered < next
        BY <1>d, <1>r DEF GroupSound, Stream
      <4>2. QED
        BY <1>r, <2>7, <4>1 DEF Id
    <3>2. QED
      BY <1>d, <2>7, <2>8, <3>1 DEF NothingLost, StaysSettled
  <2>9. GroupSound(redis)'
    <3>1. c # None
      BY StreamAssumption
    <3>2. redis'.delivered < next' /\ \A e \in redis'.entries : e < next'
      BY <1>d, <1>f, <2>5 DEF GroupSound
    <3>3. \A e \in Id : redis'.owner[e] # None => e <= redis'.delivered
      BY <1>d, <2>5, <2>7 DEF GroupSound
    <3>4. ASSUME NEW e \in Id, e <= redis'.delivered PROVE Settled(e)' \/ redis'.owner[e] # None
      BY <1>d, <2>5, <2>8, <3>1, <3>4 DEF GroupSound, StaysSettled
    <3>5. QED
      BY <3>2, <3>3, <3>4 DEF GroupSound
  <2>10. QED
    BY <1>k, <2>4, <2>6, <2>9 DEF Delivery
<1>3. CASE ReadPending(c)
  <2> DEFINE page == FirstOf({e \in OwnPending(redis, c) : e > worker[c].cursor}, ReadBatch)
             w == [worker[c] EXCEPT !.cursor = New]
  <2>1. page \in SUBSET Id
    BY FirstOfSubset DEF OwnPending
  <2>2. redis' = redis
    BY <1>3 DEF ReadPending
  <2>3. ASSUME Becomes(c, BeginFlush(w)) PROVE BufferTracked' /\ ReadySettled'
    <3>1. w \in WorkerState /\ w.buf = worker[c].buf /\ w.ids = worker[c].ids
      BY <1>r, <1>w DEF WorkerState, New
    <3>2. /\ BeginFlush(w) \in WorkerState
          /\ BeginFlush(w).buf = worker[c].buf /\ BeginFlush(w).ids = worker[c].ids
      BY <3>1, Stages
    <3>3. QED
      BY <1>d, <1>s, <1>w, <2>3, <3>2, WorkerKept DEF Ready
  <2>4. ASSUME NEW last \in page,
               Becomes(c, [Append(worker[c], page, redis) EXCEPT !.cursor = last])
        PROVE  BufferTracked' /\ ReadySettled'
    <3> DEFINE v == Append(worker[c], page, redis)
               x == [v EXCEPT !.cursor = last]
    <3>1. v \in WorkerState /\ Ready(v) \subseteq Ready(worker[c]) /\ v.buf \subseteq v.ids
      BY <1>w, <2>1, AppendTracks
    <3>2. last \in 0..New
      BY <1>r, <2>1 DEF Id, New
    <3> HIDE DEF page, v
    <3>3. x \in WorkerState /\ x.buf = v.buf /\ x.ids = v.ids
      BY <3>1, <3>2 DEF WorkerState
    <3>4. Becomes(c, x)
      BY <2>4 DEF v
    <3> HIDE DEF x
    <3>5. QED
      BY <1>d, <1>s, <3>1, <3>3, <3>4, WorkerKept DEF Ready
  <2>5. \/ Becomes(c, BeginFlush(w))
        \/ \E last \in page : Becomes(c, [Append(worker[c], page, redis) EXCEPT !.cursor = last])
    BY <1>3 DEF ReadPending
  <2> HIDE DEF page, w
  <2>6. BufferTracked' /\ ReadySettled'
    BY <2>3, <2>4, <2>5
  <2>7. QED
    BY <1>k, <1>u, <2>2, <2>6 DEF Delivery
<1>4. ASSUME NEW answered \in BOOLEAN, ReadNew(c, answered) PROVE Delivery'
  <2> DEFINE page == FirstOf(Unread(redis), ReadBatch)
  <2>1. page \subseteq Unread(redis) /\ Unread(redis) \in SUBSET Id
    BY <1>r, FirstOfSubset DEF Unread, Stream
  <2>2. PICK last \in page : redis' = Deliver(redis, page, last, c) /\ \A e \in page : e <= last
    BY <1>4 DEF ReadNew
  <2>3. last \in Id /\ last \in redis.entries /\ last > redis.delivered
    BY <2>1, <2>2 DEF Unread
  <2>4. /\ redis'.entries = redis.entries /\ redis'.delivered = last
        /\ \A e \in Id : redis'.owner[e] = IF e \in page THEN c ELSE redis.owner[e]
    <3> HIDE DEF page
    <3>1. /\ Deliver(redis, page, last, c).entries = redis.entries
          /\ Deliver(redis, page, last, c).delivered = last
          /\ \A e \in Id : Deliver(redis, page, last, c).owner[e] =
                              IF e \in page THEN c ELSE redis.owner[e]
      BY <1>r, <2>3, DeliverType
    <3>2. QED
      BY <2>2, <3>1
  <2>5. BufferTracked' /\ ReadySettled'
    <3> DEFINE v == Append(worker[c], page, redis)
    <3>1. v \in WorkerState /\ Ready(v) \subseteq Ready(worker[c]) /\ v.buf \subseteq v.ids
      BY <1>w, <2>1, AppendTracks
    <3>2. Becomes(c, v) \/ worker' = worker
      BY <1>4 DEF ReadNew
    <3> HIDE DEF v
    <3>3. QED
      BY <1>d, <1>s, <3>1, <3>2, WorkerKept, WorkersKept
  <2>6. \A e \in 1..next - 1 : e \in Id
    BY <1>r DEF TypeOK, Id
  <2>7. NothingLost'
    BY <1>d, <1>f, <2>4, <2>6 DEF NothingLost, StaysSettled
  <2>8. GroupSound(redis)'
    <3>1. c # None /\ ReadBatch \in Nat
      BY StreamAssumption
    <3>2. redis.delivered \in Nat /\ last \in Nat /\ last < next
      BY <1>d, <1>r, <2>3 DEF GroupSound, Stream, Id
    <3>3. redis'.delivered < next' /\ \A e \in redis'.entries : e < next'
      BY <1>d, <1>f, <2>4, <3>2 DEF GroupSound
    <3>4. \A e \in Id : e \in Nat
      BY <1>r DEF Id
    <3>5. \A e \in Id : redis'.owner[e] # None => e <= redis'.delivered
      BY <1>d, <2>2, <2>3, <2>4, <3>2, <3>4 DEF GroupSound
    <3>6. ASSUME NEW e \in Id, e <= redis'.delivered PROVE Settled(e)' \/ redis'.owner[e] # None
      <4>1. CASE e <= redis.delivered
        BY <1>d, <2>4, <3>1, <4>1 DEF GroupSound, StaysSettled
      <4>2. CASE e > redis.delivered /\ e \in redis.entries
        <5>1. e \in Unread(redis)
          BY <4>2 DEF Unread
        <5>2. e \in page
          BY <2>1, <2>2, <2>4, <3>1, <3>6, <5>1, FirstOfClosed
        <5>3. QED
          BY <2>4, <3>1, <5>2
      <4>3. CASE e \notin redis.entries
        <5>1. e \in 1..next - 1
          BY <1>r, <2>4, <3>2, <3>4, <3>6 DEF Id
        <5>2. QED
          BY <1>d, <4>3, <5>1 DEF NothingLost, StaysSettled
      <4>4. QED
        BY <3>2, <3>4, <4>1, <4>2, <4>3
    <3>7. QED
      BY <3>3, <3>5, <3>6 DEF GroupSound
  <2>9. QED
    BY <1>k, <2>5, <2>7, <2>8 DEF Delivery
<1>5. ASSUME NEW e \in worker[c].bad, Discard(c, e) PROVE Delivery'
  <2>1. e \in Id /\ Settled(e)'
    BY <1>5, <1>w DEF Discard, Settled, WorkerState
  <2> DEFINE v == [worker[c] EXCEPT !.bad = @ \ {e}]
             x == [worker[c] EXCEPT !.bad = @ \ {e}, !.ids = @ \cup {e}]
  <2>2. /\ v \in WorkerState /\ v.buf = worker[c].buf /\ v.ids = worker[c].ids
        /\ x \in WorkerState /\ x.buf = worker[c].buf /\ x.ids = worker[c].ids \cup {e}
    BY <1>w, <2>1 DEF WorkerState
  <2>3. Becomes(c, v) \/ Becomes(c, x)
    BY <1>5 DEF Discard
  <2>4. redis' = redis \/ redis' = AckDelete(redis, {e})
    BY <1>5 DEF Discard
  <2> HIDE DEF v, x
  <2>5. (\A f \in Ready(v) : Settled(f)') /\ (\A f \in Ready(x) : Settled(f)')
    BY <1>s, <2>1, <2>2 DEF Ready
  <2>6. v.buf \subseteq v.ids /\ x.buf \subseteq x.ids
    BY <1>w, <2>2
  <2>7. BufferTracked' /\ ReadySettled'
    BY <1>d, <2>2, <2>3, <2>5, <2>6, WorkerKept
  <2>8. NothingLost' /\ GroupSound(redis)'
    BY <1>d, <1>f, <1>u, <2>1, <2>4, AckKept
  <2>9. QED
    BY <1>k, <2>7, <2>8 DEF Delivery
<1>6. CASE AckReady(c)
  <2>1. PICK S \in SUBSET Ready(worker[c]) :
           LET w == [worker[c] EXCEPT !.ids = @ \ S] IN
           /\ redis' = AckDelete(redis, S)
           /\ Becomes(c, IF Ready(w) # {} THEN w
                         ELSE IF At(c, "ack") THEN Persist(w) ELSE EndFlush(w))
    BY <1>6 DEF AckReady
  <2> DEFINE w == [worker[c] EXCEPT !.ids = @ \ S]
  <2>2. w \in WorkerState /\ w.buf = worker[c].buf /\ w.ids = worker[c].ids \ S
    BY <1>w DEF WorkerState
  <2>3. \E v \in {w, Persist(w), EndFlush(w)} : Becomes(c, v)
    BY <2>1
  <2> HIDE DEF w
  <2>4. \A v \in {w, Persist(w), EndFlush(w)} :
            v \in WorkerState /\ v.buf = worker[c].buf /\ v.ids = worker[c].ids \ S
    BY <2>2, Stages
  <2>5. PICK v \in {w, Persist(w), EndFlush(w)} : Becomes(c, v)
    BY <2>3
  <2>6. v \in WorkerState /\ v.buf \subseteq v.ids /\ \A e \in Ready(v) : Settled(e)'
    BY <1>s, <1>w, <2>4 DEF Ready
  <2>7. BufferTracked' /\ ReadySettled'
    BY <1>d, <2>5, <2>6, WorkerKept
  <2>8. NothingLost' /\ GroupSound(redis)'
    BY <1>d, <1>f, <1>s, <2>1, AckKept
  <2>9. QED
    BY <1>k, <2>7, <2>8 DEF Delivery
<1>7. CASE AckFails(c)
  <2>1. PICK S \in SUBSET Ready(worker[c]) : redis' = AckDelete(redis, S)
    BY <1>7 DEF AckFails
  <2>2. NothingLost' /\ GroupSound(redis)'
    BY <1>d, <1>f, <1>s, <2>1, AckKept
  <2>3. /\ RetryLater(worker[c]) \in WorkerState
        /\ RetryLater(worker[c]).buf = worker[c].buf /\ RetryLater(worker[c]).ids = worker[c].ids
    BY <1>w, Stages
  <2>4. BufferTracked' /\ ReadySettled'
    BY <1>7, <1>d, <1>s, <1>w, <2>3, WorkerKept DEF AckFails, Ready
  <2>5. QED
    BY <1>k, <2>2, <2>4 DEF Delivery
<1>8. CASE Prepare(c)
  <2> DEFINE v == [worker[c] EXCEPT !.pc = "insert", !.kept = Kept(worker[c])]
  <2>1. v \in WorkerState /\ v.buf = worker[c].buf /\ v.ids = worker[c].ids
    BY <1>w DEF WorkerState, Kept
  <2>2. /\ AckRest(worker[c]) \in WorkerState
        /\ AckRest(worker[c]).buf = worker[c].buf /\ AckRest(worker[c]).ids = worker[c].ids
    BY <1>w, Stages
  <2>3. Becomes(c, v) \/ Becomes(c, AckRest(worker[c]))
    BY <1>8 DEF Prepare
  <2> HIDE DEF v
  <2>4. BufferTracked' /\ ReadySettled'
    BY <1>d, <1>s, <1>w, <2>1, <2>2, <2>3, WorkerKept DEF Ready
  <2>5. redis' = redis
    BY <1>8 DEF Prepare
  <2>6. QED
    BY <1>k, <1>u, <2>4, <2>5 DEF Delivery
<1>9. ASSUME NEW page \in SUBSET worker[c].buf, InsertPage(c, page) PROVE Delivery'
  <2> DEFINE w == worker[c]
             rest == [w EXCEPT !.buf = @ \ page]
             accepted == Accept(page \cap w.kept)
  <2>1. page \in SUBSET Id /\ accepted \in SUBSET Id
    BY <1>w DEF WorkerState, Accept
  <2>2. rest \in WorkerState /\ rest.buf = w.buf \ page /\ rest.ids = w.ids
    BY <1>w DEF WorkerState
  <2>3. /\ AckRest(rest) \in WorkerState /\ AckRest(rest).buf = w.buf \ page /\ AckRest(rest).ids = w.ids
        /\ AckRest(w) \in WorkerState /\ AckRest(w).buf = w.buf /\ AckRest(w).ids = w.ids
    BY <1>w, <2>2, Stages
  <2>4. redis' = redis
    BY <1>9 DEF InsertPage
  <2>5. \/ /\ Commit(accepted) /\ waived' = waived \cup (page \ w.kept)
           /\ Becomes(c, rest) \/ Becomes(c, AckRest(rest))
        \/ Becomes(c, AckRest(w))
    BY <1>9 DEF InsertPage
  <2> HIDE DEF rest
  <2>6. ASSUME Becomes(c, AckRest(w)) PROVE BufferTracked' /\ ReadySettled'
    BY <1>d, <1>s, <1>w, <2>3, <2>6, WorkerKept DEF Ready
  <2>7. ASSUME Commit(accepted), waived' = waived \cup (page \ w.kept),
               Becomes(c, rest) \/ Becomes(c, AckRest(rest))
        PROVE  BufferTracked' /\ ReadySettled'
    <3>1. ASSUME NEW e \in page PROVE Settled(e)'
      <4>1. e \in Id /\ counted[e] \in Nat
        BY <2>1 DEF TypeOK
      <4>2. CASE e \notin w.kept
        BY <2>7, <4>2 DEF Settled
      <4>3. CASE e \in accepted
        BY <2>1, <2>7, <4>1, <4>3, CommitType DEF Settled
      <4>4. CASE e \in ledger
        <5>1. counted[e] = 1
          BY <4>4 DEF Remembered
        <5>2. QED
          BY <4>1, <5>1 DEF Settled, StaysSettled
      <4>5. CASE e < floor
        BY <1>d, <4>1, <4>5 DEF FloorBehindWork, StaysSettled
      <4>6. e \notin w.kept \/ e \in accepted \/ e \in ledger \/ e < floor
        <5>1. floor \in Nat /\ e \in Nat
          BY <1>r, <4>1 DEF TypeOK, Id
        <5>2. QED
          BY <5>1 DEF Accept
      <4>7. QED
        BY <4>2, <4>3, <4>4, <4>5, <4>6
    <3>2. ASSUME NEW v \in {rest, AckRest(rest)}, Becomes(c, v) PROVE BufferTracked' /\ ReadySettled'
      <4>1. v \in WorkerState /\ v.buf = w.buf \ page /\ v.ids = w.ids
        BY <2>2, <2>3 DEF rest
      <4>2. v.buf \subseteq v.ids /\ \A e \in Ready(v) : Settled(e)'
        BY <1>s, <1>w, <3>1, <4>1 DEF Ready
      <4>3. QED
        BY <1>d, <3>2, <4>1, <4>2, WorkerKept
    <3>3. QED
      BY <2>7, <3>2
  <2>8. BufferTracked' /\ ReadySettled'
    BY <2>5, <2>6, <2>7
  <2>9. QED
    BY <1>k, <1>u, <2>4, <2>8 DEF Delivery
<1>10. CASE MissGroup(c)
  <2> DEFINE v == [worker[c] EXCEPT !.pc = "repair"]
  <2>1. v \in WorkerState /\ v.buf = worker[c].buf /\ v.ids = worker[c].ids
    BY <1>w DEF WorkerState
  <2>2. Becomes(c, v) /\ redis' = redis
    BY <1>10 DEF MissGroup
  <2> HIDE DEF v
  <2>3. BufferTracked' /\ ReadySettled'
    BY <1>d, <1>s, <1>w, <2>1, <2>2, WorkerKept DEF Ready
  <2>4. QED
    BY <1>k, <1>u, <2>2, <2>3 DEF Delivery
<1>11. CASE RepairGroup(c)
  <2> DEFINE v == [worker[c] EXCEPT !.pc = "loop", !.cursor = 0]
  <2>1. 0 \in 0..New
    BY <1>r DEF New
  <2>2. v \in WorkerState /\ v.buf = worker[c].buf /\ v.ids = worker[c].ids
    BY <1>w, <2>1 DEF WorkerState
  <2>3. Becomes(c, v) /\ redis' = GroupCreate(redis)
    BY <1>11 DEF RepairGroup
  <2> HIDE DEF v
  <2>4. BufferTracked' /\ ReadySettled'
    BY <1>d, <1>s, <1>w, <2>2, <2>3, WorkerKept DEF Ready
  <2>5. QED
    BY <1>d, <1>f, <1>k, <2>3, <2>4, CreateKept DEF Delivery
<1>11a. CASE RepairFails(c)
  <2> DEFINE v == [worker[c] EXCEPT !.pc = "loop"]
  <2>1. v \in WorkerState /\ v.buf = worker[c].buf /\ v.ids = worker[c].ids
    BY <1>w DEF WorkerState
  <2>2. Becomes(c, v) /\ (redis' = redis \/ redis' = GroupCreate(redis))
    BY <1>11a DEF RepairFails
  <2> HIDE DEF v
  <2>3. BufferTracked' /\ ReadySettled'
    BY <1>d, <1>s, <1>w, <2>1, <2>2, WorkerKept DEF Ready
  <2>4. NothingLost' /\ GroupSound(redis)'
    BY <1>d, <1>f, <1>u, <2>2, CreateKept
  <2>5. QED
    BY <1>k, <2>3, <2>4 DEF Delivery
<1>12. CASE Stop(c)
  <2> DEFINE v == [Started EXCEPT !.pc = "down"]
  <2>1. Started \in WorkerState /\ Started.buf = {} /\ Started.ids = {}
    BY <1>r DEF Started, WorkerState, New
  <2>2. v \in WorkerState /\ v.buf = {} /\ v.ids = {}
    BY <2>1 DEF WorkerState
  <2>3. Becomes(c, v) /\ redis' = redis
    BY <1>12 DEF Stop
  <2> HIDE DEF v
  <2>4. BufferTracked' /\ ReadySettled'
    BY <1>d, <2>2, <2>3, WorkerKept DEF Ready
  <2>5. QED
    BY <1>k, <1>u, <2>3, <2>4 DEF Delivery
<1>13. CASE Start(c)
  <2>1. Started \in WorkerState /\ Started.buf = {} /\ Started.ids = {}
    BY <1>r DEF Started, WorkerState, New
  <2>2. Becomes(c, Started) /\ redis' = GroupCreate(redis)
    BY <1>13 DEF Start
  <2>3. BufferTracked' /\ ReadySettled'
    BY <1>d, <2>1, <2>2, WorkerKept DEF Ready
  <2>4. QED
    BY <1>d, <1>f, <1>k, <2>2, <2>3, CreateKept DEF Delivery
<1>14. QED
  BY <1>1, <1>2, <1>3, <1>4, <1>5, <1>6, <1>7, <1>8, <1>9, <1>10, <1>11,
     <1>11a, <1>12, <1>13
     DEF ConsumerStep

\* Every step of the system keeps the invariant.
LEMMA DeliveryStep ==
    ASSUME TypeOK, TypeOK', Remembered, Delivery, [Next]_vars
    PROVE  Delivery'
<1>d. /\ BufferTracked /\ ReadySettled /\ NothingLost /\ GroupSound(redis) /\ GroupSound(disk)
      /\ FloorBehindWork /\ BoundaryBehindWork
  BY DEF Delivery
<1>m. StaysSettled
  BY SettledStays
<1>r. /\ redis \in Stream /\ disk \in Stream /\ next \in Nat /\ MaxId \in Nat
      /\ next' \in Nat /\ floor \in Nat /\ maint.before \in Nat
      /\ \A e \in Id : e \in Nat
  BY StreamAssumption DEF TypeOK, Maintenance, Id
<1>i. \A e \in 1..next - 1 : e \in Id
  BY <1>r DEF TypeOK, Id
<1>w. worker' = worker => BufferTracked' /\ ReadySettled'
  BY <1>d, <1>m, WorkersKept
<1>g. next' = next => /\ disk' = disk => GroupSound(disk)'
                      /\ redis' = redis => NothingLost' /\ GroupSound(redis)'
  BY <1>d, <1>m, <1>r, GroupKept, StreamKept
<1>f. /\ floor' = floor => FloorBehindWork'
      /\ maint' = maint => BoundaryBehindWork'
      /\ maint' = Resting => BoundaryBehindWork'
  <2>1. maint' = Resting => BoundaryBehindWork'
    BY DEF Resting, BoundaryBehindWork
  <2>2. QED
    BY <1>d, <1>m, <2>1, FloorKept, BoundaryKept
<1>1. CASE UNCHANGED vars
  BY <1>1, <1>w, <1>g, <1>f DEF vars, Delivery
<1>2. CASE AddToStream
  <2>1. PICK evicted \in SUBSET (redis.entries \cup {next}) :
            /\ redis' = [redis EXCEPT !.entries = (redis.entries \cup {next}) \ evicted]
            /\ waived' = waived \cup evicted
    BY <1>2 DEF AddToStream
  <2>2. /\ redis'.entries = (redis.entries \cup {next}) \ evicted
        /\ redis'.delivered = redis.delivered /\ redis'.owner = redis.owner
    BY <1>r, <2>1 DEF Stream
  <2>3. /\ next' = next + 1 /\ worker' = worker /\ disk' = disk /\ floor' = floor /\ maint' = maint
    BY <1>2 DEF AddToStream, db
  <2>4. NothingLost'
    <3>1. ASSUME NEW e \in 1..next' - 1 PROVE Settled(e)' \/ e \in redis'.entries
      <4>1. CASE e \in evicted
        BY <2>1, <4>1 DEF Settled
      <4>2. CASE e = next /\ e \notin evicted
        BY <2>2, <4>2
      <4>3. CASE e # next /\ e \notin evicted
        <5>1. e \in 1..next - 1
          BY <1>r, <2>3, <3>1, <4>3
        <5>2. QED
          BY <1>d, <1>i, <1>m, <2>2, <4>3, <5>1 DEF NothingLost, StaysSettled
      <4>4. QED
        BY <4>1, <4>2, <4>3
    <3>2. QED
      BY <3>1 DEF NothingLost
  <2>5. GroupSound(redis)'
    <3>1. redis.delivered \in Nat /\ \A e \in redis.entries : e \in Nat
      BY <1>r DEF Stream, Id
    <3>2. redis'.delivered < next' /\ \A e \in redis'.entries : e < next'
      BY <1>d, <1>r, <2>2, <2>3, <3>1 DEF GroupSound
    <3>3. QED
      BY <1>d, <1>m, <2>2, <3>2 DEF GroupSound, StaysSettled
  <2>6. GroupSound(disk)'
    BY <1>d, <1>m, <1>r, <2>3, GroupKept
  <2>7. QED
    BY <1>f, <1>w, <2>3, <2>4, <2>5, <2>6 DEF Delivery
<1>3. ASSUME NEW e \in Doomed, DeleteRoute(e) PROVE Delivery'
  BY <1>3, <1>w, <1>g, <1>f DEF DeleteRoute, db, Delivery
<1>4. ASSUME NEW c \in Consumer, ConsumerStep(c) PROVE Delivery'
  BY <1>4, <1>m, DeliveryConsumer
<1>5. CASE ReadFloor
  <2>1. /\ redis' = redis /\ next' = next /\ worker' = worker /\ disk' = disk /\ floor' = floor
        /\ counted' = counted /\ waived' = waived
    BY <1>5 DEF ReadFloor, db
  <2>2. ASSUME NEW e \in Id, e < ReplayFloor(redis) PROVE Settled(e)
    <3>1. redis.delivered \in Nat
      BY <1>r DEF Stream
    <3>2. CASE Pending(redis) = {}
      <4>1. e <= redis.delivered
        BY <1>r, <2>2, <3>1, <3>2, ReplayFloorValue
      <4>2. redis.owner[e] = None
        BY <3>2 DEF Pending
      <4>3. QED
        BY <1>d, <4>1, <4>2 DEF GroupSound
    <3>3. CASE Pending(redis) # {}
      <4>1. /\ ReplayFloor(redis) \in Pending(redis)
            /\ \A f \in Pending(redis) : ReplayFloor(redis) <= f
        BY <1>r, <3>3, ReplayFloorValue
      <4>2. ReplayFloor(redis) \in Id /\ ReplayFloor(redis) <= redis.delivered
        BY <1>d, <4>1 DEF Pending, GroupSound
      <4>3. e <= redis.delivered /\ e \notin Pending(redis)
        BY <1>r, <2>2, <3>1, <4>1, <4>2
      <4>4. QED
        BY <1>d, <4>3 DEF GroupSound, Pending
    <3>4. QED
      BY <3>2, <3>3
  <2>3. BoundaryBehindWork'
    <3>1. \/ maint' = [pc |-> "trim", before |-> ReplayFloor(redis)]
          \/ maint'.pc = "repair"
      BY <1>5 DEF ReadFloor, Resting
    <3>2. CASE maint'.pc = "repair"
      BY <3>2 DEF BoundaryBehindWork
    <3>3. CASE maint' = [pc |-> "trim", before |-> ReplayFloor(redis)]
      <4>1. maint'.before = ReplayFloor(redis)
        BY <3>3
      <4>2. \A e \in Id : e < maint'.before => Settled(e)'
        BY <1>m, <2>2, <4>1 DEF StaysSettled
      <4>3. QED
        BY <4>2 DEF BoundaryBehindWork
    <3>4. QED
      BY <3>1, <3>2, <3>3
  <2>4. QED
    BY <1>w, <1>g, <1>f, <2>1, <2>3 DEF Delivery
<1>6. CASE MaintenanceRepair
  <2>1. /\ redis' = GroupCreate(redis) /\ next' = next /\ worker' = worker /\ disk' = disk
        /\ floor' = floor /\ maint' = Resting
    BY <1>6 DEF MaintenanceRepair, db
  <2>2. NothingLost' /\ GroupSound(redis)'
    BY <1>d, <1>m, <2>1, CreateKept
  <2>3. QED
    BY <1>w, <1>g, <1>f, <2>1, <2>2 DEF Delivery
<1>7. CASE TrimStream
  <2>1. /\ next' = next /\ worker' = worker /\ disk' = disk /\ floor' = floor
        /\ redis'.entries = {e \in redis.entries : e >= maint.before}
        /\ redis'.delivered = redis.delivered /\ redis'.owner = redis.owner
        /\ maint.pc = "trim" /\ maint'.before = maint.before
    BY <1>7, <1>r DEF TrimStream, db, Stream, TypeOK, Maintenance
  <2>2. \A e \in Id : e < maint.before => Settled(e) /\ Settled(e)'
    BY <1>d, <1>m, <2>1 DEF BoundaryBehindWork, StaysSettled
  <2>3. NothingLost'
    <3>1. ASSUME NEW e \in 1..next - 1 PROVE Settled(e)' \/ e \in redis'.entries
      BY <1>d, <1>i, <1>m, <1>r, <2>1, <2>2 DEF NothingLost, StaysSettled
    <3>2. QED
      BY <2>1, <3>1 DEF NothingLost
  <2>4. GroupSound(redis)'
    BY <1>d, <1>m, <2>1 DEF GroupSound, StaysSettled
  <2>5. BoundaryBehindWork'
    BY <2>1, <2>2 DEF BoundaryBehindWork
  <2>6. QED
    BY <1>w, <1>g, <1>f, <2>1, <2>3, <2>4, <2>5 DEF Delivery
<1>8. CASE RetireEvents
  <2>1. /\ redis' = redis /\ next' = next /\ worker' = worker /\ disk' = disk
        /\ maint.pc = "retire" /\ floor' = RaiseFloor(maint.before)
        /\ maint' = Resting \/ maint' = maint
    BY <1>8 DEF RetireEvents
  <2>2. \A e \in Id : e < floor' => e < floor \/ e < maint.before
    BY <2>1 DEF RaiseFloor
  <2>3. FloorBehindWork'
    BY <1>d, <1>m, <2>1, <2>2 DEF FloorBehindWork, BoundaryBehindWork, StaysSettled
  <2>4. QED
    BY <1>w, <1>g, <1>f, <2>1, <2>3 DEF Delivery
<1>9. CASE MaintenanceFails
  BY <1>9, <1>w, <1>g, <1>f DEF MaintenanceFails, db, Delivery
<1>10. CASE Save
  <2>1. /\ disk' = redis /\ redis' = redis /\ next' = next /\ worker' = worker
        /\ floor' = floor /\ maint' = maint
    BY <1>10 DEF Save, db
  <2>2. GroupSound(disk)'
    BY <1>d, <1>m, <2>1 DEF GroupSound, StaysSettled
  <2>3. QED
    BY <1>w, <1>g, <1>f, <2>1, <2>2 DEF Delivery
<1>11. CASE Failover
  <2>1. /\ disk' = disk /\ redis' = disk /\ next' = next /\ worker' = worker
        /\ floor' = floor /\ maint' = maint
        /\ waived' = waived \cup (redis.entries \ disk.entries)
    BY <1>11 DEF Failover, db
  <2>2. NothingLost'
    <3>1. ASSUME NEW e \in 1..next - 1 PROVE Settled(e)' \/ e \in redis'.entries
      <4>1. CASE Settled(e)
        BY <1>i, <1>m, <4>1 DEF StaysSettled
      <4>2. CASE e \in redis.entries
        BY <2>1, <4>2 DEF Settled
      <4>3. QED
        BY <1>d, <4>1, <4>2 DEF NothingLost
    <3>2. QED
      BY <2>1, <3>1 DEF NothingLost
  <2>3. GroupSound(redis)'
    BY <1>d, <1>m, <2>1 DEF GroupSound, StaysSettled
  <2>4. QED
    BY <1>w, <1>g, <1>f, <2>1, <2>2, <2>3 DEF Delivery
<1>12. QED
  BY <1>1, <1>2, <1>3, <1>4, <1>5, <1>6, <1>7, <1>8, <1>9, <1>10, <1>11 DEF Next

\* The invariants together hold in every state.
LEMMA DeliveryHolds == Spec => [](TypeOK /\ Remembered /\ Delivery)
<1>1. Init => TypeOK /\ Remembered /\ Delivery
  <2>1. Init => Remembered
    BY DEF Init, Remembered
  <2>2. QED
    BY <2>1, TypeInit, DeliveryInit
<1>2. (TypeOK /\ Remembered /\ Delivery) /\ [Next]_vars => (TypeOK /\ Remembered /\ Delivery)'
  BY TypeStep, RememberedStep, DeliveryStep
<1>3. QED
  BY <1>1, <1>2, PTL DEF Spec

\* No acknowledgement, trimming, claim or failover takes an entry out of the
\* stream before it is counted or covered by a documented exclusion
\* (flushStreamStatisticsBuffer, maintainProxyStatisticStream).
THEOREM NoEntryLost == Spec => []NothingLost
<1>1. Delivery => NothingLost
  BY DEF Delivery
<1>2. QED
  BY <1>1, DeliveryHolds, PTL

\* The replay floor never passes an entry that is still to be counted
\* (statisticReplayFloorScript, RetireProxyStatisticEvents).
THEOREM FloorSafe == Spec => []FloorBehindWork
<1>1. Delivery => FloorBehindWork
  BY DEF Delivery
<1>2. QED
  BY <1>1, DeliveryHolds, PTL

\* A worker can always acknowledge what it buffers (flushStreamStatisticsBuffer).
THEOREM BuffersTracked == Spec => []BufferTracked
<1>1. Delivery => BufferTracked
  BY DEF Delivery
<1>2. QED
  BY <1>1, DeliveryHolds, PTL

-----------------------------------------------------------------------------
(* Refinement of ResultLog.  Beyond the invariants above, every message    *)
(* that is waived or in a worker's hands was appended.                     *)

Held(w) == w.ids \cup w.bad

Appended ==
    /\ \A e \in waived : e < next
    /\ \A c \in Consumer : \A e \in Held(worker[c]) : e < next

\* A flush hands over its messages unchanged, and a read adds what it returned.
LEMMA StagesHold ==
    ASSUME NEW w \in WorkerState
    PROVE  \A v \in {EndFlush(w), AckRest(w), Persist(w), BeginFlush(w), RetryLater(w)} :
              Held(v) = Held(w)
<1>1. Held(EndFlush(w)) = Held(w) /\ Held(RetryLater(w)) = Held(w)
  BY DEF EndFlush, RetryLater, WorkerState, Held
<1>2. Held(AckRest(w)) = Held(w)
  BY <1>1 DEF AckRest, WorkerState, Held
<1>3. Held(Persist(w)) = Held(w)
  BY <1>2 DEF Persist, WorkerState, Held
<1>4. Held(BeginFlush(w)) = Held(w)
  BY <1>3 DEF BeginFlush, WorkerState, Held
<1>5. QED
  BY <1>1, <1>2, <1>3, <1>4

LEMMA AppendHolds ==
    ASSUME NEW w \in WorkerState, NEW S, NEW r
    PROVE  Held(Append(w, S, r)) \subseteq Held(w) \cup S
BY DEF Append, WorkerState, Held

\* A consumer gets hold of nothing but entries that the stream delivered.
LEMMA HeldStep ==
    ASSUME TypeOK, GroupSound(redis), NEW c \in Consumer, ConsumerStep(c)
    PROVE  \/ worker' = worker
           \/ \E v : Becomes(c, v) /\ \A e \in Held(v) : e \in Held(worker[c]) \/ e < next
<1>w. worker[c] \in WorkerState
  BY DEF TypeOK
<1>r. redis \in Stream /\ next \in Nat /\ redis.delivered \in Nat /\ redis.delivered < next
      /\ \A e \in Id : e \in Nat
  BY StreamAssumption DEF TypeOK, Stream, GroupSound, Id
<1>e. \A e \in redis.entries : e < next
  BY DEF GroupSound
<1>p. \A e \in Pending(redis) : e \in Id /\ e < next
  BY <1>r DEF Pending, GroupSound
<1>o. \A e \in OwnPending(redis, c) : e \in Id /\ e < next
  BY <1>p, StreamAssumption DEF OwnPending, Pending
<1> DEFINE Goal == \E v : Becomes(c, v) /\ \A e \in Held(v) : e \in Held(worker[c]) \/ e < next
<1>0. ASSUME NEW v, Becomes(c, v), Held(v) \subseteq Held(worker[c]) PROVE Goal
  BY <1>0
<1>1. CASE StartFlush(c)
  <2> DEFINE w == [worker[c] EXCEPT !.retry = FALSE]
  <2>1. w \in WorkerState /\ Held(w) = Held(worker[c])
    BY <1>w DEF WorkerState, Held
  <2>2. Held(BeginFlush(w)) = Held(worker[c])
    BY <2>1, StagesHold
  <2>3. Becomes(c, BeginFlush(w))
    BY <1>1 DEF StartFlush
  <2> HIDE DEF w
  <2>4. QED
    BY <1>0, <2>2, <2>3
<1>2. ASSUME NEW S \in SUBSET Pending(redis), NEW answered \in BOOLEAN, ClaimStale(c, S, answered)
      PROVE  worker' = worker \/ Goal
  <2> DEFINE v == Append(worker[c], S \cap redis.entries, redis)
  <2>1. Becomes(c, v) \/ worker' = worker
    BY <1>2 DEF ClaimStale
  <2>2. Held(v) \subseteq Held(worker[c]) \cup S
    BY <1>w, AppendHolds
  <2> HIDE DEF v
  <2>3. QED
    BY <1>p, <2>1, <2>2
<1>3. CASE ReadPending(c)
  <2> DEFINE page == FirstOf({e \in OwnPending(redis, c) : e > worker[c].cursor}, ReadBatch)
             w == [worker[c] EXCEPT !.cursor = New]
  <2>1. \A e \in page : e \in Id /\ e < next
    BY <1>o, FirstOfSubset
  <2>2. ASSUME Becomes(c, BeginFlush(w)) PROVE Goal
    <3>1. w \in WorkerState /\ Held(w) = Held(worker[c])
      BY <1>w, StreamAssumption DEF WorkerState, Held, New
    <3>2. Held(BeginFlush(w)) = Held(worker[c])
      BY <3>1, StagesHold
    <3> HIDE DEF w
    <3>3. QED
      BY <1>0, <2>2, <3>2
  <2>3. ASSUME NEW last \in page,
               Becomes(c, [Append(worker[c], page, redis) EXCEPT !.cursor = last])
        PROVE  Goal
    <3> DEFINE v == Append(worker[c], page, redis)
               x == [v EXCEPT !.cursor = last]
    <3>1. Held(v) \subseteq Held(worker[c]) \cup page
      BY <1>w, AppendHolds
    <3>2. v \in WorkerState
      BY <1>w, <2>1, AppendTracks
    <3> HIDE DEF page, v
    <3>3. Held(x) = Held(v)
      BY <3>2 DEF WorkerState, Held
    <3>4. Becomes(c, x)
      BY <2>3 DEF v
    <3> HIDE DEF x
    <3>5. QED
      BY <2>1, <3>1, <3>3, <3>4
  <2>4. \/ Becomes(c, BeginFlush(w))
        \/ \E last \in page : Becomes(c, [Append(worker[c], page, redis) EXCEPT !.cursor = last])
    BY <1>3 DEF ReadPending
  <2> HIDE DEF page, w
  <2>5. QED
    BY <2>2, <2>3, <2>4
<1>4. ASSUME NEW answered \in BOOLEAN, ReadNew(c, answered) PROVE worker' = worker \/ Goal
  <2> DEFINE page == FirstOf(Unread(redis), ReadBatch)
             v == Append(worker[c], page, redis)
  <2>1. \A e \in page : e < next
    BY <1>e, FirstOfSubset DEF Unread
  <2>2. Held(v) \subseteq Held(worker[c]) \cup page
    BY <1>w, AppendHolds
  <2>3. Becomes(c, v) \/ worker' = worker
    BY <1>4 DEF ReadNew
  <2> HIDE DEF page, v
  <2>4. QED
    BY <2>1, <2>2, <2>3
<1>5. ASSUME NEW e \in worker[c].bad, Discard(c, e) PROVE Goal
  <2> DEFINE v == [worker[c] EXCEPT !.bad = @ \ {e}]
             x == [worker[c] EXCEPT !.bad = @ \ {e}, !.ids = @ \cup {e}]
  <2>1. Held(v) \subseteq Held(worker[c]) /\ Held(x) \subseteq Held(worker[c])
    BY <1>w DEF WorkerState, Held
  <2>2. Becomes(c, v) \/ Becomes(c, x)
    BY <1>5 DEF Discard
  <2> HIDE DEF v, x
  <2>3. QED
    BY <1>0, <2>1, <2>2
<1>6. CASE AckReady(c)
  <2>1. PICK S \in SUBSET Ready(worker[c]) :
           LET w == [worker[c] EXCEPT !.ids = @ \ S] IN
           Becomes(c, IF Ready(w) # {} THEN w
                      ELSE IF At(c, "ack") THEN Persist(w) ELSE EndFlush(w))
    BY <1>6 DEF AckReady
  <2> DEFINE w == [worker[c] EXCEPT !.ids = @ \ S]
  <2>2. w \in WorkerState /\ Held(w) \subseteq Held(worker[c])
    BY <1>w DEF WorkerState, Held
  <2>3. \E v \in {w, Persist(w), EndFlush(w)} : Becomes(c, v)
    BY <2>1
  <2> HIDE DEF w
  <2>4. \A v \in {w, Persist(w), EndFlush(w)} : Held(v) \subseteq Held(worker[c])
    BY <2>2, StagesHold
  <2>5. QED
    BY <1>0, <2>3, <2>4
<1>7. CASE AckFails(c)
  BY <1>0, <1>7, <1>w, StagesHold DEF AckFails
<1>8. CASE Prepare(c)
  <2> DEFINE v == [worker[c] EXCEPT !.pc = "insert", !.kept = Kept(worker[c])]
  <2>1. Held(v) = Held(worker[c]) /\ Held(AckRest(worker[c])) = Held(worker[c])
    BY <1>w, StagesHold DEF WorkerState, Held
  <2>2. Becomes(c, v) \/ Becomes(c, AckRest(worker[c]))
    BY <1>8 DEF Prepare
  <2> HIDE DEF v
  <2>3. QED
    BY <1>0, <2>1, <2>2
<1>9. ASSUME NEW page \in SUBSET worker[c].buf, InsertPage(c, page) PROVE Goal
  <2> DEFINE rest == [worker[c] EXCEPT !.buf = @ \ page]
  <2>1. rest \in WorkerState /\ Held(rest) = Held(worker[c])
    BY <1>w DEF WorkerState, Held
  <2>2. Becomes(c, rest) \/ Becomes(c, AckRest(rest)) \/ Becomes(c, AckRest(worker[c]))
    BY <1>9 DEF InsertPage
  <2> HIDE DEF rest
  <2>3. Held(AckRest(rest)) = Held(worker[c]) /\ Held(AckRest(worker[c])) = Held(worker[c])
    BY <1>w, <2>1, StagesHold
  <2>4. QED
    BY <1>0, <2>1, <2>2, <2>3
<1>10. CASE MissGroup(c) \/ RepairGroup(c) \/ RepairFails(c)
  <2> DEFINE u == [worker[c] EXCEPT !.pc = "repair"]
             v == [worker[c] EXCEPT !.pc = "loop", !.cursor = 0]
             x == [worker[c] EXCEPT !.pc = "loop"]
  <2>1. Held(u) = Held(worker[c]) /\ Held(v) = Held(worker[c]) /\ Held(x) = Held(worker[c])
    BY <1>w DEF WorkerState, Held
  <2>2. Becomes(c, u) \/ Becomes(c, v) \/ Becomes(c, x)
    BY <1>10 DEF MissGroup, RepairGroup, RepairFails
  <2> HIDE DEF u, v, x
  <2>3. QED
    BY <1>0, <2>1, <2>2
<1>11. CASE Stop(c) \/ Start(c)
  <2> DEFINE v == [Started EXCEPT !.pc = "down"]
  <2>1. Held(Started) = {} /\ Held(v) = {}
    BY DEF Started, Held
  <2>2. Becomes(c, v) \/ Becomes(c, Started)
    BY <1>11 DEF Stop, Start
  <2> HIDE DEF v
  <2>3. QED
    BY <1>0, <2>1, <2>2
<1>12. QED
  BY <1>1, <1>2, <1>3, <1>4, <1>5, <1>6, <1>7, <1>8, <1>9, <1>10, <1>11 DEF ConsumerStep

\* Only producers append.
LEMMA ConsumerAppendsNothing ==
    ASSUME NEW c \in Consumer, ConsumerStep(c)
    PROVE  next' = next
BY DEF ConsumerStep, StartFlush, ClaimStale, ReadPending, ReadNew, Discard, AckReady, AckFails,
       Prepare, InsertPage, MissGroup, RepairGroup, RepairFails, Stop, Start

\* What is waived or in hand was appended, and stays so.
LEMMA AppendedStep ==
    ASSUME TypeOK, TypeOK', Delivery, Appended, [Next]_vars
    PROVE  Appended'
<1>r. /\ next \in Nat /\ next' \in Nat
      /\ \A e \in Id : e \in Nat
      /\ \A e \in redis.entries : e \in Id
      /\ waived \subseteq Id
      /\ \A c \in Consumer : worker[c] \in WorkerState
  <2>1. next \in Nat /\ next' \in Nat /\ \A e \in Id : e \in Nat
    BY StreamAssumption DEF TypeOK, Id
  <2>2. waived \subseteq Id /\ \A c \in Consumer : worker[c] \in WorkerState
    BY DEF TypeOK
  <2>3. \A e \in redis.entries : e \in Id
    BY DEF TypeOK, Stream
  <2>4. QED
    BY <2>1, <2>2, <2>3
<1>h. \A c \in Consumer : \A e \in Held(worker[c]) : e \in Nat
  BY <1>r DEF Held, WorkerState
<1>g. \A e \in redis.entries : e < next
  BY DEF Delivery, GroupSound
<1>1. next <= next' /\ (next' = next \/ AddToStream)
  <2>1. ASSUME NEW c \in Consumer, ConsumerStep(c) PROVE next' = next
    BY <2>1, ConsumerAppendsNothing
  <2>2. CASE \/ (\E e \in Doomed : DeleteRoute(e)) \/ ReadFloor \/ MaintenanceRepair
             \/ TrimStream \/ RetireEvents \/ MaintenanceFails \/ Save \/ Failover
             \/ UNCHANGED vars
    BY <1>r, <2>2 DEF DeleteRoute, ReadFloor, MaintenanceRepair, TrimStream, RetireEvents,
                      MaintenanceFails, Save, Failover, vars
  <2>3. CASE AddToStream
    <3>1. next' = next + 1
      BY <2>3 DEF AddToStream
    <3>2. QED
      BY <1>r, <2>3, <3>1
  <2>4. QED
    BY <1>r, <2>1, <2>2, <2>3 DEF Next
<1>2. \A c \in Consumer : \A e \in Held(worker'[c]) : e < next'
  <2>1. CASE worker' = worker
    BY <1>1, <1>h, <1>r, <2>1 DEF Appended
  <2>2. ASSUME NEW c \in Consumer, ConsumerStep(c), worker' # worker
        PROVE  \A d \in Consumer : \A e \in Held(worker'[d]) : e < next'
    <3>1. next' = next
      BY <2>2, ConsumerAppendsNothing
    <3>2. PICK v : Becomes(c, v) /\ \A e \in Held(v) : e \in Held(worker[c]) \/ e < next
      BY <2>2, HeldStep DEF Delivery
    <3>3. \A d \in Consumer : worker'[d] = IF d = c THEN v ELSE worker[d]
      BY <3>2 DEF Becomes, TypeOK
    <3>4. QED
      BY <3>1, <3>2, <3>3 DEF Appended
  <2>3. worker' = worker \/ \E c \in Consumer : ConsumerStep(c)
    BY DEF Next, AddToStream, DeleteRoute, ReadFloor, MaintenanceRepair, TrimStream, RetireEvents,
           MaintenanceFails, Save, Failover, vars
  <2>4. QED
    BY <2>1, <2>2, <2>3
<1>3. ASSUME NEW e \in waived' PROVE e < next'
  <2>0. e \in Nat /\ (e \in waived => e < next')
    BY <1>1, <1>3, <1>r DEF Appended, TypeOK
  <2>1. CASE AddToStream
    <3>1. e \in waived \cup redis.entries \cup {next} /\ next' = next + 1
      BY <2>1, <1>3 DEF AddToStream
    <3>2. QED
      BY <1>g, <1>r, <2>0, <3>1
  <2>2. CASE Failover
    BY <1>g, <2>0, <2>2, <1>3 DEF Failover
  <2>3. ASSUME NEW c \in Consumer, ConsumerStep(c) PROVE e < next'
    <3>1. next' = next
      BY <2>3, ConsumerAppendsNothing
    <3>2. ASSUME NEW m \in worker[c].bad, Discard(c, m) PROVE e < next'
      BY <1>3, <2>0, <3>1, <3>2 DEF Discard, Appended, Held
    <3>3. ASSUME NEW page \in SUBSET worker[c].buf, InsertPage(c, page) PROVE e < next'
      <4>1. waived' \subseteq waived \cup worker[c].buf
        BY <3>3 DEF InsertPage
      <4>2. worker[c].buf \subseteq Held(worker[c])
        BY DEF Delivery, BufferTracked, Held
      <4>3. QED
        BY <1>3, <2>0, <3>1, <4>1, <4>2 DEF Appended
    <3>4. ASSUME ~ \E m \in worker[c].bad : Discard(c, m),
                 ~ \E page \in SUBSET worker[c].buf : InsertPage(c, page)
          PROVE  waived' = waived
      BY <2>3, <3>4 DEF ConsumerStep, StartFlush, ClaimStale, ReadPending, ReadNew, AckReady,
                        AckFails, Prepare, MissGroup, RepairGroup, RepairFails, Stop, Start
    <3>5. QED
      BY <1>3, <2>0, <3>2, <3>3, <3>4
  <2>4. CASE \/ (\E d \in Doomed : DeleteRoute(d)) \/ ReadFloor \/ MaintenanceRepair
             \/ TrimStream \/ RetireEvents \/ MaintenanceFails \/ Save \/ UNCHANGED vars
    BY <1>3, <2>0, <2>4 DEF DeleteRoute, ReadFloor, MaintenanceRepair, TrimStream, RetireEvents,
                            MaintenanceFails, Save, vars
  <2>5. QED
    BY <2>1, <2>2, <2>3, <2>4 DEF Next
<1>4. QED
  BY <1>2, <1>3 DEF Appended

\* The refinement mapping's value of ResultLog's excluded.
Excluded == waived \cup {e \in Poison : e < next}

\* Every step that neither appends nor counts, and removes from the stream only
\* what is settled afterwards, is a step of the log.
LEMMA ForgetsSettled ==
    ASSUME TypeOK, TypeOK', Appended, Appended', Delivery, StaysSettled,
           next' = next, counted' = counted, waived \subseteq waived',
           redis'.entries \subseteq redis.entries,
           \A e \in redis.entries \ redis'.entries : Settled(e)'
    PROVE  Log!Forget
<1>1. \A e \in redis.entries : e < next
  BY DEF Delivery, GroupSound
<1>2. Excluded \subseteq Excluded' /\ Excluded' \subseteq 1..next - 1
  <2>1. \A e \in Id : e < next => e \in 1..next - 1
    BY StreamAssumption DEF TypeOK, Id
  <2>2. waived' \subseteq Id /\ Poison \subseteq Id
    BY StreamAssumption DEF TypeOK
  <2>3. QED
    BY <2>1, <2>2 DEF Excluded, Appended
<1>3. \A e \in redis.entries \ redis'.entries : counted[e] > 0 \/ e \in Excluded'
  BY <1>1 DEF Settled, Excluded
<1>4. QED
  BY <1>2, <1>3 DEF Log!Forget, Excluded

\* Counting what is accepted for the first time is a step of the log.
LEMMA SettlesAccepted ==
    ASSUME TypeOK, TypeOK', Appended', Remembered, next' = next, redis' = redis,
           waived \subseteq waived', NEW A \in SUBSET Id,
           \A e \in A : e < next /\ e \notin ledger /\ e >= floor,
           Commit(A) \/ counted' = counted
    PROVE  Log!Settle
<1>t. /\ \A e \in Id : e \in Nat /\ counted[e] \in Nat
      /\ \A e \in Id : e < next => e \in 1..next - 1
      /\ floor \in Nat
  BY StreamAssumption DEF TypeOK, Id
<1>1. Excluded \subseteq Excluded' /\ Excluded' \subseteq 1..next - 1
  <2>2. waived' \subseteq Id /\ Poison \subseteq Id
    BY StreamAssumption DEF TypeOK
  <2>3. QED
    BY <1>t, <2>2 DEF Excluded, Appended
<1>2. \A e \in A : counted[e] = 0
  <2>1. \A e \in A : ~(e < floor)
    BY <1>t
  <2>2. \A e \in A : counted[e] <= 1 /\ counted[e] # 1
    BY <2>1 DEF Remembered
  <2>3. QED
    BY <1>t, <2>2
<1>3. ASSUME NEW e \in Id, counted'[e] # counted[e]
      PROVE  e \in 1..next - 1 /\ counted[e] = 0 /\ counted'[e] = 1
  <2>1. Commit(A)
    BY <1>3
  <2>2. e \in A /\ counted'[e] = counted[e] + 1
    BY <1>3, <2>1, CommitType
  <2>3. QED
    BY <1>t, <1>2, <2>2
<1>4. QED
  BY <1>1, <1>3 DEF Log!Settle, Excluded

\* A consumer counts, excludes or forgets.
LEMMA LogConsumer ==
    ASSUME TypeOK, TypeOK', Remembered, Delivery, Appended, Appended', StaysSettled,
           NEW c \in Consumer, ConsumerStep(c)
    PROVE  Log!Settle \/ Log!Forget
<1>n. next' = next /\ redis \in Stream
  BY ConsumerAppendsNothing DEF TypeOK
<1>s. \A e \in Ready(worker[c]) : Settled(e)'
  <2>1. \A e \in Ready(worker[c]) : e \in Id /\ Settled(e)
    BY DEF Delivery, ReadySettled, Ready, TypeOK, WorkerState
  <2>2. QED
    BY <2>1 DEF StaysSettled
<1>1. ASSUME NEW page \in SUBSET worker[c].buf, InsertPage(c, page) PROVE Log!Settle
  <2> DEFINE A == Accept(page \cap worker[c].kept)
  <2>1. page \subseteq Id /\ page \subseteq Held(worker[c])
    BY DEF TypeOK, WorkerState, Delivery, BufferTracked, Held
  <2>2. A \in SUBSET Id /\ \A e \in A : e < next /\ e \notin ledger /\ e >= floor
    BY <2>1 DEF Accept, Appended
  <2>3. Commit(A) \/ counted' = counted
    BY <1>1 DEF InsertPage, db
  <2>4. waived \subseteq waived' /\ redis' = redis
    BY <1>1 DEF InsertPage
  <2> HIDE DEF A
  <2>5. QED
    BY <1>n, <2>2, <2>3, <2>4, SettlesAccepted
<1>2. ASSUME NEW S, redis' = AckDelete(redis, S), \A e \in S : Settled(e)',
             counted' = counted, waived \subseteq waived'
      PROVE  Log!Forget
  <2>1. redis'.entries = redis.entries \ S
    BY <1>2, <1>n, AckDeleteType
  <2>2. QED
    BY <1>2, <1>n, <2>1, ForgetsSettled
<1>3. ASSUME redis'.entries = redis.entries, counted' = counted, waived \subseteq waived'
      PROVE  Log!Forget
  BY <1>3, <1>n, ForgetsSettled
<1>4. CASE AckReady(c) \/ AckFails(c)
  <2>1. PICK S \in SUBSET Ready(worker[c]) : redis' = AckDelete(redis, S)
    BY <1>4 DEF AckReady, AckFails
  <2>2. counted' = counted /\ waived' = waived
    BY <1>4 DEF AckReady, AckFails, db
  <2>3. QED
    BY <1>2, <1>s, <2>1, <2>2
<1>5. ASSUME NEW e \in worker[c].bad, Discard(c, e) PROVE Log!Forget
  <2>1. counted' = counted /\ waived' = waived \cup {e}
    BY <1>5 DEF Discard, db
  <2>2. redis' = redis \/ redis' = AckDelete(redis, {e})
    BY <1>5 DEF Discard
  <2>3. Settled(e)'
    BY <2>1 DEF Settled
  <2>4. QED
    BY <1>2, <1>3, <2>1, <2>2, <2>3
<1>6. ASSUME NEW S, NEW answered, ClaimStale(c, S, answered) PROVE Log!Forget
  <2>1. redis' = AutoClaim(redis, S, c) /\ counted' = counted /\ waived' = waived
    BY <1>6 DEF ClaimStale, db
  <2>2. redis'.entries = redis.entries
    BY <1>n, <2>1, AutoClaimType
  <2>3. QED
    BY <1>3, <2>1, <2>2
<1>7. ASSUME NEW answered, ReadNew(c, answered) PROVE Log!Forget
  <2> DEFINE page == FirstOf(Unread(redis), ReadBatch)
  <2>1. PICK last \in page : redis' = Deliver(redis, page, last, c)
    BY <1>7 DEF ReadNew
  <2>2. last \in Id
    BY <1>n, <2>1, FirstOfSubset DEF Unread, Stream
  <2>3. counted' = counted /\ waived' = waived
    BY <1>7 DEF ReadNew, db
  <2> HIDE DEF page
  <2>4. \A S : Deliver(redis, S, last, c).entries = redis.entries
    <3> TAKE S
    <3>1. /\ Deliver(redis, S, last, c).entries = redis.entries
          /\ Deliver(redis, S, last, c).delivered = last
          /\ \A e \in Id : Deliver(redis, S, last, c).owner[e] = IF e \in S THEN c ELSE redis.owner[e]
      BY <1>n, <2>2, DeliverType
    <3>2. QED
      BY <3>1
  <2>5. QED
    BY <1>3, <2>1, <2>3, <2>4
<1>8. CASE RepairGroup(c) \/ RepairFails(c) \/ Start(c)
  <2>1. redis' = redis \/ redis' = GroupCreate(redis)
    BY <1>8 DEF RepairGroup, RepairFails, Start
  <2>2. counted' = counted /\ waived' = waived
    BY <1>8 DEF RepairGroup, RepairFails, Start, db
  <2>3. QED
    BY <1>3, <1>n, <2>1, <2>2, GroupCreateType
<1>9. CASE StartFlush(c) \/ ReadPending(c) \/ Prepare(c) \/ MissGroup(c) \/ Stop(c)
  BY <1>3, <1>9 DEF StartFlush, ReadPending, Prepare, MissGroup, Stop, db
<1>10. QED
  BY <1>1, <1>4, <1>5, <1>6, <1>7, <1>8, <1>9 DEF ConsumerStep

\* Every step of the stream is a step of the log or leaves it alone.
LEMMA LogStep ==
    ASSUME TypeOK, TypeOK', Remembered, Delivery, Appended, Appended', [Next]_vars
    PROVE  [Log!LogNext]_(Log!logVars)
<1>s. StaysSettled
  BY SettledStays
<1>e. redis \in Stream /\ disk \in Stream /\ \A e \in redis.entries \cup disk.entries : e \in Id /\ e < next
  BY DEF TypeOK, Stream, Delivery, GroupSound
<1>i. \A e \in Id : e < next => e \in 1..next - 1
  BY StreamAssumption DEF TypeOK, Id
<1>1. CASE AddToStream
  <2>1. PICK evicted \in SUBSET (redis.entries \cup {next}) :
            /\ redis' = [redis EXCEPT !.entries = (redis.entries \cup {next}) \ evicted]
            /\ waived' = waived \cup evicted
    BY <1>1 DEF AddToStream
  <2>2. redis'.entries = (redis.entries \cup {next}) \ evicted
    BY <1>e, <2>1 DEF Stream
  <2>3. next \in Id /\ next' = next + 1 /\ counted' = counted
    BY <1>1 DEF AddToStream, db
  <2>4. next \notin 1..next - 1 /\ 1..next' - 1 = (1..next - 1) \cup {next}
    BY <2>3, StreamAssumption DEF Id
  <2>5. Excluded \subseteq Excluded' /\ Excluded' \subseteq Excluded \cup redis.entries \cup {next}
    <3>1. \A e \in Poison : e < next => e < next'
      BY <2>3, StreamAssumption DEF Id
    <3>2. \A e \in Poison : e < next' => e < next \/ e = next
      BY <2>3, StreamAssumption DEF Id
    <3>3. QED
      BY <2>1, <3>1, <3>2 DEF Excluded
  <2>6. evicted \subseteq Excluded'
    BY <2>1 DEF Excluded
  <2>7. PICK n \in Id : n = next
    BY <2>3
  <2>8. Log!Accept(n)
    BY <2>2, <2>3, <2>4, <2>5, <2>6, <2>7 DEF Log!Accept, Excluded
  <2>9. QED
    BY <2>8 DEF Log!LogNext
<1>2. ASSUME NEW c \in Consumer, ConsumerStep(c) PROVE Log!LogNext
  BY <1>2, <1>s, LogConsumer DEF Log!LogNext
<1>3. CASE TrimStream
  <2>1. redis'.entries = {e \in redis.entries : e >= maint.before}
    BY <1>3, <1>e DEF TrimStream, Stream
  <2>2. next' = next /\ counted' = counted /\ waived' = waived
    BY <1>3 DEF TrimStream, db
  <2>3. \A e \in Id : e < maint.before => Settled(e)'
    BY <1>3, <1>s DEF TrimStream, Delivery, BoundaryBehindWork, StaysSettled
  <2>4. \A e \in redis.entries \ redis'.entries : Settled(e)'
    <3>1. maint.before \in Nat /\ \A e \in redis.entries : e \in Nat
      BY <1>e, StreamAssumption DEF TypeOK, Maintenance, Id
    <3>2. QED
      BY <1>e, <2>1, <2>3, <3>1
  <2>5. QED
    BY <1>s, <2>1, <2>2, <2>4, ForgetsSettled DEF Log!LogNext
<1>4. CASE Failover
  <2>1. redis'.entries = disk.entries /\ waived' = waived \cup (redis.entries \ disk.entries)
    BY <1>4 DEF Failover
  <2>2. next' = next /\ counted' = counted
    BY <1>4 DEF Failover, db
  <2>3. disk.entries \subseteq 1..next - 1
    BY <1>e, <1>i
  <2>4. Log!Restore
    BY <2>1, <2>2, <2>3 DEF Log!Restore
  <2>5. QED
    BY <2>4 DEF Log!LogNext
<1>5. CASE MaintenanceRepair
  <2>1. redis'.entries = redis.entries
    BY <1>5, <1>e, GroupCreateType DEF MaintenanceRepair
  <2>2. next' = next /\ counted' = counted /\ waived' = waived
    BY <1>5 DEF MaintenanceRepair, db
  <2>3. QED
    BY <2>1, <2>2 DEF Log!logVars
<1>6. CASE \/ (\E e \in Doomed : DeleteRoute(e)) \/ ReadFloor \/ RetireEvents \/ MaintenanceFails
           \/ Save \/ UNCHANGED vars
  <2>1. redis' = redis /\ next' = next /\ counted' = counted /\ waived' = waived
    BY <1>6 DEF DeleteRoute, ReadFloor, RetireEvents, MaintenanceFails, Save, vars, db
  <2>2. QED
    BY <2>1 DEF Log!logVars
<1>7. QED
  BY <1>1, <1>2, <1>3, <1>4, <1>5, <1>6 DEF Next

\* The stream with its consumers, ledger and floor implements the log: each
\* accepted result is kept until it is counted, once, or excluded for a
\* documented reason, through deliveries in any order, crashes, lost replies,
\* trimming and failovers (proxy_statistics_stream.go, RetireProxyStatisticEvents).
THEOREM StreamImplementsLog == Spec => ImplementsLog
<1>1. Init => Appended
  BY DEF Init, Appended, Held, Started
<1>2. TypeOK /\ TypeOK' /\ Delivery /\ Appended /\ [Next]_vars => Appended'
  BY AppendedStep
<1>3. Init => Log!LogInit
  <2> SUFFICES ASSUME Init PROVE Log!LogInit
    OBVIOUS
  <2>1. next = 1 /\ redis.entries = {} /\ waived = {} /\ counted = [e \in Id |-> 0]
    BY DEF Init, NoStream
  <2>2. 1..next - 1 = {}
    BY <2>1
  <2>3. waived \cup {e \in Poison : e < next} = {}
    <3>1. \A e \in Poison : ~(e < 1)
      BY StreamAssumption DEF Id
    <3>2. QED
      BY <2>1, <3>1
  <2>4. QED
    BY <2>1, <2>2, <2>3 DEF Log!LogInit
<1>4. /\ TypeOK /\ TypeOK' /\ Remembered /\ Delivery /\ Appended /\ Appended' /\ [Next]_vars
      => [Log!LogNext]_(Log!logVars)
  BY LogStep
<1>5. QED
  BY <1>1, <1>2, <1>3, <1>4, DeliveryHolds, PTL DEF Spec, ImplementsLog, Log!LogSpec
=============================================================================
