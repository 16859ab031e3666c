---------------------------- MODULE XusbdProofs ----------------------------
(***************************************************************************)
(* Proofs about the device controller.  The first part is about one ring   *)
(* of transfer requests: an invariant of what the driver and the           *)
(* controller do with a ring that has room, for every number of slots, and *)
(* what the cycle bits then say.  The rest is about Xusbd.                 *)
(***************************************************************************)
EXTENDS Xusbd, TLAPS, SequenceTheorems, FiniteSetTheorems


\* The driver's half: the slots before enq have its cycle, the others and the
\* link the other one.
Written(r) ==
  /\ \A i \in Slot : r.cycle[i] = r.pcs <=> i < r.enq
  /\ r.cycle[Link] = 1 - r.pcs

\* The controller is `posted` requests behind the driver's enq, on the other
\* round exactly when the cycles differ.
Ahead(r, posted) ==
  /\ At(r) \in Slot
  /\ IF Ccs(r) = r.pcs THEN r.enq = At(r) + posted ELSE r.enq + Link = At(r) + posted

\* The driver has `done` requests to follow.
Behind(r, done) == r.deq + done \in {At(r), At(r) + Link}

\* A ring with `posted` requests of the controller's and `done` ones whose
\* events the driver has not handled.
RingInv(r, posted, done) ==
  /\ r \in Ring /\ posted \in Nat /\ done \in Nat /\ posted + done < Link
  /\ Written(r)
  /\ Ahead(r, posted)
  /\ Behind(r, done)

\* The sizes: a link after at least two slots.
LEMMA Sizes == Link \in Nat /\ Link >= 2 /\ Slot = 0 .. Link - 1 /\ Link \notin Slot
  BY SlotsAssumption, SMT DEF Link, Slot

\* A slot is a number below the link.
LEMMA SlotIs == ASSUME NEW k PROVE k \in Slot <=> k \in Nat /\ k < Link
  BY Sizes, SMT DEF Slot

\* The controller's place is one of a ring's, its cycle a bit.
LEMMA PlaceTyped ==
  ASSUME NEW r \in Ring
  PROVE  At(r) \in 0 .. Link /\ Ccs(r) \in Bit
  BY Sizes, SMT DEF At, Ccs, Jumps, Ring, Bit, Slot

\* A ring over cleared memory is empty (xusb_device_init).
LEMMA InitializedInv == RingInv(Initialized(Cleared), 0, 0)
<1> DEFINE r == Initialized(Cleared)
<1>1. r \in Ring
  BY Sizes, SMT DEF Initialized, Cleared, Ring, Bit, Slot
<1>2. /\ r.cycle = [i \in 0 .. Link |-> 0] /\ r.enq = 0 /\ r.pcs = 1 /\ r.deq = 0
      /\ r.at = 0 /\ r.ccs = 1
  BY DEF Initialized, Cleared
<1>3. At(r) = 0 /\ Ccs(r) = 1
  BY <1>2, Sizes, SMT DEF At, Ccs, Jumps
<1>4. Written(r)
  BY <1>2, Sizes, SMT DEF Written, Slot
<1>5. Ahead(r, 0) /\ Behind(r, 0)
  BY <1>2, <1>3, Sizes, SMT DEF Ahead, Behind, Slot
<1> QED BY <1>1, <1>4, <1>5, Sizes, SMT DEF RingInv

\* What the invariant gives, in terms of the places of both sides.
LEMMA Places ==
  ASSUME NEW r, NEW n, NEW u, RingInv(r, n, u)
  PROVE  /\ r \in Ring /\ n \in Nat /\ u \in Nat /\ n + u < Link
         /\ At(r) \in Slot /\ Ccs(r) \in Bit /\ r.pcs \in Bit /\ r.enq \in Slot
         /\ r.deq \in Slot /\ r.cycle \in [0 .. Link -> Bit]
         /\ r.cycle[Link] = 1 - r.pcs
         /\ Ccs(r) = r.pcs => r.enq = At(r) + n
         /\ Ccs(r) # r.pcs => r.enq + Link = At(r) + n
         /\ r.deq + u = At(r) \/ r.deq + u = At(r) + Link
<1>1. r \in Ring
  BY DEF RingInv
<1>2. Ccs(r) \in Bit
  BY <1>1, PlaceTyped
<1> QED BY <1>1, <1>2 DEF RingInv, Ring, Written, Ahead, Behind

\* A controller at the link has a link to pass.
LEMMA AtLink ==
  ASSUME NEW r, NEW n, NEW u, RingInv(r, n, u), r.at = Link
  PROVE  At(r) = 0 /\ r.enq = n
<1>1. At(r) \in Slot /\ r.cycle[Link] = 1 - r.pcs /\ r.pcs \in Bit
  BY Places
<1>2. Jumps(r)
  BY <1>1, Sizes DEF At
<1>3. At(r) = 0 /\ Ccs(r) = 1 - r.ccs /\ r.cycle[Link] = r.ccs
  BY <1>2 DEF At, Ccs, Jumps
<1>4. Ccs(r) = r.pcs
  BY <1>1, <1>3, SMT DEF Bit
<1> QED BY <1>3, <1>4, Places, SMT DEF Slot

\* The controller carries out a request: there was one.
LEMMA FetchedInv ==
  ASSUME NEW r, NEW n, NEW u, RingInv(r, n, u), HasTrb(r)
  PROVE  n > 0 /\ RingInv(Fetched(r), n - 1, u + 1)
<1> DEFINE P == At(r)
           C == Ccs(r)
           s == Fetched(r)
<1>1. /\ r \in Ring /\ n \in Nat /\ u \in Nat /\ n + u < Link
      /\ P \in Slot /\ C \in Bit /\ r.pcs \in Bit /\ r.enq \in Slot /\ r.deq \in Slot
      /\ r.cycle[Link] = 1 - r.pcs
      /\ C = r.pcs => r.enq = P + n
      /\ C # r.pcs => r.enq + Link = P + n
      /\ r.deq + u = P \/ r.deq + u = P + Link
  BY Places
<1>2. r.cycle[P] = C /\ (r.cycle[P] = r.pcs <=> P < r.enq) /\ Written(r)
  BY <1>1 DEF HasTrb, RingInv, Written
<1>3. /\ s \in Ring /\ s.cycle = r.cycle /\ s.enq = r.enq /\ s.pcs = r.pcs
      /\ s.deq = r.deq /\ s.at = P + 1 /\ s.ccs = C
  <2>1. P + 1 \in 0 .. Link
    BY <1>1, Sizes, SMT
  <2> QED BY <2>1, <1>1 DEF Fetched, Ring
<1>4. Written(s)
  BY <1>2, <1>3 DEF Written
<1>5. n > 0 /\ Ahead(s, n - 1) /\ Behind(s, u + 1)
  <2>1. CASE C = r.pcs
    <3>1. P < r.enq /\ r.enq = P + n
      BY <1>1, <1>2, <2>1
    <3>2. n > 0 /\ P + 1 \in Slot /\ P + 1 # Link /\ r.enq = P + 1 + (n - 1)
      BY <1>1, <3>1, Sizes, SMT
    <3>3. At(s) = P + 1 /\ Ccs(s) = C
      BY <1>3, <3>2 DEF At, Ccs, Jumps
    <3>4. Ahead(s, n - 1)
      BY <1>3, <2>1, <3>2, <3>3 DEF Ahead
    <3>5. r.deq + (u + 1) \in {P + 1, P + 1 + Link}
      BY <1>1, Sizes, SMT DEF Slot
    <3> QED BY <1>3, <3>2, <3>3, <3>4, <3>5 DEF Behind
  <2>2. CASE C # r.pcs
    <3>1. r.enq + Link = P + n /\ n > 0
      BY <1>1, <2>2, Sizes, SMT
    <3>2. CASE P + 1 # Link
      <4>1. P + 1 \in Slot
        BY <1>1, <3>2, Sizes, SMT DEF Slot
      <4>0. r.enq + Link = P + 1 + (n - 1)
        BY <1>1, <3>1, Sizes, SMT DEF Slot
      <4>2. At(s) = P + 1 /\ Ccs(s) = C
        BY <1>3, <3>2 DEF At, Ccs, Jumps
      <4>3. Ahead(s, n - 1)
        BY <1>3, <2>2, <4>0, <4>1, <4>2 DEF Ahead
      <4>4. r.deq + (u + 1) \in {P + 1, P + 1 + Link}
        BY <1>1, Sizes, SMT DEF Slot
      <4> QED BY <1>3, <3>1, <4>2, <4>3, <4>4 DEF Behind
    <3>3. CASE P + 1 = Link
      <4>1. C = 1 - r.pcs
        BY <1>1, <2>2, SMT DEF Bit
      <4>2. Jumps(s)
        BY <1>1, <1>3, <3>3, <4>1 DEF Jumps
      <4>3. At(s) = 0 /\ Ccs(s) = 1 - C
        BY <1>3, <4>2 DEF At, Ccs
      <4>4. Ccs(s) = s.pcs
        BY <1>1, <1>3, <4>1, <4>3, SMT DEF Bit
      <4>5. r.enq = 0 + (n - 1) /\ 0 \in Slot
        BY <1>1, <3>1, <3>3, Sizes, SMT DEF Slot
      <4>6. Ahead(s, n - 1)
        BY <1>3, <4>3, <4>4, <4>5 DEF Ahead
      <4>7. r.deq + (u + 1) \in {0, 0 + Link}
        BY <1>1, <3>1, <3>3, Sizes, SMT DEF Slot
      <4> QED BY <1>3, <3>1, <4>3, <4>6, <4>7 DEF Behind
    <3> QED BY <3>2, <3>3
  <2> QED BY <2>1, <2>2
<1>6. n - 1 \in Nat /\ u + 1 \in Nat /\ (n - 1) + (u + 1) < Link
  BY <1>1, <1>5, Sizes, SMT
<1> QED BY <1>3, <1>4, <1>5, <1>6 DEF RingInv

\* The driver follows a request that was carried out.
LEMMA DequeuedInv ==
  ASSUME NEW r, NEW n, NEW u, RingInv(r, n, u), u > 0
  PROVE  RingInv(Dequeued(r), n, u - 1)
<1> DEFINE s == Dequeued(r)
<1>1. /\ r \in Ring /\ n \in Nat /\ u \in Nat /\ n + u < Link
      /\ At(r) \in Slot /\ r.deq \in Slot
      /\ r.deq + u = At(r) \/ r.deq + u = At(r) + Link
  BY Places
<1>2. Following(r.deq) \in Slot
  BY <1>1, Sizes, SMT DEF Following, Slot
<1>3. /\ s \in Ring /\ s.cycle = r.cycle /\ s.enq = r.enq /\ s.pcs = r.pcs
      /\ s.deq = Following(r.deq) /\ s.at = r.at /\ s.ccs = r.ccs
  BY <1>1, <1>2 DEF Dequeued, Ring
<1>4. At(s) = At(r) /\ Ccs(s) = Ccs(r)
  BY <1>3 DEF At, Ccs, Jumps
<1>5. Written(s) /\ Ahead(s, n)
  BY <1>3, <1>4 DEF RingInv, Written, Ahead
<1>6. Following(r.deq) + (u - 1) \in {At(r), At(r) + Link}
  BY <1>1, Sizes, SMT DEF Following, Slot
<1>7. Behind(s, u - 1)
  BY <1>3, <1>4, <1>6 DEF Behind
<1>8. u - 1 \in Nat /\ n + (u - 1) < Link
  BY <1>1, Sizes, SMT
<1> QED BY <1>1, <1>3, <1>5, <1>7, <1>8 DEF RingInv

\* The driver puts a request on a ring that has room.
LEMMA QueuedInv ==
  ASSUME NEW r, NEW n, NEW u, RingInv(r, n, u), n + u + 1 < Link
  PROVE  RingInv(Queued(r), n + 1, u)
<1> DEFINE P == At(r)
           C == Ccs(r)
           s == Queued(r)
<1>1. /\ r \in Ring /\ n \in Nat /\ u \in Nat /\ n + u < Link
      /\ P \in Slot /\ C \in Bit /\ r.pcs \in Bit /\ r.enq \in Slot /\ r.deq \in Slot
      /\ r.cycle \in [0 .. Link -> Bit]
      /\ r.cycle[Link] = 1 - r.pcs
      /\ C = r.pcs => r.enq = P + n
      /\ C # r.pcs => r.enq + Link = P + n
      /\ r.deq + u = P \/ r.deq + u = P + Link
  BY Places
<1>2. \A i \in Slot : r.cycle[i] = r.pcs <=> i < r.enq
  BY DEF RingInv, Written
<1>3. s.deq = r.deq /\ s.at = r.at /\ s.ccs = r.ccs /\ s.enq = Following(r.enq)
  BY <1>1 DEF Queued, Ring
<1>4. r.enq \in 0 .. Link /\ r.enq # Link /\ Link \in 0 .. Link /\ Slot \subseteq 0 .. Link
  BY <1>1, Sizes, SMT DEF Slot
<1>5. n + 1 \in Nat /\ (n + 1) + u < Link
  BY <1>1, Sizes, SMT
<1>6. CASE r.enq + 1 # Link
  <2>1. s.cycle = [r.cycle EXCEPT ![r.enq] = r.pcs] /\ s.pcs = r.pcs /\ s.enq = r.enq + 1
    BY <1>1, <1>6 DEF Queued, Following, Ring
  <2>2. r.enq + 1 \in Slot
    <3>1. r.enq \in Nat /\ r.enq < Link /\ Link \in Nat
      BY <1>1, SlotIs, Sizes
    <3>2. r.enq + 1 \in Nat /\ r.enq + 1 < Link
      BY <1>6, <3>1, SMT
    <3> QED BY <3>2, SlotIs
  <2>3. s.cycle \in [0 .. Link -> Bit]
    BY <1>1, <1>4, <2>1
  <2>4. s \in Ring
    BY <1>1, <2>1, <2>2, <2>3 DEF Queued, Ring, Following
  <2>5. s.cycle[Link] = 1 - s.pcs
    BY <1>1, <1>4, <2>1
  <2>6. ASSUME NEW i \in Slot
        PROVE  s.cycle[i] = s.pcs <=> i < s.enq
    <3>1. CASE i = r.enq
      BY <1>1, <1>4, <2>1, <3>1, Sizes, SMT DEF Slot
    <3>2. CASE i # r.enq
      <4>1. s.cycle[i] = r.cycle[i]
        BY <1>1, <1>4, <2>1, <3>2
      <4>2. i < r.enq <=> i < r.enq + 1
        <5>1. i \in Nat /\ r.enq \in Nat
          BY <1>1, SlotIs
        <5> QED BY <3>2, <5>1, SMT
      <4> QED BY <1>2, <2>1, <4>1, <4>2
    <3> QED BY <3>1, <3>2
  <2>7. Written(s)
    BY <2>5, <2>6 DEF Written
  <2>8. At(s) = P /\ Ccs(s) = C
    BY <1>1, <1>3, <1>4, <2>1 DEF At, Ccs, Jumps
  <2>9. C = r.pcs => r.enq + 1 = P + (n + 1)
    BY <1>1, Sizes, SMT DEF Slot
  <2>10. C # r.pcs => r.enq + 1 + Link = P + (n + 1)
    BY <1>1, Sizes, SMT DEF Slot
  <2>11. Ahead(s, n + 1)
    BY <1>1, <2>1, <2>8, <2>9, <2>10 DEF Ahead
  <2>12. Behind(s, u)
    BY <1>1, <1>3, <2>8 DEF Behind
  <2> QED BY <1>1, <1>5, <2>4, <2>7, <2>11, <2>12 DEF RingInv
<1>7. CASE r.enq + 1 = Link
  <2>1. /\ s.cycle = [[r.cycle EXCEPT ![r.enq] = r.pcs] EXCEPT ![Link] = r.pcs]
        /\ s.pcs = 1 - r.pcs /\ s.enq = 0
    BY <1>1, <1>7 DEF Queued, Following, Ring
  <2>2. 0 \in Slot /\ 1 - r.pcs \in Bit
    BY <1>1, Sizes, SMT DEF Slot, Bit
  <2>3. s.cycle \in [0 .. Link -> Bit]
    BY <1>1, <1>4, <2>1
  <2>4. s \in Ring
    BY <1>1, <1>7, <2>1, <2>2, <2>3 DEF Queued, Ring, Following
  <2>5. s.cycle[Link] = r.pcs
    BY <1>1, <1>4, <2>1
  <2>6. s.cycle[Link] = 1 - s.pcs
    BY <1>1, <2>1, <2>5, SMT DEF Bit
  <2>7. ASSUME NEW i \in Slot
        PROVE  s.cycle[i] = r.pcs
    <3>1. CASE i = r.enq
      BY <1>1, <1>4, <2>1, <3>1
    <3>2. CASE i # r.enq
      <4>1. i # Link /\ i \in 0 .. Link
        BY Sizes, <1>4
      <4>2. s.cycle[i] = r.cycle[i]
        BY <1>1, <1>4, <2>1, <3>2, <4>1
      <4>3. i < r.enq
        BY <1>1, <1>7, <3>2, Sizes, SMT DEF Slot
      <4> QED BY <1>2, <4>2, <4>3
    <3> QED BY <3>1, <3>2
  <2>8. r.pcs # 1 - r.pcs
    BY <1>1, SMT DEF Bit
  <2>9. \A i \in Slot : ~(i < 0)
    BY Sizes, SMT DEF Slot
  <2>10. Written(s)
    BY <2>1, <2>6, <2>7, <2>8, <2>9 DEF Written
  <2>11. r.at # Link
    <3> SUFFICES ASSUME r.at = Link PROVE FALSE
      OBVIOUS
    <3>1. r.enq = n
      BY AtLink
    <3> QED BY <3>1, <1>1, <1>7, Sizes, SMT
  <2>12. At(s) = P /\ Ccs(s) = C
    BY <1>3, <2>11 DEF At, Ccs, Jumps
  <2>13. C = r.pcs
    <3> SUFFICES ASSUME C # r.pcs PROVE FALSE
      OBVIOUS
    <3>1. r.enq + Link = P + n
      BY <1>1
    <3> QED BY <3>1, <1>1, <1>7, Sizes, SMT DEF Slot
  <2>14. C # s.pcs
    BY <2>1, <2>8, <2>13
  <2>15. 0 + Link = P + (n + 1)
    BY <1>1, <1>7, <2>13, Sizes, SMT DEF Slot
  <2>16. Ahead(s, n + 1)
    BY <1>1, <2>1, <2>12, <2>14, <2>15 DEF Ahead
  <2>17. Behind(s, u)
    BY <1>1, <1>3, <2>12 DEF Behind
  <2> QED BY <1>1, <1>5, <2>4, <2>10, <2>16, <2>17 DEF RingInv
<1> QED BY <1>6, <1>7

\* The driver's pointers meet exactly when nothing is outstanding.
LEMMA FreeEmpty ==
  ASSUME NEW r, NEW n, NEW u, RingInv(r, n, u)
  PROVE  r.enq = r.deq <=> n + u = 0
<1>1. /\ n \in Nat /\ u \in Nat /\ n + u < Link /\ At(r) \in Slot
      /\ r.enq \in Slot /\ r.deq \in Slot
      /\ r.enq = At(r) + n \/ r.enq + Link = At(r) + n
      /\ r.deq + u = At(r) \/ r.deq + u = At(r) + Link
  BY Places
<1> QED BY <1>1, Sizes, SMT DEF Slot

\* What the cycle bits say.
LEMMA InvAgrees ==
  ASSUME NEW r, NEW n, NEW u, RingInv(r, n, u)
  PROVE  Agrees(r, n, u)
<1> DEFINE P == At(r)
           C == Ccs(r)
<1>1. /\ r \in Ring /\ n \in Nat /\ u \in Nat /\ n + u < Link
      /\ P \in Slot /\ C \in Bit /\ r.pcs \in Bit /\ r.enq \in Slot /\ r.deq \in Slot
      /\ r.cycle \in [0 .. Link -> Bit]
      /\ C = r.pcs => r.enq = P + n
      /\ C # r.pcs => r.enq + Link = P + n
      /\ r.deq + u = P \/ r.deq + u = P + Link
  BY Places
<1>2. \A i \in Slot : r.cycle[i] = r.pcs <=> i < r.enq
  BY DEF RingInv, Written
<1>3. ASSUME NEW j \in Slot
      PROVE  Owned(r, j) <=> j < n
  <2> DEFINE i == P + j
  <2>0. P \in Nat /\ j \in Nat /\ i \in Nat
    BY <1>1, SlotIs, SMT
  <2>1. i < Link => i \in Slot
    BY <2>0, SlotIs
  <2>2. ~(i < Link) => i - Link \in Slot
    BY <1>1, Sizes, SMT DEF Slot
  <2>3. Owned(r, j) <=> IF i < Link THEN r.cycle[i] = C ELSE r.cycle[i - Link] = 1 - C
    BY DEF Owned
  <2> HIDE DEF i, C
  <2>4. CASE C = r.pcs
    <3>1. CASE i < Link
      <4>1. Owned(r, j) <=> i < r.enq
        BY <1>2, <2>1, <2>3, <2>4, <3>1
      <4> QED BY <4>1, <1>1, <2>4, Sizes, SMT DEF Slot, i
    <3>2. CASE ~(i < Link)
      <4>1. i - Link < r.enq
        BY <1>1, <2>4, <3>2, Sizes, SMT DEF Slot, i
      <4>2. r.cycle[i - Link] = r.pcs
        BY <1>2, <2>2, <3>2, <4>1
      <4>3. ~Owned(r, j)
        BY <1>1, <2>3, <2>4, <3>2, <4>2, SMT DEF Bit
      <4>4. ~(j < n)
        BY <1>1, <2>4, <3>2, Sizes, SMT DEF Slot, i
      <4> QED BY <4>3, <4>4
    <3> QED BY <3>1, <3>2
  <2>5. CASE C # r.pcs
    <3>0. C = 1 - r.pcs /\ r.pcs = 1 - C
      BY <1>1, <2>5, SMT DEF Bit
    <3>1. CASE i < Link
      <4>1. ~(i < r.enq)
        BY <1>1, <2>5, <3>1, Sizes, SMT DEF Slot, i
      <4>2. r.cycle[i] # r.pcs /\ r.cycle[i] \in Bit
        BY <1>1, <1>2, <2>1, <3>1, <4>1, Sizes, SMT DEF Slot
      <4>3. r.cycle[i] = C
        BY <1>1, <3>0, <4>2, SMT DEF Bit
      <4>4. Owned(r, j)
        BY <2>3, <3>1, <4>3
      <4>5. j < n
        BY <1>1, <2>5, <3>1, Sizes, SMT DEF Slot, i
      <4> QED BY <4>4, <4>5
    <3>2. CASE ~(i < Link)
      <4>1. Owned(r, j) <=> i - Link < r.enq
        BY <1>2, <2>2, <2>3, <3>0, <3>2
      <4> QED BY <4>1, <1>1, <2>5, Sizes, SMT DEF Slot, i
    <3> QED BY <3>1, <3>2
  <2> QED BY <2>4, <2>5
<1>4. {j \in Slot : Owned(r, j)} = 0 .. n - 1
  <2>1. ASSUME NEW j PROVE j \in Slot /\ j < n <=> j \in 0 .. n - 1
    BY <1>1, Sizes, SMT DEF Slot
  <2> QED BY <1>3, <2>1
<1> QED BY <1>1, <1>4 DEF Agrees

-----------------------------------------------------------------------------
(* The events and the rings of the controller.                             *)

\* The events on a sequence s that complete a request of endpoint e.
Hit(x, e) == x.type = "transfer" /\ x.ep = e
Hits(s, e) == {i \in DOMAIN s : Hit(s[i], e)}
Count(s, e) == Cardinality(Hits(s, e))

\* They are finitely many.
LEMMA HitsFinite ==
  ASSUME NEW s \in Seq(Event), NEW e
  PROVE  IsFiniteSet(Hits(s, e)) /\ Count(s, e) \in Nat
<1>1. DOMAIN s = 1 .. Len(s) /\ Len(s) \in Nat
  BY LenProperties
<1>2. IsFiniteSet(1 .. Len(s))
  BY <1>1, FS_Interval, SMT
<1>3. Hits(s, e) \in SUBSET (1 .. Len(s))
  BY <1>1 DEF Hits
<1>4. IsFiniteSet(Hits(s, e))
  BY <1>2, <1>3, FS_Subset
<1> QED BY <1>4, FS_CardinalityType DEF Count

\* One more event.
LEMMA CountAppend ==
  ASSUME NEW s \in Seq(Event), NEW x \in Event, NEW e
  PROVE  Count(Append(s, x), e) = Count(s, e) + (IF Hit(x, e) THEN 1 ELSE 0)
<1> DEFINE t == Append(s, x)
<1>1. /\ t \in Seq(Event) /\ Len(t) = Len(s) + 1 /\ Len(s) \in Nat
      /\ \A i \in 1 .. Len(s) : t[i] = s[i]
      /\ t[Len(s) + 1] = x
  BY AppendProperties, LenProperties
<1>2. DOMAIN s = 1 .. Len(s) /\ DOMAIN t = 1 .. Len(s) + 1
  BY <1>1, LenProperties
<1>3. 1 .. Len(s) + 1 = (1 .. Len(s)) \cup {Len(s) + 1} /\ Len(s) + 1 \notin 1 .. Len(s)
  BY <1>1, SMT
<1>4. Count(s, e) \in Nat /\ IsFiniteSet(Hits(s, e))
  BY HitsFinite
<1> HIDE DEF t
<1>5. CASE Hit(x, e)
  <2>1. Hits(t, e) = Hits(s, e) \cup {Len(s) + 1}
    BY <1>1, <1>2, <1>3, <1>5 DEF Hits
  <2>2. Len(s) + 1 \notin Hits(s, e)
    BY <1>2, <1>3 DEF Hits
  <2>3. Cardinality(Hits(t, e)) = Cardinality(Hits(s, e)) + 1
    BY <1>4, <2>1, <2>2, FS_AddElement
  <2> QED BY <1>5, <2>3 DEF Count, t
<1>6. CASE ~Hit(x, e)
  <2>1. Hits(t, e) = Hits(s, e)
    BY <1>1, <1>2, <1>3, <1>6 DEF Hits
  <2> QED BY <1>4, <1>6, <2>1, SMT DEF Count, t
<1> QED BY <1>5, <1>6

\* The first event is taken off.
LEMMA CountTail ==
  ASSUME NEW s \in Seq(Event), s # <<>>, NEW e
  PROVE  Count(s, e) = Count(Tail(s), e) + (IF Hit(Head(s), e) THEN 1 ELSE 0)
<1> DEFINE t == Tail(s)
           S == Hits(t, e)
           T == Hits(s, e) \ {1}
           f == [i \in S |-> i + 1]
<1>1. /\ t \in Seq(Event) /\ Len(t) = Len(s) - 1 /\ Len(s) \in Nat \ {0} /\ Len(t) \in Nat
      /\ \A i \in 1 .. Len(t) : t[i] = s[i + 1]
      /\ Head(s) = s[1]
  BY HeadTailProperties, LenProperties, EmptySeq
<1>2. DOMAIN s = 1 .. Len(s) /\ DOMAIN t = 1 .. Len(t)
  BY <1>1, LenProperties
<1>3. IsFiniteSet(S) /\ IsFiniteSet(Hits(s, e)) /\ Count(s, e) \in Nat /\ Count(t, e) \in Nat
  BY <1>1, HitsFinite
<1> HIDE DEF t
<1>4. f \in Bijection(S, T)
  <2>1. ASSUME NEW i \in S PROVE i + 1 \in T /\ i \in Nat
    <3>1. i \in 1 .. Len(t) /\ Hit(t[i], e)
      BY <1>2 DEF Hits
    <3>2. i \in Nat /\ i + 1 \in 1 .. Len(s) /\ i + 1 # 1
      BY <1>1, <3>1, SMT
    <3> QED BY <1>1, <1>2, <3>1, <3>2 DEF Hits
  <2>2. ASSUME NEW j \in T PROVE j \in Nat /\ j - 1 \in S /\ (j - 1) + 1 = j
    <3>1. j \in 1 .. Len(s) /\ j # 1 /\ Hit(s[j], e)
      BY <1>2 DEF Hits
    <3>2. j \in Nat /\ j - 1 \in 1 .. Len(t) /\ (j - 1) + 1 = j
      BY <1>1, <3>1, SMT
    <3>3. t[j - 1] = s[j]
      BY <1>1, <3>2
    <3> QED BY <1>2, <3>1, <3>2, <3>3 DEF Hits
  <2>3. f \in [S -> T]
    BY <2>1
  <2>4. \A a, b \in S : f[a] = f[b] => a = b
    BY <2>1, SMT
  <2>5. \A j \in T : \E i \in S : f[i] = j
    BY <2>2
  <2> HIDE DEF S, T, f
  <2>6. DOMAIN f = S
    BY <2>3
  <2>7. f \in Injection(S, T)
    BY <2>3, <2>4, <2>6 DEF Injection, IsInjective
  <2>8. f \in Surjection(S, T)
    BY <2>3, <2>5 DEF Surjection
  <2> QED BY <2>7, <2>8 DEF Bijection
<1>5. Cardinality(T) = Cardinality(S)
  BY <1>3, <1>4, FS_Bijection DEF ExistsBijection
<1>6. 1 \in Hits(s, e) <=> Hit(Head(s), e)
  BY <1>1, <1>2, SMT DEF Hits
<1>7. Cardinality(T) = IF 1 \in Hits(s, e) THEN Cardinality(Hits(s, e)) - 1
                                           ELSE Cardinality(Hits(s, e))
  BY <1>3, FS_RemoveElement
<1> QED BY <1>3, <1>5, <1>6, <1>7, SMT DEF Count, t

-----------------------------------------------------------------------------
(* Types.                                                                  *)

\* The operations on a ring give a ring.
LEMMA RingTypes ==
  ASSUME NEW r \in Ring
  PROVE  /\ Queued(r) \in Ring /\ Dequeued(r) \in Ring /\ Initialized(r.cycle) \in Ring
         /\ HasTrb(r) => Fetched(r) \in Ring
<1>1. Following(r.enq) \in Slot /\ Following(r.deq) \in Slot /\ 0 \in Slot /\ 0 \in 0 .. Link
  BY SlotIs, Sizes, SMT DEF Following, Ring
<1>2. r.pcs \in Bit /\ 1 - r.pcs \in Bit /\ 1 \in Bit
  BY SMT DEF Ring, Bit
<1>3. Queued(r) \in Ring
  BY <1>1, <1>2 DEF Queued, Ring
<1>4. Dequeued(r) \in Ring /\ Initialized(r.cycle) \in Ring
  BY <1>1, <1>2 DEF Dequeued, Initialized, Ring
<1>5. HasTrb(r) => At(r) + 1 \in 0 .. Link
  BY PlaceTyped, Sizes, SMT DEF HasTrb
<1>6. HasTrb(r) => Fetched(r) \in Ring
  BY <1>5, PlaceTyped DEF Fetched, Ring
<1> QED BY <1>3, <1>4, <1>6

\* The place after one on the ring of events.
LEMMA EventPlaces ==
  /\ LastEvent \in Nat /\ LastEvent >= 3
  /\ \A i \in 0 .. LastEvent : NextEvent(i) \in 0 .. LastEvent
BY XusbdAssumption, SMT DEF LastEvent, NextEvent

\* The first state.
LEMMA InitType == Init => TypeOK
<1> SUFFICES ASSUME Init PROVE TypeOK
  OBVIOUS
<1>1. Initialized(Cleared) \in Ring
  BY InitializedInv DEF RingInv
<1>2. ring \in [Ep -> Ring] /\ asked \in [Ep -> Seq(Posting)]
  BY <1>1, EmptySeq DEF Init
<1>3. ering \in EventRing
  BY EventPlaces, SMT DEF Init, Bit, EventRing
<1>4. events \in Seq(Event)
  BY EmptySeq DEF Init
<1>5. 0 \in 0 .. Seqs - 1 /\ 0 \in 0 .. LastEvent /\ 0 \in 0 .. 2
  BY XusbdAssumption, EventPlaces, SMT
<1> QED BY <1>1, <1>2, <1>3, <1>4, <1>5 DEF Init, TypeOK, States, Request, Drv, Host, Codes


(* One lemma per action, in its order; a step for each variable that is not   *)
(* simply given a value.                                                      *)

LEMMA PollType == TypeOK /\ Poll => TypeOK'
<1> SUFFICES ASSUME TypeOK, Poll PROVE TypeOK'
  OBVIOUS
<1>1. ering' \in EventRing /\ snap' \in 0 .. LastEvent
  BY DEF TypeOK, Poll, EventRing
<1> QED BY <1>1 DEF TypeOK, Poll, Outside

LEMMA TimeOutType == TypeOK /\ TimeOut => TypeOK'
  BY DEF TypeOK, TimeOut, Outside

\* What taking an event off does.
LEMMA HandledType ==
  ASSUME NEW type, TypeOK, Handled(type)
  PROVE  /\ Head(events) \in Event /\ Head(events).type = type
         /\ events' \in Seq(Event) /\ ering' \in EventRing
         /\ pc' \in {"handle", "acknowledge"}
         /\ UNCHANGED <<call, snap, gaveUp, host, upsets>>
<1>1. Head(events) \in Event /\ events' \in Seq(Event)
  BY HeadTailProperties DEF TypeOK, Handled
<1>2. ering.deq \in 0 .. LastEvent /\ ering.ccs \in Bit /\ 1 - ering.ccs \in Bit
  BY SMT DEF TypeOK, EventRing, Bit
<1>3. NextEvent(ering.deq) \in 0 .. LastEvent
  BY <1>2, EventPlaces
<1>4. ering' \in EventRing
  BY <1>2, <1>3 DEF TypeOK, Handled, Advance, EventRing
<1> QED BY <1>1, <1>4 DEF Handled, Advance, Outside

LEMMA HandlePortType == TypeOK /\ HandlePort => TypeOK'
<1> SUFFICES ASSUME TypeOK, HandlePort PROVE TypeOK'
  OBVIOUS
<1>1. Handled("port")
  BY DEF HandlePort
<1> QED BY <1>1, HandledType DEF TypeOK, HandlePort, Codes

LEMMA HandleControlType == TypeOK /\ HandleControl => TypeOK'
<1> SUFFICES ASSUME TypeOK, HandleControl PROVE TypeOK'
  OBVIOUS
<1>1. Handled("transfer")
  BY DEF HandleControl
<1>2. Head(events).code \in Codes
  BY <1>1, HandledType DEF Event, Codes
<1>3. ring["ctrl"] \in Ring /\ "ctrl" \in Ep
  BY DEF TypeOK, Ep
<1>4. Dequeued(ring["ctrl"]) \in Ring /\ Queued(Dequeued(ring["ctrl"])) \in Ring
  BY <1>3, RingTypes
<1>5. ring' \in [Ep -> Ring]
  BY <1>3, <1>4 DEF TypeOK, HandleControl
<1>6. [stage |-> "status", seq |-> drv.seq] \in Posting
  BY DEF TypeOK, Drv, Posting
<1>7. Append(asked["ctrl"], [stage |-> "status", seq |-> drv.seq]) \in Seq(Posting)
  BY <1>3, <1>6, AppendProperties DEF TypeOK
<1>8. asked' \in [Ep -> Seq(Posting)]
  BY <1>7 DEF TypeOK, HandleControl
<1>9. rung' \in [Ep -> BOOLEAN]
  BY DEF TypeOK, HandleControl
<1>10. drv' \in Drv
  <2>1. \A state \in States : Reached(state) \in States
    BY DEF Reached, States
  <2> QED BY <2>1 DEF TypeOK, HandleControl, Drv
<1> QED BY <1>1, <1>2, <1>5, <1>8, <1>9, <1>10, HandledType DEF TypeOK, HandleControl

LEMMA HandleBulkType == ASSUME NEW e \in Bulk PROVE TypeOK /\ HandleBulk(e) => TypeOK'
<1> SUFFICES ASSUME TypeOK, HandleBulk(e) PROVE TypeOK'
  OBVIOUS
<1>1. Handled("transfer")
  BY DEF HandleBulk
<1>2. Head(events).code \in Codes
  BY <1>1, HandledType DEF Event, Codes
<1>3. ring' \in [Ep -> Ring]
  BY RingTypes DEF TypeOK, HandleBulk, Ep
<1>4. tx' \in [Bulk -> 0 .. 2]
  <2>1. \A n \in 0 .. 2 : (IF n > 0 THEN n - 1 ELSE 0) \in 0 .. 2
    BY SMT
  <2> QED BY <2>1 DEF TypeOK, HandleBulk, Completed
<1>5. halted' \in [Ep -> BOOLEAN]
  BY DEF TypeOK, HandleBulk, Completed
<1> QED BY <1>1, <1>2, <1>3, <1>4, <1>5, HandledType DEF TypeOK, HandleBulk

\* What every request of the host does besides its answer.
LEMMA SetupType ==
  ASSUME NEW reqs, TypeOK, Setup(reqs)
  PROVE  /\ Heard \in Drv /\ events' \in Seq(Event) /\ ering' \in EventRing
         /\ pc' \in {"handle", "acknowledge"} /\ res' = "ok" /\ "ok" \in Codes
         /\ UNCHANGED <<tx, call, snap, gaveUp, host, upsets>>
<1>1. Handled("setup")
  BY DEF Setup
<1>2. Head(events).seq \in 0 .. Seqs - 1
  BY <1>1, HandledType DEF Event, Codes
<1> QED BY <1>1, <1>2, HandledType DEF TypeOK, Setup, Heard, Drv, Codes

\* A request on endpoint 0.
LEMMA PostedType ==
  ASSUME NEW e \in Ep, NEW what \in Posting, TypeOK, Posted(e, what)
  PROVE  ring' \in [Ep -> Ring] /\ asked' \in [Ep -> Seq(Posting)] /\ rung' \in [Ep -> BOOLEAN]
<1>1. Queued(ring[e]) \in Ring
  BY RingTypes DEF TypeOK
<1>2. Append(asked[e], what) \in Seq(Posting)
  BY AppendProperties DEF TypeOK
<1> QED BY <1>1, <1>2 DEF TypeOK, Posted

LEMMA IssueType ==
  ASSUME NEW d \in Drv, TypeOK, IssueData(d) \/ IssueStatus(d)
  PROVE  /\ ring' \in [Ep -> Ring] /\ asked' \in [Ep -> Seq(Posting)]
         /\ rung' \in [Ep -> BOOLEAN] /\ drv' \in Drv
<1>1. /\ [stage |-> "data", seq |-> d.seq] \in Posting
      /\ [stage |-> "status", seq |-> d.seq] \in Posting /\ "ctrl" \in Ep
  BY DEF Drv, Posting, Ep
<1>2. drv' \in Drv
  BY DEF IssueData, IssueStatus, Drv
<1>3. CASE Free
  BY <1>1, <1>2, <1>3, PostedType DEF IssueData, IssueStatus
<1>4. CASE ~Free
  BY <1>2, <1>4 DEF IssueData, IssueStatus, NothingPosted, TypeOK
<1> QED BY <1>3, <1>4

LEMMA SetAddressType == TypeOK /\ SetAddress => TypeOK'
<1> SUFFICES ASSUME TypeOK, SetAddress PROVE TypeOK'
  OBVIOUS
<1> DEFINE d == [Heard EXCEPT !.state = "addressed_wait"]
<1>1. d \in Drv /\ IssueStatus(d)
  BY SetupType DEF SetAddress, Drv, States
<1>2. halted' \in [Ep -> BOOLEAN]
  BY DEF SetAddress, Unhalted, TypeOK
<1> QED BY <1>1, <1>2, SetupType, IssueType DEF TypeOK, SetAddress

LEMMA SetConfigurationType == TypeOK /\ SetConfiguration => TypeOK'
<1> SUFFICES ASSUME TypeOK, SetConfiguration PROVE TypeOK'
  OBVIOUS
<1> DEFINE d == [Heard EXCEPT !.state = "configured_wait"]
           new == [e \in Ep |-> IF e \in Bulk THEN Initialized(ring[e].cycle) ELSE ring[e]]
           none == [e \in Ep |-> IF e \in Bulk THEN <<>> ELSE asked[e]]
           what == [stage |-> "status", seq |-> d.seq]
<1>1. Setup({"configure"})
  BY DEF SetConfiguration
<1>2. d \in Drv /\ [d EXCEPT !.wait = "status"] \in Drv /\ what \in Posting
  BY <1>1, SetupType DEF Drv, States, Posting
<1>3. new \in [Ep -> Ring] /\ "ctrl" \in Ep
  BY RingTypes DEF TypeOK, Ep
<1>4. none \in [Ep -> Seq(Posting)]
  BY EmptySeq DEF TypeOK
<1>5. Queued(new["ctrl"]) \in Ring
  BY <1>3, RingTypes
<1>6. Append(none["ctrl"], what) \in Seq(Posting)
  BY <1>2, <1>3, <1>4, AppendProperties
<1>7. /\ drv' = IF Free THEN [d EXCEPT !.wait = "status"] ELSE d
      /\ ring' = IF Free THEN [new EXCEPT !["ctrl"] = Queued(@)] ELSE new
      /\ asked' = IF Free THEN [none EXCEPT !["ctrl"] = Append(@, what)] ELSE none
      /\ rung' = [e \in Ep |-> e = "ctrl" /\ (Free \/ rung[e])]
      /\ halted' = [e \in Ep |-> FALSE]
  BY DEF SetConfiguration
<1> HIDE DEF d, new, none, what
<1>8. drv' \in Drv
  BY <1>2, <1>7
<1>9. ring' \in [Ep -> Ring]
  BY <1>3, <1>5, <1>7
<1>10. asked' \in [Ep -> Seq(Posting)]
  BY <1>3, <1>4, <1>6, <1>7
<1>11. rung' \in [Ep -> BOOLEAN] /\ halted' \in [Ep -> BOOLEAN]
  BY <1>7 DEF TypeOK
<1> QED BY <1>1, <1>8, <1>9, <1>10, <1>11, SetupType DEF TypeOK

LEMMA RemoveConfigurationType == TypeOK /\ RemoveConfiguration => TypeOK'
<1> SUFFICES ASSUME TypeOK, RemoveConfiguration PROVE TypeOK'
  OBVIOUS
<1> DEFINE d == [Heard EXCEPT !.lunSet = FALSE, !.state = "default"]
<1>1. d \in Drv /\ IssueStatus(d)
  BY SetupType DEF RemoveConfiguration, Drv, States
<1>2. halted' \in [Ep -> BOOLEAN]
  BY DEF RemoveConfiguration, TypeOK
<1> QED BY <1>1, <1>2, SetupType, IssueType DEF TypeOK, RemoveConfiguration

LEMMA AnswerType ==
  TypeOK /\ (Describe \/ SetInterface \/ ClearHalt \/ ResetBulk) => TypeOK'
<1> SUFFICES ASSUME TypeOK, Describe \/ SetInterface \/ ClearHalt \/ ResetBulk PROVE TypeOK'
  OBVIOUS
<1> DEFINE d == [Heard EXCEPT !.reset = TRUE]
<1>1. PICK reqs : Setup(reqs)
  BY DEF Describe, SetInterface, ClearHalt, ResetBulk
<1>2. Heard \in Drv /\ d \in Drv
  BY <1>1, SetupType DEF Drv
<1>3. IssueData(Heard) \/ IssueStatus(Heard) \/ IssueStatus(d)
  BY DEF Describe, SetInterface, ClearHalt, ResetBulk
<1>4. halted' \in [Ep -> BOOLEAN]
  BY DEF TypeOK, Describe, SetInterface, ClearHalt, ResetBulk, Unhalted
<1> QED BY <1>1, <1>2, <1>3, <1>4, SetupType, IssueType DEF TypeOK

LEMMA GetMaxLunType == TypeOK /\ GetMaxLun => TypeOK'
<1> SUFFICES ASSUME TypeOK, GetMaxLun PROVE TypeOK'
  OBVIOUS
<1> DEFINE d == [Heard EXCEPT !.state = "lun_wait"]
<1>1. Setup({"maxlun"}) /\ (IssueData(d) \/ (NothingPosted /\ drv' = Heard))
  BY DEF GetMaxLun
<1>2. Heard \in Drv /\ d \in Drv
  BY <1>1, SetupType DEF Drv, States
<1>3. halted' \in [Ep -> BOOLEAN]
  BY DEF TypeOK, GetMaxLun, Unhalted, Stall
<1>4. /\ ring' \in [Ep -> Ring] /\ asked' \in [Ep -> Seq(Posting)]
      /\ rung' \in [Ep -> BOOLEAN] /\ drv' \in Drv
  <2>1. CASE IssueData(d)
    BY <1>2, <2>1, IssueType
  <2>2. CASE NothingPosted /\ drv' = Heard
    BY <1>2, <2>2 DEF TypeOK, NothingPosted
  <2> QED BY <1>1, <2>1, <2>2
<1> QED BY <1>1, <1>3, <1>4, SetupType DEF TypeOK

LEMMA NoAnswerType == TypeOK /\ (Refuse \/ Ignore) => TypeOK'
<1> SUFFICES ASSUME TypeOK, Refuse \/ Ignore PROVE TypeOK'
  OBVIOUS
<1>1. PICK reqs : Setup(reqs)
  BY DEF Refuse, Ignore
<1>2. halted' \in [Ep -> BOOLEAN]
  BY DEF TypeOK, Refuse, Ignore, Unhalted, Stall
<1>3. NothingPosted /\ drv' = Heard
  BY DEF Refuse, Ignore
<1> QED BY <1>1, <1>2, <1>3, SetupType DEF TypeOK, NothingPosted

LEMMA HandleSetupType == TypeOK /\ HandleSetup => TypeOK'
  BY SetAddressType, SetConfigurationType, RemoveConfigurationType, AnswerType, GetMaxLunType,
     NoAnswerType DEF HandleSetup

LEMMA AcknowledgeType == TypeOK /\ Acknowledge => TypeOK'
<1> SUFFICES ASSUME TypeOK, Acknowledge PROVE TypeOK'
  OBVIOUS
<1>1. ering' \in EventRing
  BY DEF TypeOK, Acknowledge, EventRing
<1> QED BY <1>1 DEF TypeOK, Acknowledge, Outside

LEMMA EnumeratedType == TypeOK /\ Enumerated => TypeOK'
<1> SUFFICES ASSUME TypeOK, Enumerated PROVE TypeOK'
  OBVIOUS
<1>1. drv' \in Drv
  BY DEF TypeOK, Enumerated, Drv
<1> QED BY <1>1 DEF TypeOK, Enumerated, Outside, quiet

LEMMA EnumerationFailedType == TypeOK /\ EnumerationFailed => TypeOK'
  BY DEF TypeOK, EnumerationFailed, Outside, quiet

LEMMA LunAskedType == TypeOK /\ LunAsked => TypeOK'
<1> SUFFICES ASSUME TypeOK, LunAsked PROVE TypeOK'
  OBVIOUS
<1>1. drv' \in Drv
  BY DEF TypeOK, LunAsked, Drv, States
<1> QED BY <1>1 DEF TypeOK, LunAsked, Outside, quiet

LEMMA WaitingType == TypeOK /\ Waiting => TypeOK'
  BY DEF TypeOK, Waiting, Outside, quiet

LEMMA FinishType == TypeOK /\ Finish => TypeOK'
  BY DEF TypeOK, Finish, Outside, quiet

LEMMA TransferReturnsType == TypeOK /\ TransferReturns => TypeOK'
  BY DEF TypeOK, TransferReturns, Outside, quiet

LEMMA TakeResetType == TypeOK /\ TakeReset => TypeOK'
<1> SUFFICES ASSUME TypeOK, TakeReset PROVE TypeOK'
  OBVIOUS
<1>1. drv' \in Drv
  BY DEF TypeOK, TakeReset, Drv
<1> QED BY <1>1 DEF TypeOK, TakeReset, Outside, quiet

LEMMA EndType == TypeOK /\ End => TypeOK'
  BY DEF TypeOK, End, Outside, quiet

LEMMA SeeStallType == TypeOK /\ SeeStall => TypeOK'
<1> SUFFICES ASSUME TypeOK, SeeStall PROVE TypeOK'
  OBVIOUS
<1>1. host' \in Host
  BY DEF TypeOK, SeeStall, Idle, Host, Request
<1> QED BY <1>1 DEF TypeOK, SeeStall, device

LEMMA AbandonType == TypeOK /\ Abandon => TypeOK'
<1> SUFFICES ASSUME TypeOK, Abandon PROVE TypeOK'
  OBVIOUS
<1>1. host' \in Host
  BY DEF TypeOK, Abandon, Idle, Host, Request
<1>2. upsets' \subseteq Upsets
  BY DEF TypeOK, Abandon, Upset
<1> QED BY <1>1, <1>2 DEF TypeOK, Abandon, device

\* n transfers, for n of 1 and 2.
LEMMA StartType ==
  ASSUME NEW e \in Bulk, NEW n \in {1, 2}, TypeOK, Start(e, n)
  PROVE  /\ ring' \in [Ep -> Ring] /\ asked' \in [Ep -> Seq(Posting)]
         /\ rung' \in [Ep -> BOOLEAN] /\ tx' \in [Bulk -> 0 .. 2]
         /\ gaveUp' \in [Bulk -> BOOLEAN] /\ drv' \in Drv
         /\ UNCHANGED <<halted, ering, events, snap, res, host, upsets>>
<1>1. e \in Ep /\ ring[e] \in Ring /\ asked[e] \in Seq(Posting)
  BY DEF TypeOK, Ep
<1>2. Queued(ring[e]) \in Ring /\ Queued(Queued(ring[e])) \in Ring
  BY <1>1, RingTypes
<1>3. [i \in 1 .. n |-> [stage |-> "bulk"]] \in Seq(Posting)
  <2> DEFINE b(i) == [stage |-> "bulk"]
  <2>1. n \in Nat /\ \A i \in 1 .. n : b(i) \in Posting
    BY DEF Posting
  <2>2. [i \in 1 .. n |-> b(i)] \in Seq(Posting)
    <3> HIDE DEF b
    <3> QED BY <2>1, IsASeq
  <2> QED BY <2>2
<1>4. asked[e] \o [i \in 1 .. n |-> [stage |-> "bulk"]] \in Seq(Posting)
  BY <1>1, <1>3, ConcatProperties
<1>5. ring' \in [Ep -> Ring]
  BY <1>2 DEF TypeOK, Start
<1>6. asked' \in [Ep -> Seq(Posting)]
  BY <1>4 DEF TypeOK, Start
<1>7. tx' \in [Bulk -> 0 .. 2]
  BY DEF TypeOK, Start
<1>8. drv' \in Drv
  BY DEF TypeOK, Start, Drv
<1>9. gaveUp' \in [Bulk -> BOOLEAN] /\ rung' \in [Ep -> BOOLEAN]
  BY DEF TypeOK, Start
<1> QED BY <1>5, <1>6, <1>7, <1>8, <1>9 DEF Start, Outside

LEMMA TransferType ==
  ASSUME NEW e \in Bulk PROVE TypeOK /\ Transfer(e) => TypeOK'
<1> SUFFICES ASSUME TypeOK, Transfer(e) PROVE TypeOK'
  OBVIOUS
<1> QED BY StartType DEF TypeOK, Transfer

LEMMA StartWriteType == TypeOK /\ StartWrite => TypeOK'
<1> SUFFICES ASSUME TypeOK, StartWrite PROVE TypeOK'
  OBVIOUS
<1>1. PICK n \in {1, 2} : "in" \in Bulk /\ Start("in", n)
  BY DEF StartWrite
<1> QED BY <1>1, StartType DEF TypeOK, StartWrite

\* An event more.
LEMMA ReportType ==
  ASSUME TypeOK, NEW x \in Event, Report(x)
  PROVE  events' \in Seq(Event) /\ ering' \in EventRing
<1>1. events' \in Seq(Event)
  BY AppendProperties DEF TypeOK, Report
<1>2. ering.enq \in 0 .. LastEvent /\ ering.pcs \in Bit /\ 1 - ering.pcs \in Bit
  BY SMT DEF TypeOK, EventRing, Bit
<1>3. ering' \in EventRing
  BY <1>2, EventPlaces DEF TypeOK, Report, EventRing
<1> QED BY <1>1, <1>3

LEMMA AskType ==
  ASSUME TypeOK, NEW req, Ask(req), upsets' \subseteq Upsets
  PROVE  TypeOK'
<1> DEFINE x == [type |-> "setup", req |-> req, seq |-> (host.seq + 1) % Seqs]
<1>1. (host.seq + 1) % Seqs \in 0 .. Seqs - 1
  BY XusbdAssumption, SMT DEF TypeOK, Host
<1>2. req \in Request
  BY XusbdAssumption DEF Ask
<1>3. x \in Event /\ Report(x)
  BY <1>1, <1>2 DEF Event, Codes, Ask
<1>4. host' \in Host
  BY <1>1, <1>2 DEF TypeOK, Ask, Host
<1>5. halted' \in [Ep -> BOOLEAN]
  BY DEF TypeOK, Ask
<1> QED BY <1>3, <1>4, <1>5, ReportType DEF TypeOK, Ask, device

LEMMA HostType == TypeOK /\ (Enumerate \/ AskOther) => TypeOK'
<1> SUFFICES ASSUME TypeOK, Enumerate \/ AskOther PROVE TypeOK'
  OBVIOUS
<1>1. (\E req : Ask(req)) /\ upsets' \subseteq Upsets
  BY DEF TypeOK, Enumerate, AskOther, Upset
<1> QED BY <1>1, AskType

LEMMA CarryType ==
  ASSUME TypeOK, NEW e \in Ep, Carry(e)
  PROVE  ring' \in [Ep -> Ring]
BY RingTypes DEF TypeOK, Carry

LEMMA CarryControlType == TypeOK /\ CarryControl => TypeOK'
<1> SUFFICES ASSUME TypeOK, CarryControl PROVE TypeOK'
  OBVIOUS
<1>1. "ctrl" \in Ep /\ Carry("ctrl") /\ asked["ctrl"] # <<>>
  BY DEF CarryControl, Ep
<1>2. PICK code \in {"ok", "sequence"} : Report(Completion("ctrl", code))
  BY DEF CarryControl
<1>3. Completion("ctrl", code) \in Event
  BY <1>1, <1>2 DEF Completion, Event, Codes
<1>4. Tail(asked["ctrl"]) \in Seq(Posting)
  BY <1>1, HeadTailProperties DEF TypeOK
<1>5. asked' \in [Ep -> Seq(Posting)]
  BY <1>4 DEF TypeOK, CarryControl
<1>6. Settled \in Host /\ [host EXCEPT !.stage = "status"] \in Host
  BY DEF TypeOK, Settled, Idle, Host, Request
<1>7. host' \in Host
  BY <1>6 DEF TypeOK, CarryControl
<1> QED BY <1>1, <1>2, <1>3, <1>5, <1>7, CarryType, ReportType DEF TypeOK, CarryControl, device

LEMMA CarryBulkType == ASSUME NEW e \in Bulk PROVE TypeOK /\ CarryBulk(e) => TypeOK'
<1> SUFFICES ASSUME TypeOK, CarryBulk(e) PROVE TypeOK'
  OBVIOUS
<1>1. e \in Ep /\ Carry(e)
  BY DEF CarryBulk, Ep
<1>2. PICK code \in Codes : Report(Completion(e, code))
  BY DEF CarryBulk, Failures, Codes
<1>3. Completion(e, code) \in Event
  BY <1>1, <1>2 DEF Completion, Event, Codes
<1>4. asked[e] # <<>> => Tail(asked[e]) \in Seq(Posting)
  BY <1>1, HeadTailProperties DEF TypeOK
<1>5. asked' \in [Ep -> Seq(Posting)]
  BY <1>4 DEF TypeOK, CarryBulk
<1>6. upsets' \subseteq Upsets
  BY DEF TypeOK, CarryBulk, Upset
<1> QED BY <1>1, <1>2, <1>3, <1>5, <1>6, CarryType, ReportType DEF TypeOK, CarryBulk, device

LEMMA PortResetType == TypeOK /\ PortReset => TypeOK'
<1> SUFFICES ASSUME TypeOK, PortReset PROVE TypeOK'
  OBVIOUS
<1>1. [type |-> "port"] \in Event /\ Report([type |-> "port"])
  BY DEF Event, Codes, PortReset
<1>2. host' \in Host
  BY DEF TypeOK, PortReset, Idle, Host, Request
<1>3. upsets' \subseteq Upsets
  BY DEF TypeOK, PortReset, Upset
<1> QED BY <1>1, <1>2, <1>3, ReportType DEF TypeOK, PortReset, device

\* Every step keeps the types.
LEMMA StepType == TypeOK /\ [Next]_vars => TypeOK'
<1> SUFFICES ASSUME TypeOK, [Next]_vars PROVE TypeOK'
  OBVIOUS
<1>1. CASE UNCHANGED vars
  BY <1>1 DEF TypeOK, vars, device
<1>2. CASE Driver
  BY <1>2, PollType, TimeOutType, HandlePortType, HandleControlType, HandleBulkType,
     HandleSetupType, AcknowledgeType, EnumeratedType, EnumerationFailedType, LunAskedType,
     WaitingType, TransferType, StartWriteType, FinishType, TransferReturnsType, TakeResetType
     DEF Driver
<1>3. CASE Next /\ ~Driver
  BY <1>3, EndType, CarryControlType, SeeStallType, HostType, CarryBulkType, AbandonType,
     PortResetType DEF Next, Control
<1> QED BY <1>1, <1>2, <1>3

\* Every variable keeps its type, for any number of slots, of sequence numbers and
\* of upsets; in particular every pointer of xusbd_controller_t stays on its ring.
THEOREM TypesHold == Spec => []TypeOK
BY InitType, StepType, PTL DEF Spec

-----------------------------------------------------------------------------
(* The ring of endpoint 0.                                                 *)

\* It holds at most one request, carried out or not: nothing is posted while
\* one is outstanding, except the status once its data is handled.
Ctl ==
  /\ RingInv(ring["ctrl"], Len(asked["ctrl"]), Count(events, "ctrl"))
  /\ Len(asked["ctrl"]) + Count(events, "ctrl") <= 1

\* A report and the handling of an event, by what they count for.
LEMMA ReportCount ==
  ASSUME TypeOK, NEW x \in Event, Report(x), NEW e
  PROVE  Count(events', e) = Count(events, e) + (IF Hit(x, e) THEN 1 ELSE 0)
BY CountAppend DEF TypeOK, Report

LEMMA HandledCount ==
  ASSUME TypeOK, NEW type, Handled(type), NEW e
  PROVE  Count(events, e) = Count(events', e) + (IF Hit(Head(events), e) THEN 1 ELSE 0)
BY CountTail DEF TypeOK, Handled

\* The numbers of requests.
LEMMA CtlNumbers ==
  ASSUME TypeOK
  PROVE  /\ Len(asked["ctrl"]) \in Nat /\ Count(events, "ctrl") \in Nat
         /\ asked["ctrl"] \in Seq(Posting) /\ "ctrl" \in Ep /\ ring["ctrl"] \in Ring
<1>1. "ctrl" \in Ep /\ asked["ctrl"] \in Seq(Posting) /\ ring["ctrl"] \in Ring
  BY DEF TypeOK, Ep
<1> QED BY <1>1, LenProperties, HitsFinite DEF TypeOK

\* A step that leaves endpoint 0 alone.
LEMMA CtlFrame ==
  ASSUME Ctl, ring'["ctrl"] = ring["ctrl"], asked'["ctrl"] = asked["ctrl"],
         Count(events', "ctrl") = Count(events, "ctrl")
  PROVE  Ctl'
BY DEF Ctl

LEMMA CtlInit == Init => Ctl
<1> SUFFICES ASSUME Init PROVE Ctl
  OBVIOUS
<1>1. "ctrl" \in Ep /\ ring["ctrl"] = Initialized(Cleared) /\ asked["ctrl"] = <<>> /\ events = <<>>
  BY DEF Init, Ep
<1>2. Hits(<<>>, "ctrl") = {}
  BY DEF Hits
<1>3. Count(events, "ctrl") = 0 /\ Len(asked["ctrl"]) = 0
  BY <1>1, <1>2, FS_EmptySet, EmptySeq DEF Count
<1> QED BY <1>1, <1>3, InitializedInv, SMT DEF Ctl

\* A request is posted on an empty ring.
LEMMA CtlPosted ==
  ASSUME TypeOK, Ctl, Free, NEW what \in Posting,
         ring'["ctrl"] = Queued(ring["ctrl"]), asked'["ctrl"] = Append(asked["ctrl"], what),
         Count(events', "ctrl") = Count(events, "ctrl")
  PROVE  Ctl'
<1> DEFINE n == Len(asked["ctrl"])
           u == Count(events, "ctrl")
<1>1. n \in Nat /\ u \in Nat /\ RingInv(ring["ctrl"], n, u)
  BY CtlNumbers DEF Ctl
<1>2. n + u = 0
  BY <1>1, FreeEmpty DEF Free
<1>3. n = 0 /\ u = 0 /\ n + u + 1 < Link
  BY <1>1, <1>2, Sizes, SMT
<1>4. RingInv(ring'["ctrl"], n + 1, u)
  BY <1>1, <1>3, QueuedInv
<1>5. Len(asked'["ctrl"]) = n + 1
  BY CtlNumbers, AppendProperties
<1> HIDE DEF n, u
<1>6. n + 1 + u <= 1
  BY <1>3, SMT
<1>7. Count(events', "ctrl") = u
  BY DEF u
<1> QED BY <1>4, <1>5, <1>6, <1>7 DEF Ctl

\* A request of the host takes its own event off, and posts at most one answer.
LEMMA CtlSetup ==
  ASSUME TypeOK, Ctl, NEW reqs, Setup(reqs), NEW d \in Drv,
         IssueData(d) \/ IssueStatus(d) \/ NothingPosted
  PROVE  Ctl'
<1>1. Count(events', "ctrl") = Count(events, "ctrl")
  <2>1. Handled("setup") /\ ~Hit(Head(events), "ctrl")
    BY HandledType DEF Setup, Hit
  <2>2. Count(events, "ctrl") = Count(events', "ctrl") + 0
    BY <2>1, HandledCount
  <2>3. events' \in Seq(Event) /\ Count(events', "ctrl") \in Nat
    BY <2>1, HandledType, HitsFinite
  <2> QED BY <2>2, <2>3, SMT
<1>2. CASE Free /\ (IssueData(d) \/ IssueStatus(d))
  <2>1. PICK what \in Posting : Posted("ctrl", what)
    BY <1>2 DEF IssueData, IssueStatus, Drv, Posting
  <2>2. ring'["ctrl"] = Queued(ring["ctrl"]) /\ asked'["ctrl"] = Append(asked["ctrl"], what)
    BY <2>1, CtlNumbers DEF Posted, TypeOK
  <2> QED BY <1>1, <1>2, <2>2, CtlPosted
<1>3. CASE ~(Free /\ (IssueData(d) \/ IssueStatus(d)))
  BY <1>1, <1>3, CtlFrame DEF IssueData, IssueStatus, NothingPosted
<1> QED BY <1>2, <1>3

LEMMA CtlConfiguration == ASSUME TypeOK, Ctl, SetConfiguration PROVE Ctl'
<1> DEFINE what == [stage |-> "status", seq |-> [Heard EXCEPT !.state = "configured_wait"].seq]
<1>1. Setup({"configure"}) /\ Handled("setup")
  BY DEF SetConfiguration, Setup
<1>2. Count(events', "ctrl") = Count(events, "ctrl")
  <2>1. ~Hit(Head(events), "ctrl")
    BY <1>1, HandledType DEF Hit
  <2>2. Count(events, "ctrl") = Count(events', "ctrl") + 0
    BY <1>1, <2>1, HandledCount
  <2>3. events' \in Seq(Event) /\ Count(events', "ctrl") \in Nat
    BY <1>1, HandledType, HitsFinite
  <2> QED BY <2>2, <2>3, SMT
<1>3. what \in Posting
  BY <1>1, SetupType DEF Drv, Posting
<1>4. "ctrl" \in Ep /\ "ctrl" \notin Bulk
  BY XusbdAssumption DEF Ep
<1>5. CASE Free
  <2>1. ring'["ctrl"] = Queued(ring["ctrl"]) /\ asked'["ctrl"] = Append(asked["ctrl"], what)
    BY <1>4, <1>5 DEF SetConfiguration
  <2> QED BY <1>2, <1>3, <1>5, <2>1, CtlPosted
<1>6. CASE ~Free
  <2>1. ring'["ctrl"] = ring["ctrl"] /\ asked'["ctrl"] = asked["ctrl"]
    BY <1>4, <1>6 DEF SetConfiguration
  <2> QED BY <1>2, <2>1, CtlFrame
<1> QED BY <1>5, <1>6

LEMMA CtlHandleSetup == ASSUME TypeOK, Ctl, HandleSetup PROVE Ctl'
<1>1. CASE SetConfiguration
  BY <1>1, CtlConfiguration
<1>2. CASE HandleSetup /\ ~SetConfiguration
  <2>1. PICK reqs : Setup(reqs)
    BY <1>2 DEF HandleSetup, SetAddress, RemoveConfiguration, Describe, SetInterface, ClearHalt,
                ResetBulk, GetMaxLun, Refuse, Ignore
  <2>2. Heard \in Drv
    BY <2>1, SetupType
  <2>3. /\ [Heard EXCEPT !.state = "addressed_wait"] \in Drv
        /\ [Heard EXCEPT !.lunSet = FALSE, !.state = "default"] \in Drv
        /\ [Heard EXCEPT !.reset = TRUE] \in Drv
        /\ [Heard EXCEPT !.state = "lun_wait"] \in Drv
    BY <2>2 DEF Drv, States
  <2>4. \E d \in Drv : IssueData(d) \/ IssueStatus(d) \/ NothingPosted
    BY <1>2, <2>2, <2>3
       DEF HandleSetup, SetAddress, RemoveConfiguration, Describe, SetInterface, ClearHalt,
           ResetBulk, GetMaxLun, Refuse, Ignore
  <2> QED BY <2>1, <2>4, CtlSetup
<1> QED BY <1>1, <1>2

\* The controller carries out the one request.
LEMMA CtlCarry == ASSUME TypeOK, Ctl, CarryControl PROVE Ctl'
<1> DEFINE n == Len(asked["ctrl"])
           u == Count(events, "ctrl")
<1>1. n \in Nat /\ u \in Nat /\ RingInv(ring["ctrl"], n, u) /\ n + u <= 1
  BY CtlNumbers DEF Ctl
<1>2. asked["ctrl"] # <<>> /\ HasTrb(ring["ctrl"]) /\ ring'["ctrl"] = Fetched(ring["ctrl"])
  BY CtlNumbers DEF CarryControl, Carry, TypeOK
<1>3. RingInv(ring'["ctrl"], n - 1, u + 1)
  BY <1>1, <1>2, FetchedInv
<1>4. Len(asked'["ctrl"]) = n - 1
  <2>1. asked'["ctrl"] = Tail(asked["ctrl"])
    BY CtlNumbers DEF CarryControl, TypeOK
  <2> QED BY <1>2, <2>1, CtlNumbers, HeadTailProperties
<1>5. Count(events', "ctrl") = u + 1
  <2>1. PICK code \in {"ok", "sequence"} : Report(Completion("ctrl", code))
    BY DEF CarryControl
  <2>2. Completion("ctrl", code) \in Event /\ Hit(Completion("ctrl", code), "ctrl")
    BY <2>1 DEF Completion, Event, Codes, Ep, Hit
  <2> QED BY <2>1, <2>2, ReportCount
<1> HIDE DEF n, u
<1>6. n - 1 + (u + 1) <= 1
  BY <1>1, SMT
<1> QED BY <1>3, <1>4, <1>5, <1>6 DEF Ctl

\* The driver handles its event, and may post the status.
LEMMA CtlHandle == ASSUME TypeOK, Ctl, HandleControl PROVE Ctl'
<1> DEFINE n == Len(asked["ctrl"])
           u == Count(events, "ctrl")
           r == Dequeued(ring["ctrl"])
           what == [stage |-> "status", seq |-> drv.seq]
<1>1. n \in Nat /\ u \in Nat /\ RingInv(ring["ctrl"], n, u) /\ n + u <= 1
  BY CtlNumbers DEF Ctl
<1>2. u = Count(events', "ctrl") + 1 /\ Count(events', "ctrl") \in Nat
  <2>1. Handled("transfer") /\ Hit(Head(events), "ctrl")
    BY HandledType DEF HandleControl, Hit
  <2>2. events' \in Seq(Event) /\ Count(events', "ctrl") \in Nat
    BY <2>1, HandledType, HitsFinite
  <2> QED BY <2>1, <2>2, HandledCount
<1>3. RingInv(r, n, u - 1)
  <2>1. u > 0
    BY <1>2, SMT
  <2> QED BY <1>1, <2>1, DequeuedInv
<1>4. what \in Posting /\ asked["ctrl"] \in Seq(Posting) /\ "ctrl" \in Ep
  BY CtlNumbers DEF TypeOK, Drv, Posting
<1>5. \/ ring'["ctrl"] = Queued(r) /\ asked'["ctrl"] = Append(asked["ctrl"], what)
      \/ ring'["ctrl"] = r /\ asked'["ctrl"] = asked["ctrl"]
  BY <1>4 DEF HandleControl, TypeOK
<1>6. Len(Append(asked["ctrl"], what)) = n + 1
  BY <1>4, AppendProperties
<1> HIDE DEF n, u, r, what
<1>7. n = 0 /\ u = 1 /\ u - 1 = 0 /\ Count(events', "ctrl") = u - 1 /\ n + (u - 1) + 1 < Link
  BY <1>1, <1>2, Sizes, SMT
<1>8. RingInv(Queued(r), n + 1, u - 1)
  BY <1>3, <1>7, QueuedInv
<1>9. n + 1 + (u - 1) <= 1 /\ n + (u - 1) <= 1
  BY <1>7, SMT
<1>10. CASE ring'["ctrl"] = Queued(r) /\ asked'["ctrl"] = Append(asked["ctrl"], what)
  BY <1>6, <1>7, <1>8, <1>9, <1>10 DEF Ctl
<1>11. CASE ring'["ctrl"] = r /\ asked'["ctrl"] = asked["ctrl"]
  BY <1>3, <1>7, <1>9, <1>11 DEF Ctl, n
<1> QED BY <1>5, <1>10, <1>11

\* What happens on the other endpoints, and what no request answers.
LEMMA CtlElsewhere ==
  ASSUME TypeOK, Ctl,
         \/ HandlePort \/ PortReset \/ Enumerate \/ AskOther
         \/ \E e \in Bulk : HandleBulk(e) \/ CarryBulk(e) \/ \E n : Start(e, n)
  PROVE  Ctl'
<1>1. "ctrl" \notin Bulk /\ "ctrl" \in Ep
  BY XusbdAssumption DEF Ep
<1>2. Count(events, "ctrl") \in Nat
  BY CtlNumbers
<1>3. CASE HandlePort \/ \E e \in Bulk : HandleBulk(e)
  <2>1. PICK type : Handled(type) /\ ~Hit(Head(events), "ctrl")
    BY <1>1, <1>3, HandledType DEF HandlePort, HandleBulk, Hit
  <2>2. Count(events, "ctrl") = Count(events', "ctrl") + 0
    BY <2>1, HandledCount
  <2>3. Count(events', "ctrl") \in Nat
    BY <2>1, HandledType, HitsFinite
  <2>4. ring'["ctrl"] = ring["ctrl"] /\ asked'["ctrl"] = asked["ctrl"]
    BY <1>1, <1>3 DEF HandlePort, HandleBulk, TypeOK
  <2> QED BY <2>2, <2>3, <2>4, CtlFrame, SMT
<1>4. CASE PortReset \/ Enumerate \/ AskOther \/ \E e \in Bulk : CarryBulk(e)
  <2>1. \E x \in Event : Report(x) /\ ~Hit(x, "ctrl")
    <3>1. CASE PortReset
      BY <3>1 DEF PortReset, Event, Codes, Hit
    <3>2. CASE Enumerate \/ AskOther
      <4>1. PICK req : Ask(req)
        BY <3>2 DEF Enumerate, AskOther
      <4>2. (host.seq + 1) % Seqs \in 0 .. Seqs - 1
        BY XusbdAssumption, SMT DEF TypeOK, Host
      <4>3. req \in Request
        BY <4>1, XusbdAssumption DEF Ask
      <4> QED BY <4>1, <4>2, <4>3 DEF Ask, Event, Codes, Hit
    <3>3. ASSUME NEW e \in Bulk, CarryBulk(e)
          PROVE  \E x \in Event : Report(x) /\ ~Hit(x, "ctrl")
      <4>1. PICK code \in Codes : Report(Completion(e, code))
        BY <3>3 DEF CarryBulk, Failures, Codes
      <4> QED BY <1>1, <4>1 DEF Completion, Event, Codes, Ep, Hit
    <3> QED BY <1>4, <3>1, <3>2, <3>3
  <2>2. Count(events', "ctrl") = Count(events, "ctrl")
    BY <1>2, <2>1, ReportCount, SMT
  <2>3. ring'["ctrl"] = ring["ctrl"] /\ asked'["ctrl"] = asked["ctrl"]
    BY <1>1, <1>4 DEF PortReset, Enumerate, AskOther, Ask, CarryBulk, Carry, TypeOK
  <2> QED BY <2>2, <2>3, CtlFrame
<1>5. CASE \E e \in Bulk : \E n : Start(e, n)
  BY <1>1, <1>5, CtlFrame DEF Start, TypeOK
<1> QED BY <1>3, <1>4, <1>5

LEMMA CtlStep == TypeOK /\ Ctl /\ [Next]_vars => Ctl'
<1> SUFFICES ASSUME TypeOK, Ctl, [Next]_vars PROVE Ctl'
  OBVIOUS
<1>1. CASE \/ UNCHANGED vars \/ Poll \/ TimeOut \/ Acknowledge \/ Enumerated
           \/ EnumerationFailed \/ LunAsked \/ Waiting \/ Finish \/ TransferReturns
           \/ TakeReset \/ End \/ SeeStall \/ Abandon
  <2>1. UNCHANGED <<ring, asked, events>>
    BY <1>1 DEF vars, Poll, TimeOut, Acknowledge, Enumerated, EnumerationFailed, LunAsked,
                Waiting, Finish, TransferReturns, TakeReset, End, SeeStall, Abandon, quiet
  <2> QED BY <2>1, CtlFrame
<1>2. CASE \/ HandlePort \/ PortReset \/ Enumerate \/ AskOther \/ StartWrite
           \/ \E e \in Bulk : HandleBulk(e) \/ CarryBulk(e) \/ Transfer(e)
  BY <1>2, CtlElsewhere DEF StartWrite, Transfer
<1>3. CASE HandleSetup \/ HandleControl \/ CarryControl
  BY <1>3, CtlHandleSetup, CtlHandle, CtlCarry
<1> QED BY <1>1, <1>2, <1>3 DEF Next, Driver, Control

\* The controller carries out what was posted on endpoint 0, once each and in
\* order, for rings of any number of slots and whatever the host does
\* (_xusb_queue_trb, _xusb_handle_transfer_event).
THEOREM ControlRingSoundHolds == Spec => []ControlRingSound
<1>1. Init => TypeOK /\ Ctl
  BY InitType, CtlInit
<1>2. TypeOK /\ Ctl /\ [Next]_vars => (TypeOK /\ Ctl)'
  BY StepType, CtlStep
<1>3. Ctl => ControlRingSound
  BY InvAgrees DEF Ctl, ControlRingSound, Agreed, Unhandled, Count, Hits, Hit
<1> QED BY <1>1, <1>2, <1>3, PTL DEF Spec

-----------------------------------------------------------------------------
(* The ring of events.                                                     *)

Round == LastEvent + 1

\* The driver is n events behind the controller, and h past the place it last
\* told it: both fit on the ring.
Counted(er, n) ==
  /\ n \in Nat
  /\ er.ccs = er.pcs => er.enq = er.deq + n
  /\ er.ccs # er.pcs => er.enq + Round = er.deq + n
Told(er, n) ==
  \E h \in Nat : n + h < Round /\ (er.deq = er.erdp + h \/ er.deq + Round = er.erdp + h)
Turned(er) == \A i \in 0 .. LastEvent : er.cycle[i] = er.pcs <=> i < er.enq

Events == Turned(ering) /\ Counted(ering, Len(events)) /\ Told(ering, Len(events))

\* An interrupt is for events that are there, and none comes while the driver
\* is at them.
Signals ==
  /\ ering.ip => ering.busy /\ events # <<>>
  /\ pc \in {"handle", "acknowledge"} => ering.busy /\ ~ering.ip
  /\ res # "cycle"

LEMMA EventSizes ==
  ASSUME TypeOK
  PROVE  /\ Round \in Nat /\ Round >= 4 /\ LastEvent = Round - 1 /\ LastEvent \in Nat
         /\ ering.enq \in Nat /\ ering.enq < Round /\ ering.enq \in 0 .. LastEvent
         /\ ering.deq \in Nat /\ ering.deq < Round /\ ering.deq \in 0 .. LastEvent
         /\ ering.erdp \in Nat /\ ering.erdp < Round
         /\ ering.pcs \in Bit /\ ering.ccs \in Bit
         /\ ering.cycle \in [0 .. LastEvent -> Bit]
         /\ Len(events) \in Nat /\ (events # <<>> <=> Len(events) > 0)
<1>1. Round \in Nat /\ Round >= 4 /\ LastEvent = Round - 1 /\ LastEvent \in Nat
  BY EventPlaces, SMT DEF Round
<1>2. /\ ering.enq \in 0 .. LastEvent /\ ering.deq \in 0 .. LastEvent
      /\ ering.erdp \in 0 .. LastEvent
      /\ ering.pcs \in Bit /\ ering.ccs \in Bit /\ ering.cycle \in [0 .. LastEvent -> Bit]
  BY DEF TypeOK, EventRing
<1>3. /\ ering.enq \in Nat /\ ering.enq < Round /\ ering.deq \in Nat /\ ering.deq < Round
      /\ ering.erdp \in Nat /\ ering.erdp < Round
  BY <1>1, <1>2, SMT
<1>4. Len(events) \in Nat /\ (events # <<>> <=> Len(events) > 0)
  <2>1. events \in Seq(Event)
    BY DEF TypeOK
  <2>2. Len(<<>>) = 0 /\ (events # <<>> => Len(events) \in Nat \ {0}) /\ Len(events) \in Nat
    BY <2>1, EmptySeq, LenProperties
  <2> QED BY <2>2, SMT
<1> QED BY <1>1, <1>2, <1>3, <1>4

LEMMA EventsInit == Init => Events /\ Signals
<1> SUFFICES ASSUME Init PROVE Events /\ Signals
  OBVIOUS
<1>1. Len(events) = 0 /\ events = <<>>
  BY EmptySeq DEF Init
<1>2. /\ ering.cycle = [i \in 0 .. LastEvent |-> 0] /\ ering.enq = 0 /\ ering.pcs = 1
      /\ ering.deq = 0 /\ ering.ccs = 1 /\ ering.erdp = 0 /\ ~ering.ip
  BY DEF Init
<1>3. Turned(ering)
  BY <1>2, EventPlaces, SMT DEF Turned
<1>4. Counted(ering, 0)
  BY <1>2, SMT DEF Counted
<1>5. Told(ering, 0)
  <2>1. 0 \in Nat /\ 0 + 0 < Round /\ 0 = 0 + 0
    BY EventPlaces, SMT DEF Round
  <2> QED BY <1>2, <2>1 DEF Told
<1>6. Signals
  BY <1>2 DEF Signals, Init
<1> QED BY <1>1, <1>3, <1>4, <1>5, <1>6 DEF Events

\* Arithmetic of places on a round of M: the controller is at q, the driver at d,
\* and a is what it last told.

LEMMA RoomArithmetic ==
  ASSUME NEW M \in Nat, NEW q \in Nat, NEW d \in Nat, NEW a \in Nat, NEW n \in Nat, NEW h \in Nat,
         q < M, d < M, a < M, n + h < M, d = a + h \/ d + M = a + h,
         q = d + n \/ q + M = d + n, (IF q + 1 = M THEN 0 ELSE q + 1) # a
  PROVE  (n + 1) + h < M
BY SMT

LEMMA SuccessorArithmetic ==
  ASSUME NEW M \in Nat, NEW q \in Nat, NEW d \in Nat, NEW n \in Nat
  PROVE  /\ n + 1 \in Nat
         /\ q = d + n => q + 1 = d + (n + 1)
         /\ q + M = d + n => q + 1 + M = d + (n + 1)
BY SMT

LEMMA FollowArithmetic ==
  ASSUME NEW M \in Nat, NEW d \in Nat, NEW a \in Nat, NEW n \in Nat, NEW h \in Nat,
         d < M, a < M, n + h < M, n > 0, d = a + h \/ d + M = a + h,
         NEW t, t = IF d + 1 = M THEN 0 ELSE d + 1
  PROVE  /\ h + 1 \in Nat /\ (n - 1) + (h + 1) < M
         /\ t = a + (h + 1) \/ t + M = a + (h + 1)
BY SMT

\* One event more, on a ring that has room.
LEMMA EventsReport ==
  ASSUME TypeOK, Events, Signals, NEW x \in Event, Report(x), pc' = pc, res' = res
  PROVE  Events' /\ Signals'
<1>0. PICK n \in Nat : n = Len(events)
  BY EventSizes
<1>1. /\ events' \in Seq(Event) /\ Len(events') = n + 1 /\ events' # <<>>
  BY <1>0, AppendProperties DEF TypeOK, Report
<1>2. /\ Round \in Nat /\ Round >= 4 /\ LastEvent = Round - 1
      /\ ering.enq \in Nat /\ ering.enq < Round /\ ering.enq \in 0 .. LastEvent
      /\ ering.deq \in Nat /\ ering.deq < Round /\ ering.erdp \in Nat /\ ering.erdp < Round
      /\ ering.pcs \in Bit /\ ering.ccs \in Bit
      /\ ering.cycle \in [0 .. LastEvent -> Bit] /\ n \in Nat
  BY <1>0, EventSizes
<1>3. /\ ering'.cycle = [ering.cycle EXCEPT ![ering.enq] = ering.pcs]
      /\ ering'.enq = NextEvent(ering.enq)
      /\ ering'.pcs = IF ering.enq = LastEvent THEN 1 - ering.pcs ELSE ering.pcs
      /\ ering'.deq = ering.deq /\ ering'.ccs = ering.ccs /\ ering'.erdp = ering.erdp
      /\ ering'.ip = (ering.ip \/ ~ering.busy) /\ ering'.busy = TRUE
      /\ NextEvent(ering.enq) # ering.erdp
  BY DEF Report, TypeOK, EventRing
<1>4. Signals'
  BY <1>1, <1>3 DEF Signals
<1>5. PICK h \in Nat : /\ n + h < Round
                       /\ ering.deq = ering.erdp + h \/ ering.deq + Round = ering.erdp + h
  BY <1>0 DEF Events, Told
<1>6. /\ ering.ccs = ering.pcs => ering.enq = ering.deq + n
      /\ ering.ccs # ering.pcs => ering.enq + Round = ering.deq + n
      /\ \A i \in 0 .. LastEvent : ering.cycle[i] = ering.pcs <=> i < ering.enq
  BY <1>0 DEF Events, Counted, Turned
<1>7. NextEvent(ering.enq) = IF ering.enq + 1 = Round THEN 0 ELSE ering.enq + 1
  BY <1>2, SMT DEF NextEvent
<1>8. (n + 1) + h < Round
  <2>1. ering.enq = ering.deq + n \/ ering.enq + Round = ering.deq + n
    BY <1>6
  <2>2. (IF ering.enq + 1 = Round THEN 0 ELSE ering.enq + 1) # ering.erdp
    BY <1>3, <1>7
  <2> QED BY <1>2, <1>5, <2>1, <2>2, RoomArithmetic
<1>9. Told(ering', n + 1)
  BY <1>3, <1>5, <1>8 DEF Told
<1>10. CASE ering.enq # LastEvent
  <2>1. ering'.enq = ering.enq + 1 /\ ering'.pcs = ering.pcs
    BY <1>3, <1>10 DEF NextEvent
  <2>2. Counted(ering', n + 1)
    <3>1. /\ n + 1 \in Nat
          /\ ering.enq = ering.deq + n => ering.enq + 1 = ering.deq + (n + 1)
          /\ ering.enq + Round = ering.deq + n => ering.enq + 1 + Round = ering.deq + (n + 1)
      <4>1. PICK M \in Nat, q \in Nat, d \in Nat : M = Round /\ q = ering.enq /\ d = ering.deq
        BY <1>2
      <4>2. /\ n + 1 \in Nat
            /\ q = d + n => q + 1 = d + (n + 1)
            /\ q + M = d + n => q + 1 + M = d + (n + 1)
        BY SuccessorArithmetic
      <4> QED BY <4>1, <4>2, Zenon
    <3> QED BY <1>3, <1>6, <2>1, <3>1 DEF Counted
  <2>3. ASSUME NEW i \in 0 .. LastEvent
        PROVE  ering'.cycle[i] = ering'.pcs <=> i < ering'.enq
    <3>1. CASE i = ering.enq
      BY <1>2, <1>3, <2>1, <3>1, SMT
    <3>2. CASE i # ering.enq
      <4>1. ering'.cycle[i] = ering.cycle[i]
        BY <1>2, <1>3, <3>2
      <4>2. i < ering.enq <=> i < ering.enq + 1
        BY <1>2, <3>2, SMT
      <4> QED BY <1>6, <2>1, <4>1, <4>2
    <3> QED BY <3>1, <3>2
  <2> QED BY <1>1, <1>4, <1>9, <2>2, <2>3 DEF Events, Turned
<1>11. CASE ering.enq = LastEvent
  <2>1. ering'.enq = 0 /\ ering'.pcs = 1 - ering.pcs /\ ering.pcs # 1 - ering.pcs
    BY <1>2, <1>3, <1>11, SMT DEF NextEvent, Bit
  <2>2. ering.ccs = ering.pcs /\ 0 + Round = ering.deq + (n + 1) /\ n + 1 \in Nat
    <3>1. ering.enq + 1 = Round /\ n < Round
      BY <1>2, <1>5, <1>11, SMT
    <3>2. ~(ering.enq + Round = ering.deq + n)
      BY <1>2, <3>1, SMT
    <3>3. ering.ccs = ering.pcs /\ ering.enq = ering.deq + n
      BY <1>6, <3>2
    <3> QED BY <1>2, <3>1, <3>3, SMT
  <2>3. Counted(ering', n + 1)
    BY <1>3, <2>1, <2>2 DEF Counted
  <2>4. ASSUME NEW i \in 0 .. LastEvent
        PROVE  ering'.cycle[i] = ering.pcs /\ ~(i < 0)
    <3>1. CASE i = ering.enq
      BY <1>2, <1>3, <3>1, SMT
    <3>2. CASE i # ering.enq
      <4>1. ering'.cycle[i] = ering.cycle[i]
        BY <1>2, <1>3, <3>2
      <4>2. i < ering.enq /\ ~(i < 0)
        BY <1>2, <1>11, <3>2, SMT
      <4> QED BY <1>6, <4>1, <4>2
    <3> QED BY <3>1, <3>2
  <2>5. Turned(ering')
    BY <2>1, <2>4 DEF Turned
  <2> QED BY <1>1, <1>4, <1>9, <2>3, <2>5 DEF Events
<1> QED BY <1>10, <1>11

\* The driver goes past one.
LEMMA EventsHandled ==
  ASSUME TypeOK, Events, Signals, NEW type, Handled(type), res' # "cycle"
  PROVE  Events' /\ Signals'
<1>0. PICK n \in Nat : n = Len(events)
  BY EventSizes
<1>1. events \in Seq(Event) /\ events # <<>> /\ Len(events') = n - 1
  BY <1>0, HeadTailProperties DEF TypeOK, Handled
<1>2. /\ Round \in Nat /\ Round >= 4 /\ LastEvent = Round - 1
      /\ ering.enq \in Nat /\ ering.enq < Round
      /\ ering.deq \in Nat /\ ering.deq < Round /\ ering.erdp \in Nat /\ ering.erdp < Round
      /\ ering.pcs \in Bit /\ ering.ccs \in Bit /\ n \in Nat /\ n > 0
  BY <1>0, <1>1, EventSizes
<1>3. /\ ering'.cycle = ering.cycle /\ ering'.enq = ering.enq /\ ering'.pcs = ering.pcs
      /\ ering'.deq = NextEvent(ering.deq) /\ ering'.erdp = ering.erdp
      /\ ering'.ccs = IF ering.deq = LastEvent THEN 1 - ering.ccs ELSE ering.ccs
      /\ ering'.ip = ering.ip /\ ering'.busy = ering.busy
  BY DEF Handled, Advance, TypeOK, EventRing
<1>4. Signals'
  BY <1>3 DEF Signals, Handled, Advance
<1>5. PICK h \in Nat : /\ n + h < Round
                       /\ ering.deq = ering.erdp + h \/ ering.deq + Round = ering.erdp + h
  BY <1>0 DEF Events, Told
<1>6. /\ ering.ccs = ering.pcs => ering.enq = ering.deq + n
      /\ ering.ccs # ering.pcs => ering.enq + Round = ering.deq + n
  BY <1>0 DEF Events, Counted
<1>7. Turned(ering')
  BY <1>3 DEF Events, Turned
<1>8. NextEvent(ering.deq) = IF ering.deq + 1 = Round THEN 0 ELSE ering.deq + 1
  BY <1>2, SMT DEF NextEvent
<1>9. Told(ering', n - 1)
  <2>1. /\ h + 1 \in Nat /\ (n - 1) + (h + 1) < Round
        /\ \/ ering'.deq = ering'.erdp + (h + 1)
           \/ ering'.deq + Round = ering'.erdp + (h + 1)
    <3> DEFINE t == NextEvent(ering.deq)
    <3>1. t = IF ering.deq + 1 = Round THEN 0 ELSE ering.deq + 1
      BY <1>8
    <3> HIDE DEF t
    <3>2. /\ h + 1 \in Nat /\ (n - 1) + (h + 1) < Round
          /\ t = ering.erdp + (h + 1) \/ t + Round = ering.erdp + (h + 1)
      BY <1>2, <1>5, <3>1, FollowArithmetic
    <3> QED BY <1>3, <3>2 DEF t
  <2> QED BY <2>1 DEF Told
<1>10. n - 1 \in Nat
  BY <1>2, SMT
<1>11. CASE ering.deq # LastEvent
  <2>1. ering'.deq = ering.deq + 1 /\ ering'.ccs = ering.ccs
    BY <1>3, <1>11 DEF NextEvent
  <2>2. /\ ering.ccs = ering.pcs => ering.enq = ering.deq + 1 + (n - 1)
        /\ ering.ccs # ering.pcs => ering.enq + Round = ering.deq + 1 + (n - 1)
    BY <1>2, <1>6, SMT
  <2>3. Counted(ering', n - 1)
    BY <1>3, <1>10, <2>1, <2>2 DEF Counted
  <2> QED BY <1>1, <1>4, <1>7, <1>9, <2>3 DEF Events
<1>12. CASE ering.deq = LastEvent
  <2>1. ering.ccs # ering.pcs /\ ering.enq = 0 + (n - 1)
    BY <1>2, <1>6, <1>12, SMT
  <2>2. ering'.deq = 0 /\ ering'.ccs = ering'.pcs /\ ering'.enq = ering.enq
    BY <1>2, <1>3, <1>12, <2>1, SMT DEF NextEvent, Bit
  <2>3. Counted(ering', n - 1)
    BY <1>10, <2>1, <2>2 DEF Counted
  <2> QED BY <1>1, <1>4, <1>7, <1>9, <2>3 DEF Events
<1> QED BY <1>11, <1>12

\* The driver tells the controller how far it is.
LEMMA EventsAck == ASSUME TypeOK, Events, Signals, Acknowledge PROVE Events' /\ Signals'
<1>0. PICK n \in Nat : n = Len(events)
  BY EventSizes
<1>1. /\ ering'.cycle = ering.cycle /\ ering'.enq = ering.enq /\ ering'.pcs = ering.pcs
      /\ ering'.deq = ering.deq /\ ering'.ccs = ering.ccs /\ ering'.erdp = ering.deq
      /\ ering'.ip = (ering.enq # ering.deq) /\ ering'.busy = (ering.enq # ering.deq)
      /\ events' = events /\ res' = res /\ pc' = "return"
  BY DEF Acknowledge, TypeOK, EventRing
<1>2. /\ Round \in Nat /\ ering.enq \in Nat /\ ering.deq \in Nat /\ n \in Nat
      /\ ering.enq < Round /\ ering.deq < Round /\ (events # <<>> <=> n > 0)
  BY <1>0, EventSizes
<1>3. PICK h \in Nat : n + h < Round
  BY <1>0 DEF Events, Told
<1>4. Told(ering', n)
  <2>1. 0 \in Nat /\ n + 0 < Round /\ ering.deq = ering.deq + 0
    BY <1>2, <1>3, SMT
  <2> QED BY <1>1, <2>1 DEF Told
<1>5. Turned(ering') /\ Counted(ering', n)
  BY <1>0, <1>1 DEF Events, Turned, Counted
<1>6. ering.enq # ering.deq => events # <<>>
  <2>1. ering.enq = ering.deq + n \/ ering.enq + Round = ering.deq + n
    BY <1>0 DEF Events, Counted
  <2> QED BY <1>2, <1>3, <2>1, SMT
<1> QED BY <1>0, <1>1, <1>4, <1>5, <1>6 DEF Events, Signals

\* What is on the ring of events, by the bits of the ring.
LEMMA EventsOwned ==
  ASSUME TypeOK, Events
  PROVE  {j \in 0 .. LastEvent : EventOwned(j)} = 0 .. Len(events) - 1
<1>0. PICK n \in Nat : n = Len(events)
  BY EventSizes
<1>1. /\ Round \in Nat /\ LastEvent = Round - 1
      /\ ering.enq \in Nat /\ ering.enq < Round /\ ering.deq \in Nat /\ ering.deq < Round
  BY EventSizes
<1>2. ering.pcs \in Bit /\ ering.ccs \in Bit /\ ering.cycle \in [0 .. LastEvent -> Bit]
  BY EventSizes
<1>3. PICK h \in Nat : n + h < Round
  BY <1>0 DEF Events, Told
<1>4. n < Round
  BY <1>1, <1>3, SMT
<1>5. \A i \in 0 .. LastEvent : ering.cycle[i] = ering.pcs <=> i < ering.enq
  BY DEF Events, Turned
<1>6. /\ ering.ccs = ering.pcs => ering.enq = ering.deq + n
      /\ ering.ccs # ering.pcs => ering.enq + Round = ering.deq + n
  BY <1>0 DEF Events, Counted
<1>7. ASSUME NEW j \in 0 .. LastEvent
      PROVE  EventOwned(j) <=> j < n
  <2>0. PICK i \in Nat : i = ering.deq + j
    BY <1>1, SMT
  <2>3. EventOwned(j) <=> IF i <= LastEvent THEN ering.cycle[i] = ering.ccs
                          ELSE ering.cycle[i - LastEvent - 1] = 1 - ering.ccs
    BY <2>0 DEF EventOwned
  <2>1. CASE i <= LastEvent
    <3>1. i \in 0 .. LastEvent /\ ering.cycle[i] \in Bit
      BY <1>1, <1>2, <2>1, SMT
    <3>2. ering.cycle[i] = ering.pcs <=> i < ering.enq
      BY <1>5, <3>1
    <3>3. CASE ering.ccs = ering.pcs
      <4>1. i < ering.enq <=> j < n
        BY <1>1, <1>6, <2>0, <3>3, SMT
      <4> QED BY <2>1, <2>3, <3>2, <3>3, <4>1
    <3>4. CASE ering.ccs # ering.pcs
      <4>0. ering.enq + Round = ering.deq + n
        BY <1>6, <3>4
      <4>1. ~(i < ering.enq) /\ j < n
        BY <1>1, <1>4, <2>0, <2>1, <4>0, SMT
      <4>2. ering.cycle[i] = ering.ccs
        BY <1>2, <3>1, <3>2, <3>4, <4>1, SMT DEF Bit
      <4> QED BY <2>1, <2>3, <4>1, <4>2
    <3> QED BY <3>3, <3>4
  <2>2. CASE ~(i <= LastEvent)
    <3>0. PICK k \in Nat : k = i - LastEvent - 1
      BY <1>1, <2>2, SMT
    <3>1. k \in 0 .. LastEvent
      BY <1>1, <2>0, <2>2, <3>0, SMT
    <3>2. ering.cycle[k] = ering.pcs <=> k < ering.enq
      BY <1>5, <3>1
    <3>3. CASE ering.ccs = ering.pcs
      <4>0. ering.enq = ering.deq + n
        BY <1>6, <3>3
      <4>1. k < ering.enq /\ ~(j < n)
        BY <1>1, <1>4, <2>0, <2>2, <3>0, <4>0, SMT
      <4>2. ering.cycle[k] # 1 - ering.ccs
        BY <1>2, <3>2, <3>3, <4>1, SMT DEF Bit
      <4> QED BY <2>2, <2>3, <3>0, <4>1, <4>2
    <3>4. CASE ering.ccs # ering.pcs
      <4>0. ering.enq + Round = ering.deq + n /\ 1 - ering.ccs = ering.pcs
        BY <1>2, <1>6, <3>4, SMT DEF Bit
      <4>1. k < ering.enq <=> j < n
        BY <1>1, <2>0, <3>0, <4>0, SMT
      <4> QED BY <2>2, <2>3, <3>0, <3>2, <4>0, <4>1
    <3> QED BY <3>3, <3>4
  <2> QED BY <2>1, <2>2
<1>8. ASSUME NEW j
      PROVE  (j \in 0 .. LastEvent /\ j < n) <=> j \in 0 .. n - 1
  BY <1>1, <1>4, SMT
<1> QED BY <1>0, <1>7, <1>8

\* The interrupt is for events that are there.
LEMMA EventsPoll == ASSUME TypeOK, Events, Signals, Poll PROVE Events' /\ Signals'
<1>1. /\ ering'.cycle = ering.cycle /\ ering'.enq = ering.enq /\ ering'.pcs = ering.pcs
      /\ ering'.deq = ering.deq /\ ering'.ccs = ering.ccs /\ ering'.erdp = ering.erdp
      /\ ering'.ip = FALSE /\ ering'.busy = ering.busy /\ events' = events
  BY DEF Poll, TypeOK, EventRing
<1>2. Events'
  BY <1>1 DEF Events, Turned, Counted, Told
<1>3. ering.busy /\ events # <<>>
  BY DEF Signals, Poll
<1>4. Len(events) \in Nat /\ Len(events) > 0 /\ LastEvent \in Nat /\ ering.deq \in 0 .. LastEvent
  BY <1>3, EventSizes
<1>5. 0 \in 0 .. LastEvent /\ 0 \in 0 .. Len(events) - 1
  BY <1>4, SMT
<1>6. EventOwned(0)
  BY <1>5, EventsOwned
<1>7. ering.deq + 0 = ering.deq /\ ering.deq <= LastEvent
  BY <1>4, SMT
<1>8. ering.cycle[ering.deq] = ering.ccs
  BY <1>6, <1>7 DEF EventOwned
<1>9. pc' = "handle" /\ res' = res
  BY <1>8 DEF Poll
<1> QED BY <1>1, <1>2, <1>3, <1>9 DEF Signals
LEMMA EventsFrame ==
  ASSUME Events, Signals, UNCHANGED <<ering, events>>,
         pc' = pc \/ pc' \notin {"handle", "acknowledge"}, res' = res \/ res' # "cycle"
  PROVE  Events' /\ Signals'
BY DEF Events, Signals, Turned, Counted, Told

LEMMA EventsStep == TypeOK /\ Events /\ Signals /\ [Next]_vars => (Events /\ Signals)'
<1> SUFFICES ASSUME TypeOK, Events, Signals, [Next]_vars PROVE Events' /\ Signals'
  OBVIOUS
<1>1. CASE \/ UNCHANGED vars \/ TimeOut \/ Enumerated \/ EnumerationFailed \/ LunAsked
           \/ Waiting \/ Finish \/ TransferReturns \/ TakeReset \/ End \/ SeeStall \/ Abandon
           \/ StartWrite \/ \E e \in Bulk : Transfer(e)
  <2>1. UNCHANGED <<ering, events>>
    BY <1>1 DEF vars, TimeOut, Enumerated, EnumerationFailed, LunAsked, Waiting, Finish,
                TransferReturns, TakeReset, End, SeeStall, Abandon, StartWrite, Transfer, Start,
                quiet
  <2>2. pc' = pc \/ pc' \notin {"handle", "acknowledge"}
    BY <1>1 DEF vars, TimeOut, Enumerated, EnumerationFailed, LunAsked, Waiting, Finish,
                TransferReturns, TakeReset, End, SeeStall, Abandon, StartWrite, Transfer, Start,
                quiet, device
  <2>3. res' = res \/ res' # "cycle"
    BY <1>1 DEF vars, TimeOut, Enumerated, EnumerationFailed, LunAsked, Waiting, Finish,
                TransferReturns, TakeReset, End, SeeStall, Abandon, StartWrite, Transfer, Start,
                quiet, device
  <2> QED BY <2>1, <2>2, <2>3, EventsFrame
<1>2. CASE PortReset \/ Enumerate \/ AskOther \/ CarryControl \/ \E e \in Bulk : CarryBulk(e)
  <2>1. \E x \in Event : Report(x)
    <3>1. CASE PortReset
      BY <3>1 DEF PortReset, Event, Codes
    <3>2. CASE Enumerate \/ AskOther
      <4>1. PICK req : Ask(req)
        BY <3>2 DEF Enumerate, AskOther
      <4>2. (host.seq + 1) % Seqs \in 0 .. Seqs - 1
        BY XusbdAssumption, SMT DEF TypeOK, Host
      <4>3. req \in Request
        BY <4>1, XusbdAssumption DEF Ask
      <4> QED BY <4>1, <4>2, <4>3 DEF Ask, Event, Codes
    <3>3. CASE CarryControl \/ \E e \in Bulk : CarryBulk(e)
      <4>1. \E e \in Ep : \E code \in Codes : Report(Completion(e, code))
        BY <3>3 DEF CarryControl, CarryBulk, Failures, Codes, Ep
      <4> QED BY <4>1 DEF Completion, Event, Codes
    <3> QED BY <1>2, <3>1, <3>2, <3>3
  <2>2. pc' = pc /\ res' = res
    BY <1>2 DEF PortReset, Enumerate, AskOther, Ask, CarryControl, CarryBulk, device
  <2> QED BY <2>1, <2>2, EventsReport
<1>3. CASE HandlePort \/ HandleControl \/ HandleSetup \/ \E e \in Bulk : HandleBulk(e)
  <2>1. CASE HandlePort \/ HandleSetup
    <3>1. \E type : Handled(type) /\ res' # "cycle"
      BY <2>1 DEF HandlePort, HandleSetup, SetAddress, SetConfiguration, RemoveConfiguration,
                  Describe, SetInterface, ClearHalt, ResetBulk, GetMaxLun, Refuse, Ignore, Setup
    <3> QED BY <3>1, EventsHandled
  <2>2. CASE HandleControl \/ \E e \in Bulk : HandleBulk(e)
    <3>1. Handled("transfer") /\ res' = Head(events).code
      BY <2>2 DEF HandleControl, HandleBulk
    <3>2. Head(events) \in Event /\ Head(events).type = "transfer"
      BY <3>1, HandledType DEF Handled
    <3>3. Head(events).code # "cycle"
      BY <3>2 DEF Event, Codes
    <3> QED BY <3>1, <3>3, EventsHandled
  <2> QED BY <1>3, <2>1, <2>2
<1>4. CASE Poll \/ Acknowledge
  BY <1>4, EventsPoll, EventsAck
<1> QED BY <1>1, <1>2, <1>3, <1>4 DEF Next, Driver, Control

\* By the cycle bits the driver has exactly the events that were reported and
\* not handled, for segments of any length and whatever the host does, and an
\* interrupt is never for nothing (_xusb_ep_operation).
THEOREM EventsAgreeHolds == Spec => []EventsAgree
<1>1. Init => TypeOK /\ Events /\ Signals
  BY InitType, EventsInit
<1>2. TypeOK /\ Events /\ Signals /\ [Next]_vars => (TypeOK /\ Events /\ Signals)'
  BY StepType, EventsStep
<1>3. TypeOK /\ Events /\ Signals => EventsAgree
  BY EventsOwned DEF EventsAgree, Signals
<1> QED BY <1>1, <1>2, <1>3, PTL DEF Spec
-----------------------------------------------------------------------------
(* The rings of the bulk endpoints.                                        *)

\* The device is being enumerated: no session was started yet.
Before == call \in {"enumerate", "lun"}

\* Nothing was ever posted for a bulk endpoint.
Fresh(e) ==
  /\ ring[e] = Initialized(Cleared) /\ asked[e] = <<>> /\ ~rung[e] /\ Count(events, e) = 0

\* The event is a request for req.
Requires(x, req) == x.type = "setup" /\ x.req = req

\* The host has its configuration, and no request for one is left to handle.
Chosen == host.view = "configured" /\ \A i \in DOMAIN events : ~Requires(events[i], "configure")

\* The host asks for the number of volumes after the configuration.
LunLast ==
  \A i \in DOMAIN events :
    Requires(events[i], "maxlun") =>
      /\ host.view = "configured"
      /\ \A j \in DOMAIN events : j > i => ~Requires(events[j], "configure")

\* What the host waits for fits what it knows.
HostInv ==
  /\ host.stage # "idle" /\ host.req = "address" => host.view = "default"
  /\ host.stage # "idle" /\ host.req = "deconfigure" => ~Once
  /\ host.stage # "idle" /\ host.req = "maxlun" => host.luns = "unknown"
  /\ pc = "session" => ~Before

BulkInv ==
  Once =>
    /\ \A e \in Bulk : RingInv(ring[e], Len(asked[e]), Count(events, e))
    /\ (Before => \A e \in Bulk : Fresh(e))
    /\ (~Before \/ drv.state \in {"lun_wait", "lun"}) => Chosen
    /\ LunLast

\* Upsets are not forgotten.
LEMMA UpsetsKept == ASSUME [Next]_vars PROVE upsets \subseteq upsets'
BY DEF Next, Driver, Control, vars, Outside, Poll, TimeOut, HandlePort, HandleControl,
       HandleBulk, HandleSetup, SetAddress, SetConfiguration, RemoveConfiguration, Describe,
       SetInterface, ClearHalt, ResetBulk, GetMaxLun, Refuse, Ignore, Setup, Handled,
       Acknowledge, Enumerated, EnumerationFailed, LunAsked, Waiting, Transfer, StartWrite,
       Start, Finish, TransferReturns, TakeReset, End, CarryControl, SeeStall, Enumerate,
       AskOther, CarryBulk, Abandon, PortReset, Upset

LEMMA OnceBefore == ASSUME [Next]_vars, Once' PROVE Once
BY UpsetsKept DEF Once

\* A step of the driver leaves the host alone.
LEMMA DriverHost == ASSUME Driver \/ End PROVE host' = host
BY DEF Driver, Outside, Poll, TimeOut, HandlePort, HandleControl,
       HandleBulk, HandleSetup, SetAddress, SetConfiguration, RemoveConfiguration, Describe,
       SetInterface, ClearHalt, ResetBulk, GetMaxLun, Refuse, Ignore, Setup, Handled,
       Acknowledge, Enumerated, EnumerationFailed, LunAsked, Waiting, Transfer, StartWrite,
       Start, Finish, TransferReturns, TakeReset, End

\* Who asks for what, and when.
LEMMA AskWhen ==
  ASSUME Enumerate \/ AskOther
  PROVE  \E req \in Request :
           /\ Ask(req)
           /\ req = "address" => host.view = "default"
           /\ req = "configure" => host.view = "addressed"
           /\ req = "maxlun" => host.view = "configured" /\ host.luns = "unknown"
           /\ req = "deconfigure" => ~Once'
<1>1. CASE Enumerate
  BY <1>1 DEF Enumerate, Request
<1>2. CASE AskOther
  <2>1. CASE \E req \in {"descriptor", "interface", "unknown", "device"} : Ask(req)
    BY <2>1 DEF Request
  <2>2. CASE Ask("clear")
    BY <2>2 DEF Request
  <2>3. ASSUME NEW req \in {"deconfigure", "bulkreset"}, Upset(req), Ask(req)
        PROVE  /\ req \in Request
               /\ req = "deconfigure" => ~Once'
    BY <2>3 DEF Request, Upset, Once
  <2> QED BY <1>2, <2>1, <2>2, <2>3 DEF AskOther
<1> QED BY <1>1, <1>2

LEMMA HostInvInit == Init => HostInv
BY DEF Init, HostInv

LEMMA HostInvStep == TypeOK /\ HostInv /\ [Next]_vars => HostInv'
<1> SUFFICES ASSUME TypeOK, HostInv, [Next]_vars PROVE HostInv'
  OBVIOUS
<1>1. Once' => Once
  BY OnceBefore
<1>2. pc' = "session" => ~Before'
  <2>1. CASE Driver \/ End
    <3>1. CASE TransferReturns \/ LunAsked
      BY <3>1 DEF TransferReturns, LunAsked, Before
    <3>2. CASE \E e \in Bulk : Transfer(e)
      BY <3>2 DEF Transfer
    <3>3. CASE StartWrite \/ TakeReset
      BY <3>3 DEF StartWrite, Start, TakeReset, HostInv, Before
    <3>4. CASE HandlePort \/ HandleControl \/ HandleSetup \/ \E e \in Bulk : HandleBulk(e)
      <4>1. \E type : Handled(type)
        BY <3>4 DEF HandlePort, HandleControl, HandleSetup, HandleBulk, Setup, SetAddress,
                    SetConfiguration, RemoveConfiguration, Describe, SetInterface, ClearHalt,
                    ResetBulk, GetMaxLun, Refuse, Ignore
      <4> QED BY <4>1 DEF Handled, Advance
    <3>5. CASE \/ Poll \/ TimeOut \/ Acknowledge \/ Enumerated \/ EnumerationFailed \/ Waiting
               \/ Finish \/ End
      BY <3>5 DEF Poll, TimeOut, Acknowledge, Enumerated, EnumerationFailed, Waiting, Finish, End
    <3> QED BY <2>1, <3>1, <3>2, <3>3, <3>4, <3>5 DEF Driver
  <2>2. CASE ~(Driver \/ End)
    <3>1. UNCHANGED <<pc, call>>
      BY <2>2 DEF Next, Control, vars, device, CarryControl, SeeStall, Enumerate, AskOther, Ask,
                  CarryBulk, Abandon, PortReset
    <3> QED BY <3>1 DEF HostInv, Before
  <2> QED BY <2>1, <2>2
<1>3. /\ host'.stage # "idle" /\ host'.req = "address" => host'.view = "default"
      /\ host'.stage # "idle" /\ host'.req = "deconfigure" => ~Once'
      /\ host'.stage # "idle" /\ host'.req = "maxlun" => host'.luns = "unknown"
  <2>1. CASE host' = host
    BY <1>1, <2>1 DEF HostInv
  <2>2. CASE host'.stage = "idle"
    BY <2>2
  <2>3. CASE Enumerate \/ AskOther
    <3>1. PICK req \in Request :
            /\ Ask(req)
            /\ req = "address" => host.view = "default"
            /\ req = "configure" => host.view = "addressed"
            /\ req = "maxlun" => host.view = "configured" /\ host.luns = "unknown"
            /\ req = "deconfigure" => ~Once'
      BY <2>3, AskWhen
    <3>2. host'.req = req /\ host'.view = host.view /\ host'.luns = host.luns
      BY <3>1 DEF Ask, TypeOK, Host
    <3> QED BY <3>1, <3>2
  <2>4. CASE CarryControl
    <3>1. \/ host' = host \/ host' = Settled
          \/ host' = [host EXCEPT !.stage = "status"] /\ host.stage = "data"
      BY <2>4 DEF CarryControl
    <3>2. Settled.stage = "idle"
      BY DEF Settled, Idle, TypeOK, Host
    <3>3. CASE host' = [host EXCEPT !.stage = "status"] /\ host.stage = "data"
      BY <1>1, <3>3 DEF TypeOK, Host, HostInv
    <3> QED BY <2>1, <2>2, <3>1, <3>2, <3>3
  <2>5. CASE SeeStall \/ Abandon \/ PortReset
    BY <2>2, <2>5 DEF SeeStall, Abandon, PortReset, Idle, TypeOK, Host
  <2>6. CASE UNCHANGED vars \/ \E e \in Bulk : CarryBulk(e)
    BY <2>1, <2>6 DEF vars, CarryBulk
  <2> QED BY <2>1, <2>3, <2>4, <2>5, <2>6, DriverHost DEF Next, Control
<1> QED BY <1>2, <1>3 DEF HostInv

\* A host that has its configuration keeps it, as long as it is chosen once.
LEMMA ViewKept ==
  ASSUME TypeOK, HostInv, [Next]_vars, Once', host.view = "configured"
  PROVE  host'.view = "configured"
<1>1. Once
  BY OnceBefore
<1>2. CASE Enumerate \/ AskOther \/ SeeStall \/ Abandon
  BY <1>2 DEF Enumerate, AskOther, Ask, SeeStall, Abandon, Idle, TypeOK, Host
<1>3. CASE CarryControl
  <2>1. CASE host' = host \/ host' = [host EXCEPT !.stage = "status"]
    BY <2>1 DEF TypeOK, Host
  <2>2. CASE host' = Settled /\ host.stage # "idle"
    <3>1. host.req # "address" /\ host.req # "deconfigure"
      BY <1>1, <2>2 DEF HostInv
    <3> QED BY <2>2, <3>1 DEF Settled, Idle, TypeOK, Host
  <2>3. \A a \in Posting : a.stage = host.stage => host.stage # "idle"
    BY DEF Posting
  <2>4. asked["ctrl"] # <<>> => Head(asked["ctrl"]) \in Posting
    BY CtlNumbers, HeadTailProperties
  <2> QED BY <1>3, <2>1, <2>2, <2>3, <2>4 DEF CarryControl
<1>4. ~PortReset
  BY DEF PortReset, Upset, Once
<1>5. CASE UNCHANGED vars \/ \E e \in Bulk : CarryBulk(e)
  BY <1>5 DEF vars, CarryBulk
<1> QED BY <1>2, <1>3, <1>4, <1>5, DriverHost DEF Next, Control

\* What a step does to the events that are not handled.
LEMMA QueueStep ==
  ASSUME TypeOK, [Next]_vars
  PROVE  \/ events' = events
         \/ events # <<>> /\ events' = Tail(events)
         \/ \E x \in Event :
              /\ events' = Append(events, x)
              /\ Requires(x, "configure") => host.view = "addressed"
              /\ Requires(x, "maxlun") => host.view = "configured"
<1>1. CASE HandlePort \/ HandleControl \/ HandleSetup \/ \E e \in Bulk : HandleBulk(e)
  <2>1. \E type : Handled(type)
    BY <1>1 DEF HandlePort, HandleControl, HandleSetup, HandleBulk, Setup, SetAddress,
                SetConfiguration, RemoveConfiguration, Describe, SetInterface, ClearHalt,
                ResetBulk, GetMaxLun, Refuse, Ignore
  <2> QED BY <2>1 DEF Handled
<1>2. CASE Enumerate \/ AskOther
  <2>1. PICK req \in Request :
          /\ Ask(req)
          /\ req = "configure" => host.view = "addressed"
          /\ req = "maxlun" => host.view = "configured"
    BY <1>2, AskWhen
  <2> DEFINE x == [type |-> "setup", req |-> req, seq |-> (host.seq + 1) % Seqs]
  <2>2. (host.seq + 1) % Seqs \in 0 .. Seqs - 1
    BY XusbdAssumption, SMT DEF TypeOK, Host
  <2>3. x \in Event /\ events' = Append(events, x)
    BY <2>1, <2>2 DEF Ask, Report, Event, Codes
  <2>4. \A q : Requires(x, q) => q = req
    BY DEF Requires
  <2> QED BY <2>1, <2>3, <2>4
<1>3. CASE PortReset
  <2> DEFINE x == [type |-> "port"]
  <2>1. x \in Event /\ events' = Append(events, x) /\ \A q : ~Requires(x, q)
    BY <1>3 DEF PortReset, Report, Event, Codes, Requires
  <2> QED BY <2>1
<1>4. CASE CarryControl \/ \E e \in Bulk : CarryBulk(e)
  <2>1. PICK e \in Ep, code \in Codes : Report(Completion(e, code))
    BY <1>4 DEF CarryControl, CarryBulk, Failures, Codes, Ep
  <2>2. /\ Completion(e, code) \in Event
        /\ \A q : ~Requires(Completion(e, code), q)
    BY DEF Completion, Event, Codes, Requires
  <2> QED BY <2>1, <2>2 DEF Report
<1>5. CASE \/ UNCHANGED vars \/ Poll \/ TimeOut \/ Acknowledge \/ Enumerated
           \/ EnumerationFailed \/ LunAsked \/ Waiting \/ Finish \/ TransferReturns
           \/ TakeReset \/ End \/ SeeStall \/ Abandon \/ StartWrite
           \/ \E e \in Bulk : Transfer(e)
  BY <1>5 DEF vars, Poll, TimeOut, Acknowledge, Enumerated, EnumerationFailed, LunAsked,
              Waiting, Finish, TransferReturns, TakeReset, End, SeeStall, Abandon, quiet,
              StartWrite, Transfer, Start
<1> QED BY <1>1, <1>2, <1>3, <1>4, <1>5 DEF Next, Driver, Control

\* The elements of a sequence with one more, and with one less.
LEMMA Elements ==
  ASSUME NEW s \in Seq(Event)
  PROVE  /\ DOMAIN s = 1 .. Len(s) /\ Len(s) \in Nat
         /\ \A x \in Event :
              /\ DOMAIN Append(s, x) = 1 .. Len(s) + 1
              /\ \A i \in DOMAIN s : Append(s, x)[i] = s[i]
              /\ Append(s, x)[Len(s) + 1] = x
         /\ s # <<>> =>
              /\ 1 \in DOMAIN s /\ Head(s) = s[1]
              /\ DOMAIN Tail(s) = 1 .. Len(s) - 1
              /\ \A i \in DOMAIN Tail(s) : Tail(s)[i] = s[i + 1] /\ i + 1 \in DOMAIN s
<1>1. DOMAIN s = 1 .. Len(s) /\ Len(s) \in Nat
  BY LenProperties
<1>2. ASSUME NEW x \in Event
      PROVE  /\ DOMAIN Append(s, x) = 1 .. Len(s) + 1
             /\ \A i \in DOMAIN s : Append(s, x)[i] = s[i]
             /\ Append(s, x)[Len(s) + 1] = x
  BY <1>1, AppendProperties, LenProperties
<1>3. ASSUME s # <<>>
      PROVE  /\ 1 \in DOMAIN s /\ Head(s) = s[1]
             /\ DOMAIN Tail(s) = 1 .. Len(s) - 1
             /\ \A i \in DOMAIN Tail(s) : Tail(s)[i] = s[i + 1] /\ i + 1 \in DOMAIN s
  <2>1. /\ Tail(s) \in Seq(Event) /\ Len(Tail(s)) = Len(s) - 1 /\ Len(s) # 0
        /\ \A i \in 1 .. Len(Tail(s)) : Tail(s)[i] = s[i + 1]
        /\ Head(s) = s[1]
    BY <1>3, HeadTailProperties, LenProperties, EmptySeq
  <2>2. DOMAIN Tail(s) = 1 .. Len(s) - 1
    BY <2>1, LenProperties
  <2>3. 1 \in 1 .. Len(s) /\ \A i \in 1 .. Len(s) - 1 : i + 1 \in 1 .. Len(s)
    BY <1>1, <2>1, SMT
  <2> QED BY <1>1, <2>1, <2>2, <2>3
<1> QED BY <1>1, <1>2, <1>3

LEMMA ChosenKept ==
  ASSUME TypeOK, HostInv, [Next]_vars, Once', Chosen
  PROVE  Chosen'
<1>1. host'.view = "configured"
  BY ViewKept DEF Chosen
<1>2. ASSUME NEW i \in DOMAIN events' PROVE ~Requires(events'[i], "configure")
  <2>1. events \in Seq(Event)
    BY DEF TypeOK
  <2>2. CASE events' = events
    BY <2>2 DEF Chosen
  <2>3. CASE events # <<>> /\ events' = Tail(events)
    BY <2>1, <2>3, Elements DEF Chosen
  <2>4. ASSUME NEW x \in Event, events' = Append(events, x),
               Requires(x, "configure") => host.view = "addressed"
        PROVE  ~Requires(events'[i], "configure")
    <3>1. i \in DOMAIN events \/ i = Len(events) + 1
      BY <2>1, <2>4, Elements, SMT
    <3>2. ~Requires(x, "configure")
      BY <2>4 DEF Chosen
    <3> QED BY <2>1, <2>4, <3>1, <3>2, Elements DEF Chosen
  <2> QED BY <2>2, <2>3, <2>4, QueueStep
<1> QED BY <1>1, <1>2 DEF Chosen

LEMMA LunLastKept ==
  ASSUME TypeOK, HostInv, [Next]_vars, Once', LunLast
  PROVE  LunLast'
<1> SUFFICES ASSUME NEW i \in DOMAIN events', Requires(events'[i], "maxlun")
             PROVE  /\ host'.view = "configured"
                    /\ \A j \in DOMAIN events' : j > i => ~Requires(events'[j], "configure")
  BY DEF LunLast
<1>1. events \in Seq(Event) /\ DOMAIN events = 1 .. Len(events) /\ Len(events) \in Nat
  BY Elements DEF TypeOK
<1>2. host.view = "configured" => host'.view = "configured"
  BY ViewKept
<1>3. CASE events' = events
  BY <1>2, <1>3 DEF LunLast
<1>4. CASE events # <<>> /\ events' = Tail(events)
  <2>1. i + 1 \in DOMAIN events /\ events'[i] = events[i + 1]
    BY <1>1, <1>4, Elements
  <2>2. /\ host.view = "configured"
        /\ \A j \in DOMAIN events : j > i + 1 => ~Requires(events[j], "configure")
    BY <2>1 DEF LunLast
  <2>3. ASSUME NEW j \in DOMAIN events', j > i PROVE ~Requires(events'[j], "configure")
    <3>1. j + 1 \in DOMAIN events /\ events'[j] = events[j + 1]
      BY <1>1, <1>4, Elements
    <3>2. i \in Int /\ j \in Int
      BY <1>1, <1>4, Elements, SMT
    <3>3. j + 1 > i + 1
      BY <2>3, <3>2, SMT
    <3> QED BY <2>2, <3>1, <3>3
  <2> QED BY <1>2, <2>2, <2>3
<1>5. ASSUME NEW x \in Event, events' = Append(events, x),
             Requires(x, "configure") => host.view = "addressed",
             Requires(x, "maxlun") => host.view = "configured"
      PROVE  /\ host'.view = "configured"
             /\ \A j \in DOMAIN events' : j > i => ~Requires(events'[j], "configure")
  <2>1. /\ DOMAIN events' = 1 .. Len(events) + 1
        /\ \A k \in DOMAIN events : events'[k] = events[k]
        /\ events'[Len(events) + 1] = x
    BY <1>1, <1>5, Elements
  <2>2. \A k \in DOMAIN events' : k \in DOMAIN events \/ k = Len(events) + 1
    BY <1>1, <2>1, SMT
  <2>3. CASE i \in DOMAIN events
    <3>1. /\ host.view = "configured"
          /\ \A j \in DOMAIN events : j > i => ~Requires(events[j], "configure")
      BY <2>1, <2>3 DEF LunLast
    <3>2. ~Requires(x, "configure")
      BY <1>5, <3>1
    <3> QED BY <1>2, <2>1, <2>2, <3>1, <3>2
  <2>4. CASE i = Len(events) + 1
    <3>1. host.view = "configured"
      BY <1>5, <2>1, <2>4
    <3>2. \A j \in DOMAIN events' : ~(j > i)
      BY <1>1, <2>1, <2>4, SMT
    <3> QED BY <1>2, <3>1, <3>2
  <2> QED BY <2>2, <2>3, <2>4
<1> QED BY <1>3, <1>4, <1>5, QueueStep

\* The state after the number of volumes, and a session, come of a request for
\* it: the configuration was chosen before.
LEMMA ChosenStep ==
  ASSUME TypeOK, HostInv, [Next]_vars, Once', LunLast,
         (~Before \/ drv.state \in {"lun_wait", "lun"}) => Chosen,
         ~Before' \/ drv'.state \in {"lun_wait", "lun"}
  PROVE  Chosen'
<1>1. CASE ~Before \/ drv.state \in {"lun_wait", "lun"}
  BY <1>1, ChosenKept
<1>2. CASE Before /\ drv.state \notin {"lun_wait", "lun"}
  <2>1. Before' /\ (drv'.state \in {"lun_wait", "lun"} => GetMaxLun)
    <3>1. CASE HandleSetup
      <4>1. Before' = Before
        BY <3>1 DEF Before, HandleSetup, Setup, Handled, SetAddress, SetConfiguration,
                    RemoveConfiguration, Describe, SetInterface, ClearHalt, ResetBulk, GetMaxLun,
                    Refuse, Ignore
      <4>2. CASE SetAddress \/ RemoveConfiguration \/ Describe \/ SetInterface \/ ClearHalt
                 \/ ResetBulk \/ Refuse \/ Ignore
        <5>1. drv'.state \in {"addressed_wait", "default", drv.state}
          BY <4>2 DEF SetAddress, RemoveConfiguration, Describe, SetInterface, ClearHalt,
                      ResetBulk, Refuse, Ignore, IssueData, IssueStatus, NothingPosted, Heard,
                      TypeOK, Drv
        <5> QED BY <1>2, <4>1, <5>1
      <4>3. CASE SetConfiguration
        <5>1. drv'.state = "configured_wait"
          BY <4>3 DEF SetConfiguration, Heard, TypeOK, Drv
        <5> QED BY <1>2, <4>1, <5>1
      <4> QED BY <1>2, <3>1, <4>1, <4>2, <4>3 DEF HandleSetup
    <3>2. CASE HandleControl
      BY <1>2, <3>2 DEF HandleControl, Handled, Before, Reached, TypeOK, Drv
    <3>3. CASE \E e \in Bulk : Transfer(e) \/ HandleBulk(e) \/ CarryBulk(e)
      BY <1>2, <3>3 DEF Transfer, Start, HostInv, HandleBulk, Handled, CarryBulk, device, Before
    <3>4. CASE StartWrite \/ Finish \/ TransferReturns
      <4>1. "enumerate" \notin Bulk \cup {"finish"} /\ "lun" \notin Bulk \cup {"finish"}
        BY XusbdAssumption
      <4> QED BY <1>2, <3>4, <4>1
              DEF StartWrite, Start, Finish, TransferReturns, HostInv, Before
    <3>5. CASE Enumerated \/ LunAsked
      BY <1>2, <3>5 DEF Enumerated, LunAsked, Before, TypeOK, Drv
    <3>6. CASE TakeReset
      BY <1>2, <3>6 DEF TakeReset, HostInv
    <3>7. CASE \/ UNCHANGED vars \/ Poll \/ TimeOut \/ HandlePort \/ Acknowledge
               \/ EnumerationFailed \/ Waiting \/ End \/ Control \/ Enumerate \/ AskOther
               \/ Abandon \/ PortReset
      <4>1. UNCHANGED <<drv, call>>
        BY <3>7 DEF vars, device, Poll, TimeOut, HandlePort, Handled, Acknowledge,
                    EnumerationFailed, Waiting, End, Control, CarryControl, SeeStall, Enumerate,
                    AskOther, Ask, Abandon, PortReset
      <4> QED BY <1>2, <4>1 DEF Before
    <3> QED BY <3>1, <3>2, <3>3, <3>4, <3>5, <3>6, <3>7 DEF Next, Driver
  <2>2. GetMaxLun
    BY <2>1
  <2>3. events # <<>> /\ Requires(Head(events), "maxlun") /\ events' = Tail(events)
    BY <2>2 DEF GetMaxLun, Setup, Handled, Requires
  <2>4. events \in Seq(Event)
    BY DEF TypeOK
  <2>5. 1 \in DOMAIN events /\ Head(events) = events[1]
    BY <2>3, <2>4, Elements
  <2>6. /\ host.view = "configured"
        /\ \A j \in DOMAIN events : j > 1 => ~Requires(events[j], "configure")
    BY <2>3, <2>5 DEF LunLast
  <2>7. ASSUME NEW i \in DOMAIN events' PROVE ~Requires(events'[i], "configure")
    <3>1. i + 1 \in DOMAIN events /\ events'[i] = events[i + 1] /\ i \in 1 .. Len(events) - 1
      BY <2>3, <2>4, Elements
    <3>2. i + 1 > 1
      BY <2>4, <3>1, Elements, SMT
    <3> QED BY <2>6, <3>1, <3>2
  <2> QED BY <2>6, <2>7, ViewKept DEF Chosen
<1> QED BY <1>1, <1>2

\* A step that leaves endpoint e alone.
Alone(e) ==
  /\ ring'[e] = ring[e] /\ asked'[e] = asked[e] /\ (rung'[e] => rung[e])
  /\ Count(events', e) = Count(events, e)

\* What can happen to a bulk endpoint.
LEMMA BulkStep ==
  ASSUME TypeOK, [Next]_vars, NEW e \in Bulk
  PROVE  \/ Alone(e)
         \/ SetConfiguration \/ HandleBulk(e) \/ CarryBulk(e)
         \/ \E n \in {1, 2} : Start(e, n)
<1>1. e \in Ep /\ e # "ctrl" /\ "ctrl" \in Ep /\ Count(events, e) \in Nat
  BY XusbdAssumption, HitsFinite DEF Ep, TypeOK
<1>2. ASSUME NEW type, Handled(type), ~Hit(Head(events), e)
      PROVE  Count(events', e) = Count(events, e)
  <2>1. Count(events, e) = Count(events', e) + 0
    BY <1>2, HandledCount
  <2>2. Count(events', e) \in Nat
    BY <1>2, HandledType, HitsFinite
  <2> QED BY <2>1, <2>2, SMT
<1>3. ASSUME NEW x \in Event, Report(x), ~Hit(x, e)
      PROVE  Count(events', e) = Count(events, e)
  BY <1>1, <1>3, ReportCount, SMT
<1>4. CASE HandleSetup
  <2>1. PICK reqs : Setup(reqs)
    BY <1>4 DEF HandleSetup, SetAddress, SetConfiguration, RemoveConfiguration, Describe,
                SetInterface, ClearHalt, ResetBulk, GetMaxLun, Refuse, Ignore
  <2>2. Handled("setup") /\ ~Hit(Head(events), e)
    BY <2>1 DEF Setup, Handled, Hit
  <2>3. Count(events', e) = Count(events, e)
    BY <1>2, <2>2
  <2>4. \/ SetConfiguration
        \/ NothingPosted
        \/ \E what : Posted("ctrl", what)
    BY <1>4 DEF HandleSetup, SetAddress, RemoveConfiguration, Describe, SetInterface, ClearHalt,
                ResetBulk, GetMaxLun, Refuse, Ignore, IssueData, IssueStatus
  <2> QED BY <1>1, <2>3, <2>4 DEF Alone, NothingPosted, Posted, TypeOK
<1>5. CASE HandleControl
  <2>1. Handled("transfer") /\ ~Hit(Head(events), e)
    BY <1>1, <1>5 DEF HandleControl, Handled, Hit
  <2>2. Count(events', e) = Count(events, e)
    BY <1>2, <2>1
  <2> QED BY <1>1, <1>5, <2>2 DEF Alone, HandleControl, TypeOK
<1>6. CASE HandlePort
  <2>1. Handled("port") /\ ~Hit(Head(events), e)
    BY <1>6 DEF HandlePort, Handled, Hit
  <2>2. Count(events', e) = Count(events, e)
    BY <1>2, <2>1
  <2> QED BY <1>6, <2>2 DEF Alone, HandlePort
<1>7. ASSUME NEW d \in Bulk, HandleBulk(d), d # e
      PROVE  Alone(e)
  <2>1. Handled("transfer") /\ ~Hit(Head(events), e)
    BY <1>7 DEF HandleBulk, Handled, Hit
  <2>2. Count(events', e) = Count(events, e)
    BY <1>2, <2>1
  <2> QED BY <1>7, <2>2 DEF Alone, HandleBulk, Completed, TypeOK
<1>8. ASSUME NEW d \in Bulk, CarryBulk(d), d # e
      PROVE  Alone(e)
  <2>1. PICK code \in Codes : Report(Completion(d, code))
    BY <1>8 DEF CarryBulk, Failures, Codes
  <2>2. Completion(d, code) \in Event /\ ~Hit(Completion(d, code), e)
    BY <1>8 DEF Completion, Event, Codes, Ep, Hit
  <2>3. Count(events', e) = Count(events, e)
    BY <1>3, <2>1, <2>2
  <2> QED BY <1>8, <2>3 DEF Alone, CarryBulk, Carry, TypeOK
<1>9. CASE CarryControl
  <2>1. PICK code \in {"ok", "sequence"} : Report(Completion("ctrl", code))
    BY <1>9 DEF CarryControl
  <2>2. Completion("ctrl", code) \in Event /\ ~Hit(Completion("ctrl", code), e)
    BY <1>1 DEF Completion, Event, Codes, Hit
  <2>3. Count(events', e) = Count(events, e)
    BY <1>3, <2>1, <2>2
  <2> QED BY <1>1, <1>9, <2>3 DEF Alone, CarryControl, Carry, TypeOK
<1>10. CASE Enumerate \/ AskOther \/ PortReset
  <2>1. \E x \in Event : Report(x) /\ ~Hit(x, e)
    <3>1. CASE PortReset
      BY <3>1 DEF PortReset, Event, Codes, Hit
    <3>2. CASE Enumerate \/ AskOther
      <4>1. PICK req \in Request : Ask(req)
        BY <3>2, AskWhen
      <4>2. (host.seq + 1) % Seqs \in 0 .. Seqs - 1
        BY XusbdAssumption, SMT DEF TypeOK, Host
      <4> QED BY <4>1, <4>2 DEF Ask, Event, Codes, Hit
    <3> QED BY <1>10, <3>1, <3>2
  <2>2. Count(events', e) = Count(events, e)
    BY <1>3, <2>1
  <2> QED BY <1>10, <2>2 DEF Alone, PortReset, Enumerate, AskOther, Ask
<1>11. ASSUME NEW d \in Bulk, NEW n \in {1, 2}, Start(d, n), d # e
       PROVE  Alone(e)
  BY <1>11 DEF Alone, Start, TypeOK
<1>12. CASE \/ UNCHANGED vars \/ Poll \/ TimeOut \/ Acknowledge \/ Enumerated
            \/ EnumerationFailed \/ LunAsked \/ Waiting \/ Finish \/ TransferReturns
            \/ TakeReset \/ End \/ SeeStall \/ Abandon
  <2>1. UNCHANGED <<ring, asked, rung, events>>
    BY <1>12 DEF vars, Poll, TimeOut, Acknowledge, Enumerated, EnumerationFailed, LunAsked,
                 Waiting, Finish, TransferReturns, TakeReset, End, SeeStall, Abandon, quiet
  <2> QED BY <2>1 DEF Alone
<1>13. CASE StartWrite \/ \E d \in Bulk : Transfer(d)
  <2>1. \E d \in Bulk, n \in {1, 2} : Start(d, n)
    BY <1>13 DEF StartWrite, Transfer
  <2> QED BY <1>11, <2>1
<1> QED BY <1>4, <1>5, <1>6, <1>7, <1>8, <1>9, <1>10, <1>12, <1>13 DEF Next, Driver, Control

\* The first configuration finds the rings as the memory was cleared.
LEMMA FirstConfiguration ==
  ASSUME TypeOK, Once, BulkInv, SetConfiguration, NEW e \in Bulk
  PROVE  /\ Before /\ ring'[e] = ring[e] /\ asked'[e] = asked[e] /\ ~rung'[e]
         /\ Count(events', e) = Count(events, e)
<1>1. events # <<>> /\ Requires(Head(events), "configure") /\ Handled("setup")
  BY DEF SetConfiguration, Setup, Handled, Requires
<1>2. ~Chosen
  <2>1. 1 \in DOMAIN events /\ Head(events) = events[1]
    BY <1>1, Elements DEF TypeOK
  <2> QED BY <1>1, <2>1 DEF Chosen
<1>3. Before /\ Fresh(e)
  BY <1>2 DEF BulkInv
<1>4. Initialized(ring[e].cycle) = ring[e]
  BY <1>3 DEF Fresh, Initialized
<1>5. e \in Ep /\ e # "ctrl" /\ "ctrl" \in Ep
  BY XusbdAssumption DEF Ep
<1>6. ring'[e] = ring[e] /\ asked'[e] = asked[e] /\ ~rung'[e]
  BY <1>3, <1>4, <1>5 DEF SetConfiguration, Fresh
<1>7. Count(events', e) = Count(events, e)
  <2>1. Count(events, e) = Count(events', e) + 0
    BY <1>1, HandledCount DEF Hit, Requires
  <2>2. Count(events', e) \in Nat
    BY <1>1, HandledType, HitsFinite
  <2> QED BY <2>1, <2>2, SMT
<1> QED BY <1>3, <1>6, <1>7

\* What endpoint e has of requests.
LEMMA BulkNumbers ==
  ASSUME TypeOK, NEW e \in Bulk
  PROVE  /\ e \in Ep /\ asked[e] \in Seq(Posting) /\ Len(asked[e]) \in Nat
         /\ Count(events, e) \in Nat
<1>1. e \in Ep /\ asked[e] \in Seq(Posting)
  BY DEF TypeOK, Ep
<1> QED BY <1>1, LenProperties, HitsFinite DEF TypeOK

\* Before the session nothing is posted for a bulk endpoint, and nothing comes
\* of one.
LEMMA NoTransfer ==
  ASSUME TypeOK, HostInv, Once, BulkInv, Before, NEW e \in Bulk
  PROVE  Fresh(e) /\ ~HandleBulk(e) /\ ~CarryBulk(e) /\ ~\E n \in {1, 2} : Start(e, n)
<1>1. Fresh(e)
  BY DEF BulkInv
<1>2. ~HandleBulk(e)
  <2> SUFFICES ASSUME HandleBulk(e) PROVE FALSE
    OBVIOUS
  <2>1. Handled("transfer") /\ Hit(Head(events), e)
    BY DEF HandleBulk, Handled, Hit
  <2>2. Count(events, e) = Count(events', e) + 1
    BY <2>1, HandledCount
  <2>3. Count(events', e) \in Nat
    BY <2>1, HandledType, HitsFinite
  <2> QED BY <1>1, <2>2, <2>3, SMT DEF Fresh
<1>3. ~CarryBulk(e)
  BY <1>1 DEF CarryBulk, Carry, Fresh
<1>4. ~\E n \in {1, 2} : Start(e, n)
  BY DEF Start, HostInv
<1> QED BY <1>1, <1>2, <1>3, <1>4

LEMMA FreshKept ==
  ASSUME TypeOK, HostInv, [Next]_vars, Once, BulkInv, Before, NEW e \in Bulk
  PROVE  Fresh(e)'
<1>1. Fresh(e)
  BY DEF BulkInv
<1>2. CASE Alone(e)
  BY <1>1, <1>2 DEF Alone, Fresh
<1>3. CASE SetConfiguration
  BY <1>1, <1>3, FirstConfiguration DEF Fresh
<1> QED BY <1>2, <1>3, BulkStep, NoTransfer

\* m transfers more.
LEMMA BatchLen ==
  ASSUME NEW s \in Seq(Posting), NEW m \in {1, 2}
  PROVE  Len(s \o [i \in 1 .. m |-> [stage |-> "bulk"]]) = Len(s) + m
<1> DEFINE b(i) == [stage |-> "bulk"]
           t == [i \in 1 .. m |-> b(i)]
<1>1. m \in Nat /\ \A i \in 1 .. m : b(i) \in Posting
  BY DEF Posting
<1>2. t \in Seq(Posting)
  <2> HIDE DEF b
  <2> QED BY <1>1, IsASeq
<1>3. Len(t) = m
  <2>1. DOMAIN t = 1 .. m
    OBVIOUS
  <2> HIDE DEF t
  <2> QED BY <1>2, <2>1, LenProperties, SMT
<1>4. Len(s \o t) = Len(s) + m
  <2> HIDE DEF t
  <2> QED BY <1>2, <1>3, ConcatProperties
<1> QED BY <1>4

\* Two sides of one ring.
LEMMA RingKept ==
  ASSUME TypeOK, [Next]_vars, Once, BulkInv, NEW e \in Bulk
  PROVE  RingInv(ring[e], Len(asked[e]), Count(events, e))'
<1> DEFINE r == ring[e]
           n == Len(asked[e])
           u == Count(events, e)
<1>1. RingInv(r, n, u)
  BY DEF BulkInv
<1>2. e \in Ep /\ asked[e] \in Seq(Posting) /\ n \in Nat /\ u \in Nat
  BY BulkNumbers
<1>3. CASE Alone(e)
  BY <1>1, <1>3 DEF Alone
<1>4. CASE SetConfiguration
  BY <1>1, <1>4, FirstConfiguration
<1>5. CASE HandleBulk(e)
  <2>1. Handled("transfer") /\ Hit(Head(events), e)
    BY <1>5 DEF HandleBulk, Handled, Hit
  <2>2. u = Count(events', e) + 1
    BY <2>1, HandledCount
  <2>3. Count(events', e) \in Nat
    BY <2>1, HandledType, HitsFinite
  <2>4. u > 0 /\ Count(events', e) = u - 1
    BY <1>2, <2>2, <2>3, SMT
  <2>5. ring'[e] = Dequeued(r) /\ asked'[e] = asked[e]
    BY <1>2, <1>5 DEF HandleBulk, TypeOK
  <2>6. RingInv(Dequeued(r), n, u - 1)
    BY <1>1, <2>4, DequeuedInv
  <2> QED BY <2>4, <2>5, <2>6
<1>6. CASE CarryBulk(e)
  <2>1. HasTrb(r) /\ ring'[e] = Fetched(r)
    BY <1>2, <1>6 DEF CarryBulk, Carry, TypeOK
  <2>2. n > 0 /\ RingInv(Fetched(r), n - 1, u + 1)
    BY <1>1, <2>1, FetchedInv
  <2>3. asked[e] # <<>>
    BY <2>2, EmptySeq, SMT
  <2>4. asked'[e] = Tail(asked[e])
    BY <1>2, <1>6, <2>3 DEF CarryBulk, TypeOK
  <2>5. Len(asked'[e]) = n - 1
    BY <1>2, <2>3, <2>4, HeadTailProperties
  <2>6. Count(events', e) = u + 1
    <3>1. PICK code \in Codes : Report(Completion(e, code))
      BY <1>6 DEF CarryBulk, Failures, Codes
    <3>2. Completion(e, code) \in Event /\ Hit(Completion(e, code), e)
      BY <1>2 DEF Completion, Event, Codes, Hit
    <3> QED BY <3>1, <3>2, ReportCount
  <2> QED BY <2>1, <2>2, <2>5, <2>6
<1>7. ASSUME NEW m \in {1, 2}, Start(e, m)
      PROVE  RingInv(ring[e], Len(asked[e]), Count(events, e))'
  <2>1. n + u + m < Link /\ Count(events', e) = u
    BY <1>7 DEF Start, Unhandled, Count, Hits, Hit
  <2>2. RingInv(Queued(r), n + 1, u)
    <3>1. n + u + 1 < Link
      BY <1>2, <2>1, Sizes, SMT
    <3> QED BY <1>1, <3>1, QueuedInv
  <2>3. asked'[e] = asked[e] \o [i \in 1 .. m |-> [stage |-> "bulk"]]
    BY <1>2, <1>7 DEF Start, TypeOK
  <2>6. Len(asked'[e]) = n + m
    BY <1>2, <2>3, BatchLen
  <2>7. CASE m = 1
    <3>1. ring'[e] = Queued(r)
      BY <1>2, <1>7, <2>7 DEF Start, TypeOK
    <3> QED BY <2>1, <2>2, <2>6, <2>7, <3>1
  <2>8. CASE m = 2
    <3>1. ring'[e] = Queued(Queued(r))
      BY <1>2, <1>7, <2>8 DEF Start, TypeOK
    <3>2. n + 1 + u + 1 < Link /\ n + 1 + 1 = n + 2
      BY <1>2, <2>1, <2>8, Sizes, SMT
    <3>3. RingInv(Queued(Queued(r)), n + 1 + 1, u)
      BY <2>2, <3>2, QueuedInv
    <3> QED BY <2>1, <2>6, <2>8, <3>1, <3>2, <3>3
  <2> QED BY <2>7, <2>8
<1> QED BY <1>3, <1>4, <1>5, <1>6, <1>7, BulkStep

\* The session starts when the host has asked for the number of volumes.
LEMMA BeforeStep ==
  ASSUME TypeOK, HostInv, [Next]_vars
  PROVE  /\ Before' => Before
         /\ (Before /\ ~Before') => LunAsked
<1>1. "enumerate" \notin Bulk \cup {"finish"} /\ "lun" \notin Bulk \cup {"finish"}
  BY XusbdAssumption
<1>2. CASE UNCHANGED call
  BY <1>2 DEF Before
<1>3. CASE Enumerated \/ LunAsked
  BY <1>3 DEF Enumerated, LunAsked, Before
<1>4. CASE Finish \/ TransferReturns \/ \E e \in Bulk : Transfer(e)
  BY <1>1, <1>4 DEF Finish, TransferReturns, Transfer, Start, HostInv, Before
<1> QED BY <1>2, <1>3, <1>4 DEF Next, Driver, Control, vars, device, Poll, TimeOut, HandlePort,
           HandleControl, HandleBulk, HandleSetup, Handled, Setup, SetAddress,
           SetConfiguration, RemoveConfiguration, Describe, SetInterface, ClearHalt, ResetBulk,
           GetMaxLun, Refuse, Ignore, Acknowledge, EnumerationFailed, Waiting, StartWrite,
           Start, TakeReset, End, CarryControl, SeeStall, Enumerate, AskOther, Ask, CarryBulk,
           Abandon, PortReset

LEMMA BulkInvInit == Init => BulkInv
<1> SUFFICES ASSUME Init PROVE BulkInv
  OBVIOUS
<1>1. events = <<>> /\ DOMAIN events = {}
  BY DEF Init
<1>2. ASSUME NEW e \in Bulk
      PROVE  Fresh(e) /\ RingInv(ring[e], Len(asked[e]), Count(events, e))
  <2>1. e \in Ep /\ ring[e] = Initialized(Cleared) /\ asked[e] = <<>> /\ ~rung[e]
    BY DEF Init, Ep
  <2>2. Hits(<<>>, e) = {}
    BY DEF Hits
  <2>3. Count(events, e) = 0 /\ Len(asked[e]) = 0
    BY <1>1, <2>1, <2>2, FS_EmptySet, EmptySeq DEF Count
  <2> QED BY <2>1, <2>3, InitializedInv DEF Fresh
<1>3. Before /\ drv.state = "default"
  BY DEF Init, Before
<1> QED BY <1>1, <1>2, <1>3 DEF BulkInv, LunLast

LEMMA BulkInvStep == TypeOK /\ HostInv /\ BulkInv /\ [Next]_vars => BulkInv'
<1> SUFFICES ASSUME TypeOK, HostInv, BulkInv, [Next]_vars, Once' PROVE BulkInv'
  BY DEF BulkInv
<1>1. Once
  BY OnceBefore
<1>2. \A e \in Bulk : RingInv(ring[e], Len(asked[e]), Count(events, e))'
  BY <1>1, RingKept
<1>3. Before' => Before
  BY BeforeStep
<1>4. Before' => \A e \in Bulk : Fresh(e)'
  BY <1>1, <1>3, FreshKept
<1>5. LunLast'
  BY <1>1, LunLastKept DEF BulkInv
<1>6. (~Before' \/ drv'.state \in {"lun_wait", "lun"}) => Chosen'
  BY <1>1, ChosenStep DEF BulkInv
<1> QED BY <1>2, <1>4, <1>5, <1>6 DEF BulkInv

\* As long as a configuration is chosen once, the controller carries out what
\* was posted on the bulk endpoints too: nothing is left on their rings when
\* they are initialised (_xusbd_handle_ep0_control_transfer).
THEOREM BulkRingsSoundHolds == Spec => []BulkRingsSound
<1>1. Init => TypeOK /\ HostInv /\ BulkInv
  BY InitType, HostInvInit, BulkInvInit
<1>2. TypeOK /\ HostInv /\ BulkInv /\ [Next]_vars => (TypeOK /\ HostInv /\ BulkInv)'
  BY StepType, HostInvStep, BulkInvStep
<1>3. BulkInv => BulkRingsSound
  <2> SUFFICES ASSUME BulkInv, Once, NEW e \in Bulk PROVE Agreed(e)
    BY DEF BulkRingsSound
  <2>1. RingInv(ring[e], Len(asked[e]), Count(events, e))
    BY DEF BulkInv
  <2> QED BY <2>1, InvAgrees DEF Agreed, Unhandled, Count, Hits, Hit
<1> QED BY <1>1, <1>2, <1>3, PTL DEF Spec

-----------------------------------------------------------------------------
(* The enumeration, one request of the host at a time.                     *)

\* The host completes what it asks, and keeps its configuration.
Calm == upsets \cap {"abandon", "reset", "deconfigure"} = {}

Done == Completion("ctrl", "ok")
Asking == [type |-> "setup", req |-> host.req, seq |-> host.seq]

\* The last status is not seen by the driver.
Late == events = <<Done>> /\ drv.wait = "status"

\* The host asks nothing.
Resting == host.stage = "idle" /\ asked["ctrl"] = <<>> /\ (events = <<>> \/ Late)

\* What it asks is not seen by the driver; nor, perhaps, the last status.
Unheard ==
  /\ host.stage = IF host.req \in WithData THEN "data" ELSE "status"
  /\ asked["ctrl"] = <<>> /\ ~halted["ctrl"]
  /\ events = <<Asking>> \/ (events = <<Done, Asking>> /\ drv.wait = "status")

\* The driver answers it.
Answering ==
  /\ host.stage \in {"data", "status"} /\ drv.seq = host.seq /\ ~halted["ctrl"]
  /\ asked["ctrl"] = <<[stage |-> host.stage, seq |-> host.seq]>>
  /\ drv.wait = host.stage /\ events = <<>>

\* The host has the data.
HasData ==
  /\ host.stage = "status" /\ drv.seq = host.seq /\ ~halted["ctrl"]
  /\ asked["ctrl"] = <<>> /\ drv.wait = "data" /\ events = <<Done>>

\* It is refused, or nothing is done about it.
Unanswered == host.stage # "idle" /\ asked["ctrl"] = <<>> /\ events = <<>>

Phase == Resting \/ Unheard \/ Answering \/ HasData \/ Unanswered

\* The driver goes by the status of the request for the number of volumes.
LunState ==
  /\ drv.state = "lun" => host.luns = "told"
  /\ drv.state = "lun_wait" =>
       \/ host.luns = "told" /\ drv.wait = "status" /\ events # <<>> /\ Head(events) = Done
       \/ host.req = "maxlun" /\ (Answering \/ HasData)

LunInv ==
  Calm => IF Before THEN Phase /\ LunState ELSE host.luns = "told"

\* The sequences of one and of two.
LEMMA Short ==
  ASSUME NEW a, NEW b
  PROVE  /\ Head(<<a>>) = a /\ Tail(<<a>>) = <<>> /\ <<a>> # <<>>
         /\ Head(<<a, b>>) = a /\ Tail(<<a, b>>) = <<b>> /\ <<a, b>> # <<>>
         /\ Append(<<>>, a) = <<a>> /\ Append(<<a>>, b) = <<a, b>>
<1>1. Head(<<a>>) = a /\ <<a>> # <<>> /\ Head(<<a, b>>) = a /\ <<a, b>> # <<>>
  OBVIOUS
<1>2. Tail(<<a>>) = <<>>
  OBVIOUS
<1>3. Tail(<<a, b>>) = <<b>>
  OBVIOUS
<1>4. Append(<<>>, a) = <<a>>
  OBVIOUS
<1>5. Append(<<a>>, b) = <<a, b>>
  <2> DEFINE S == {a, b}
  <2>1. <<a>> \in Seq(S) /\ Len(<<a>>) = 1 /\ <<a>>[1] = a
    OBVIOUS
  <2>2. <<a, b>> \in Seq(S) /\ Len(<<a, b>>) = 2 /\ <<a, b>>[1] = a /\ <<a, b>>[2] = b
    OBVIOUS
  <2>3. /\ Append(<<a>>, b) \in Seq(S) /\ Len(Append(<<a>>, b)) = 1 + 1
        /\ Append(<<a>>, b)[1] = a /\ Append(<<a>>, b)[1 + 1] = b
    BY <2>1, AppendProperties
  <2>4. \A i \in 1 .. 2 : Append(<<a>>, b)[i] = <<a, b>>[i]
    <3>1. \A i \in 1 .. 2 : i = 1 \/ i = 1 + 1
      BY SMT
    <3>2. 1 + 1 = 2
      OBVIOUS
    <3> QED BY <2>2, <2>3, <3>1, <3>2
  <2> DEFINE s == Append(<<a>>, b)
             t == <<a, b>>
  <2>5. s \in Seq(S) /\ t \in Seq(S) /\ Len(s) = 2 /\ Len(t) = 2 /\ \A i \in 1 .. 2 : s[i] = t[i]
    BY <2>2, <2>3, <2>4
  <2> HIDE DEF s, t, S
  <2>6. s = t
    BY <2>5, SeqEqual
  <2> QED BY <2>6 DEF s, t
<1> QED BY <1>1, <1>2, <1>3, <1>4, <1>5

LEMMA CalmBefore == ASSUME [Next]_vars, Calm' PROVE Calm /\ Once
BY UpsetsKept DEF Calm, Once

\* What the host was told it does not forget.
LEMMA ToldKept ==
  ASSUME TypeOK, HostInv, [Next]_vars, Calm', host.luns = "told"
  PROVE  host'.luns = "told"
<1>1. Once
  BY CalmBefore
<1>2. CASE Enumerate \/ AskOther \/ Abandon
  BY <1>2 DEF Enumerate, AskOther, Ask, Abandon, Idle, TypeOK, Host
<1>3. CASE SeeStall
  BY <1>3 DEF SeeStall, Idle, HostInv, TypeOK, Host
<1>4. CASE CarryControl
  <2>1. CASE host' = host \/ host' = [host EXCEPT !.stage = "status"]
    BY <2>1 DEF TypeOK, Host
  <2>2. CASE host' = Settled /\ host.stage # "idle"
    <3>1. host.req # "deconfigure"
      BY <1>1, <2>2 DEF HostInv
    <3> QED BY <2>2, <3>1 DEF Settled, Idle, TypeOK, Host
  <2>3. \A a \in Posting : a.stage = host.stage => host.stage # "idle"
    BY DEF Posting
  <2>4. asked["ctrl"] # <<>> => Head(asked["ctrl"]) \in Posting
    BY CtlNumbers, HeadTailProperties
  <2> QED BY <1>4, <2>1, <2>2, <2>3, <2>4 DEF CarryControl
<1>5. ~PortReset
  BY DEF PortReset, Upset, Calm
<1>6. CASE UNCHANGED vars \/ \E e \in Bulk : CarryBulk(e)
  BY <1>6 DEF vars, CarryBulk
<1> QED BY <1>2, <1>3, <1>4, <1>5, <1>6, DriverHost DEF Next, Control

\* The events there can be, told apart.
LEMMA Apart ==
  /\ <<Done>> # <<>> /\ <<Asking>> # <<>> /\ <<Done, Asking>> # <<>>
  /\ <<Done>> # <<Asking>> /\ <<Asking>> # <<Done, Asking>> /\ Done # Asking
  /\ Done \in Event /\ Done.type = "transfer" /\ Done.ep = "ctrl" /\ Done.code = "ok"
  /\ Asking.type = "setup" /\ Asking.req = host.req /\ Asking.seq = host.seq
<1>1. /\ Done \in Event /\ Done.type = "transfer" /\ Done.ep = "ctrl" /\ Done.code = "ok"
      /\ Asking.type = "setup" /\ Asking.req = host.req /\ Asking.seq = host.seq
  BY DEF Done, Asking, Completion, Event, Codes, Ep
<1>2. Done # Asking
  BY <1>1
<1> QED BY <1>1, <1>2, Short

\* What the phases say of the events.
LEMMA PhaseEvents ==
  ASSUME Phase, events # <<>>
  PROVE  \/ Head(events) = Done /\ Tail(events) = <<>> /\ events = <<Done>> /\ (Resting \/ HasData)
         \/ /\ Head(events) = Done /\ Tail(events) = <<Asking>> /\ Unheard
            /\ events # <<Asking>> /\ drv.wait = "status"
         \/ Head(events) = Asking /\ Tail(events) = <<>> /\ events = <<Asking>> /\ Unheard
BY Short, Apart DEF Phase, Resting, Late, Unheard, Answering, HasData, Unanswered

\* A step that leaves endpoint 0 alone.
LEMMA PhaseFrame ==
  ASSUME Phase, LunState, asked'["ctrl"] = asked["ctrl"], halted'["ctrl"] = halted["ctrl"],
         events' = events, host' = host,
         drv'.wait = drv.wait, drv'.seq = drv.seq, drv'.state = drv.state
  PROVE  Phase' /\ LunState'
BY DEF Phase, LunState, Resting, Late, Unheard, Answering, HasData, Unanswered, Asking, Done

LEMMA PhaseInit == Init => LunInv
<1> SUFFICES ASSUME Init PROVE Phase /\ LunState /\ Before
  BY DEF LunInv
<1>1. "ctrl" \in Ep
  BY DEF Ep
<1>2. Resting
  BY <1>1 DEF Init, Resting
<1> QED BY <1>2 DEF Init, Phase, LunState, Before

LEMMA PhaseAsk ==
  ASSUME TypeOK, HostInv, Phase, LunState, Once', Enumerate \/ AskOther
  PROVE  Phase' /\ LunState'
<1>1. PICK req \in Request : Ask(req)
  BY AskWhen
<1>2. Resting
  BY <1>1 DEF Ask, Phase, Resting, Unheard, Answering, HasData, Unanswered
<1>3. /\ host'.req = req /\ host'.seq = (host.seq + 1) % Seqs /\ host'.luns = host.luns
      /\ host'.stage = IF req \in WithData THEN "data" ELSE "status"
  BY <1>1 DEF Ask, TypeOK, Host
<1>4. events' = Append(events, Asking')
  BY <1>1, <1>3 DEF Ask, Report, Asking
<1>5. "ctrl" \in Ep
  BY DEF Ep
<1>6. UNCHANGED <<asked, drv>> /\ ~halted'["ctrl"]
  BY <1>1, <1>5 DEF Ask, device, TypeOK
<1>7. Done' = Done
  BY DEF Done, Completion
<1>8. CASE events = <<>>
  <2>1. events' = <<Asking'>>
    BY <1>4, <1>8, Short
  <2>2. Unheard'
    BY <1>2, <1>3, <1>6, <2>1 DEF Unheard, Resting
  <2>3. drv.state # "lun_wait"
    BY <1>2, <1>8 DEF LunState, Answering, HasData, Resting
  <2> QED BY <1>3, <1>6, <2>2, <2>3 DEF Phase, LunState
<1>9. CASE Late
  <2>1. PICK x : x = Asking'
    OBVIOUS
  <2>2. events' = Append(<<Done>>, x)
    BY <1>4, <1>9, <2>1 DEF Late
  <2>3. events' = <<Done, x>> /\ Head(events') = Done /\ events' # <<>>
    <3>1. PICK d : d = Done
      OBVIOUS
    <3>2. events' = Append(<<d>>, x)
      BY <2>2, <3>1
    <3>3. events' = <<d, x>> /\ Head(<<d, x>>) = d /\ <<d, x>> # <<>>
      BY <3>2, Short
    <3> QED BY <3>1, <3>3
  <2>4. Unheard'
    <3>1. asked["ctrl"] = <<>> /\ drv.wait = "status"
      BY <1>2, <1>9 DEF Resting, Late
    <3>2. events' = <<Done', Asking'>>
      BY <1>7, <2>1, <2>3
    <3> QED BY <1>3, <1>6, <3>1, <3>2 DEF Unheard
  <2>5. drv.state = "lun_wait" => host.luns = "told"
    BY <1>2 DEF LunState, Answering, HasData, Resting
  <2> QED BY <1>3, <1>6, <1>7, <1>9, <2>3, <2>4, <2>5 DEF Phase, LunState, Late
<1> QED BY <1>2, <1>8, <1>9 DEF Resting

LEMMA PhaseStall ==
  ASSUME TypeOK, HostInv, Phase, LunState, SeeStall
  PROVE  Phase' /\ LunState'
<1>1. Unanswered /\ halted["ctrl"]
  BY DEF SeeStall, Phase, Resting, Unheard, Answering, HasData
<1>2. UNCHANGED <<asked, halted, events, drv>> /\ host'.stage = "idle"
  BY DEF SeeStall, device, Idle, TypeOK, Host
<1>3. Resting'
  BY <1>1, <1>2 DEF Unanswered, Resting
<1>4. drv.state # "lun_wait"
  BY <1>1 DEF LunState, Answering, HasData, Unanswered
<1>5. drv.state = "lun" => host'.luns = "told"
  BY DEF SeeStall, LunState, HostInv, Idle, TypeOK, Host
<1> QED BY <1>2, <1>3, <1>4, <1>5 DEF Phase, LunState

LEMMA PhaseCarry ==
  ASSUME TypeOK, HostInv, Once, Phase, LunState, CarryControl
  PROVE  Phase' /\ LunState'
<1>1. Answering
  BY DEF CarryControl, Phase, Resting, Unheard, HasData, Unanswered
<1>2. "ctrl" \in Ep /\ UNCHANGED <<halted, drv>>
  BY DEF CarryControl, device, Ep
<1>3. Head(asked["ctrl"]) = [stage |-> host.stage, seq |-> host.seq] /\ asked'["ctrl"] = <<>>
  BY <1>1, <1>2, Short DEF Answering, CarryControl, TypeOK
<1>4. /\ Report(Done)
      /\ host' = IF host.stage = "data" THEN [host EXCEPT !.stage = "status"] ELSE Settled
  BY <1>3 DEF CarryControl, Done
<1>5. events' = <<Done>> /\ Done' = Done /\ Head(events') = Done /\ events' # <<>>
  BY <1>1, <1>4, Short DEF Report, Answering, Done, Completion
<1>6. CASE host.stage = "data"
  <2>1. host'.stage = "status" /\ UNCHANGED <<host.seq, host.req, host.luns>>
    BY <1>4, <1>6 DEF TypeOK, Host
  <2>2. HasData'
    BY <1>1, <1>2, <1>3, <1>5, <1>6, <2>1 DEF Answering, HasData
  <2>3. drv.state = "lun_wait" => host.req = "maxlun"
    BY <1>1 DEF LunState, Answering
  <2> QED BY <1>2, <2>1, <2>2, <2>3 DEF Phase, LunState
<1>7. CASE host.stage = "status"
  <2>1. /\ host'.stage = "idle"
        /\ host.luns = "told" => host'.luns = "told"
        /\ host.req = "maxlun" => host'.luns = "told"
    <3>1. host.req # "deconfigure"
      BY <1>7 DEF HostInv
    <3>2. host' = Settled
      BY <1>4, <1>7
    <3> QED BY <3>1, <3>2 DEF Settled, Idle, TypeOK, Host
  <2>2. Late' /\ Resting'
    BY <1>1, <1>2, <1>3, <1>5, <1>7, <2>1 DEF Answering, Late, Resting
  <2>3. drv.state = "lun_wait" => host.req = "maxlun"
    BY <1>1 DEF LunState, Answering
  <2> QED BY <1>2, <1>5, <2>1, <2>2, <2>3 DEF Phase, LunState, Late
<1> QED BY <1>1, <1>6, <1>7 DEF Answering

LEMMA PhaseHandle ==
  ASSUME TypeOK, Phase, LunState, HandleControl
  PROVE  Phase' /\ LunState'
<1>1. /\ events # <<>> /\ Head(events).type = "transfer" /\ events' = Tail(events)
      /\ UNCHANGED <<host, halted>> /\ "ctrl" \in Ep
  BY DEF HandleControl, Handled, Outside, Ep
<1>2. Head(events) = Done /\ Head(events).code = "ok"
  BY <1>1, PhaseEvents, Apart
<1>3. CASE Tail(events) = <<>> /\ Resting
  <2>1. drv.wait = "status" /\ asked["ctrl"] = <<>>
    BY <1>1, <1>3 DEF Resting, Late
  <2>2. UNCHANGED asked /\ drv'.state = Reached(drv.state)
    BY <1>2, <2>1 DEF HandleControl, TypeOK, Drv
  <2>3. Resting'
    BY <1>1, <1>3, <2>1, <2>2 DEF Resting
  <2>4. drv.state \in {"lun", "lun_wait"} => host.luns = "told"
    BY <1>3 DEF LunState, Resting, Answering, HasData
  <2>5. drv'.state # "lun_wait" /\ (drv'.state = "lun" => drv.state \in {"lun", "lun_wait"})
    BY <2>2 DEF Reached
  <2> QED BY <1>1, <2>3, <2>4, <2>5 DEF Phase, LunState
<1>4. CASE Tail(events) = <<>> /\ HasData
  <2>1. /\ asked'["ctrl"] = Append(<<>>, [stage |-> "status", seq |-> host.seq])
        /\ drv'.wait = "status" /\ drv'.state = drv.state /\ drv'.seq = host.seq
    BY <1>1, <1>2, <1>4 DEF HandleControl, HasData, TypeOK, Drv
  <2>2. asked'["ctrl"] = <<[stage |-> "status", seq |-> host.seq]>>
    BY <2>1, Short
  <2>3. Answering'
    BY <1>1, <1>4, <2>1, <2>2 DEF HasData, Answering
  <2>4. drv.state = "lun_wait" => host.req = "maxlun"
    BY <1>4 DEF LunState, HasData
  <2> QED BY <1>1, <2>1, <2>3, <2>4 DEF Phase, LunState
<1>5. CASE Tail(events) = <<Asking>> /\ Unheard /\ events # <<Asking>> /\ drv.wait = "status"
  <2>1. UNCHANGED asked /\ drv'.state = Reached(drv.state) /\ Asking' = Asking
    BY <1>1, <1>2, <1>5 DEF HandleControl, TypeOK, Drv, Asking
  <2>2. Unheard'
    BY <1>1, <1>5, <2>1 DEF Unheard
  <2>3. drv.state \in {"lun", "lun_wait"} => host.luns = "told"
    <3>1. ~Answering /\ ~HasData
      BY <1>1, <1>5, Apart, Short DEF Answering, HasData, Unheard
    <3> QED BY <3>1 DEF LunState
  <2>4. drv'.state # "lun_wait" /\ (drv'.state = "lun" => drv.state \in {"lun", "lun_wait"})
    BY <2>1 DEF Reached
  <2> QED BY <1>1, <2>2, <2>3, <2>4 DEF Phase, LunState
<1> QED BY <1>1, <1>2, <1>3, <1>4, <1>5, PhaseEvents, Apart

\* A request finds the ring free: it is answered, refused or ignored.
LEMMA PhaseSetup ==
  ASSUME TypeOK, Ctl, HostInv, Once, Phase, LunState, HandleSetup
  PROVE  Phase' /\ LunState'
<1>1. PICK reqs : Setup(reqs)
  BY DEF HandleSetup, SetAddress, SetConfiguration, RemoveConfiguration, Describe,
         SetInterface, ClearHalt, ResetBulk, GetMaxLun, Refuse, Ignore
<1>2. /\ events # <<>> /\ Head(events).type = "setup" /\ events' = Tail(events) /\ host' = host
      /\ "ctrl" \in Ep /\ "ctrl" \notin Bulk
  BY <1>1, XusbdAssumption DEF Setup, Handled, Outside, Ep
<1>3. events = <<Asking>> /\ Unheard /\ Head(events) = Asking /\ events' = <<>>
  BY <1>2, PhaseEvents, Apart
<1>4. Free
  <2>1. Handled("setup") /\ ~Hit(Head(events), "ctrl")
    BY <1>1, <1>2 DEF Setup, Hit
  <2>2. Count(events, "ctrl") = Count(<<>>, "ctrl") + 0
    BY <1>3, <2>1, HandledCount
  <2>3. Count(<<>>, "ctrl") = 0
    <3>1. Hits(<<>>, "ctrl") = {}
      BY DEF Hits
    <3> QED BY <3>1, FS_EmptySet DEF Count
  <2>4. Len(asked["ctrl"]) = 0
    BY <1>3, EmptySeq DEF Unheard
  <2> QED BY <2>2, <2>3, <2>4, FreeEmpty DEF Ctl, Free
<1>5. /\ Head(events).req = host.req /\ Head(events).seq = host.seq /\ Heard.seq = host.seq
      /\ asked["ctrl"] = <<>> /\ ~halted["ctrl"]
      /\ host.stage = IF host.req \in WithData THEN "data" ELSE "status"
  BY <1>3, Apart DEF Unheard, Heard, TypeOK, Drv
<1>6. drv.state # "lun_wait"
  <2>1. Head(events) # Done /\ ~Answering /\ ~HasData
    BY <1>3, Apart DEF Answering, HasData
  <2> QED BY <2>1 DEF LunState
<1>7. ASSUME NEW stage \in {"data", "status"}, host.stage = stage, ~halted'["ctrl"],
             asked'["ctrl"] = Append(asked["ctrl"], [stage |-> stage, seq |-> host.seq]),
             drv'.seq = host.seq, drv'.wait = stage,
             drv'.state = "lun" => drv.state = "lun",
             drv'.state = "lun_wait" => host.req = "maxlun"
      PROVE  Phase' /\ LunState'
  <2>1. asked'["ctrl"] = <<[stage |-> stage, seq |-> host.seq]>>
    BY <1>5, <1>7, Short
  <2>2. Answering'
    BY <1>2, <1>3, <1>7, <2>1 DEF Answering
  <2> QED BY <1>2, <1>7, <2>2 DEF Phase, LunState
<1>8. ASSUME asked' = asked, drv' = Heard PROVE Phase' /\ LunState'
  <2>1. Unanswered'
    BY <1>2, <1>3, <1>5, <1>8 DEF Unanswered, WithData
  <2>2. drv'.state = drv.state
    BY <1>8 DEF Heard, TypeOK, Drv
  <2> QED BY <1>2, <1>6, <2>1, <2>2 DEF Phase, LunState
<1>9. CASE SetAddress \/ SetInterface \/ ClearHalt \/ ResetBulk
  <2>1. host.req \notin WithData
    BY <1>5, <1>9 DEF SetAddress, SetInterface, ClearHalt, ResetBulk, Setup, WithData
  <2>2. ~halted'["ctrl"]
    BY <1>2, <1>9 DEF SetAddress, SetInterface, ClearHalt, ResetBulk, Unhalted, TypeOK
  <2>3. PICK d \in Drv : /\ IssueStatus(d) /\ d.seq = host.seq
                         /\ d.state \in {drv.state, "addressed_wait"}
    <3>1. Heard \in Drv /\ Heard.state = drv.state
      BY <1>1, SetupType DEF Heard, TypeOK, Drv
    <3>2. /\ [Heard EXCEPT !.state = "addressed_wait"] \in Drv
          /\ [Heard EXCEPT !.state = "addressed_wait"].seq = host.seq
          /\ [Heard EXCEPT !.state = "addressed_wait"].state = "addressed_wait"
          /\ [Heard EXCEPT !.reset = TRUE] \in Drv
          /\ [Heard EXCEPT !.reset = TRUE].seq = host.seq
          /\ [Heard EXCEPT !.reset = TRUE].state = drv.state
      BY <1>5, <3>1 DEF Drv, States
    <3> QED BY <1>5, <1>9, <3>1, <3>2 DEF SetAddress, SetInterface, ClearHalt, ResetBulk
  <2>4. /\ asked'["ctrl"] = Append(asked["ctrl"], [stage |-> "status", seq |-> host.seq])
        /\ drv'.seq = host.seq /\ drv'.wait = "status" /\ drv'.state = d.state
    BY <1>2, <1>4, <2>3 DEF IssueStatus, Posted, TypeOK, Drv
  <2> QED BY <1>5, <1>6, <1>7, <2>1, <2>2, <2>3, <2>4
<1>10. CASE SetConfiguration
  <2>1. host.req \notin WithData
    BY <1>5, <1>10 DEF SetConfiguration, Setup, WithData
  <2>2. ~halted'["ctrl"]
    BY <1>2, <1>10 DEF SetConfiguration
  <2>3. asked'["ctrl"] = Append(asked["ctrl"], [stage |-> "status", seq |-> host.seq])
    BY <1>2, <1>4, <1>5, <1>10 DEF SetConfiguration, Heard, TypeOK, Drv
  <2>4. drv'.seq = host.seq /\ drv'.wait = "status" /\ drv'.state = "configured_wait"
    BY <1>4, <1>5, <1>10 DEF SetConfiguration, Heard, TypeOK, Drv
  <2> QED BY <1>5, <1>7, <2>1, <2>2, <2>3, <2>4
<1>11. ~RemoveConfiguration
  BY <1>5 DEF RemoveConfiguration, Setup, HostInv, WithData
<1>12. CASE Describe \/ (GetMaxLun /\ drv.lunSet)
  <2>1. host.req \in WithData
    BY <1>5, <1>12 DEF Describe, GetMaxLun, Setup, WithData
  <2>2. ~halted'["ctrl"]
    BY <1>2, <1>12 DEF Describe, GetMaxLun, Unhalted, TypeOK
  <2>3. PICK d \in Drv : /\ IssueData(d) /\ d.seq = host.seq
                         /\ d.state = drv.state \/ (d.state = "lun_wait" /\ host.req = "maxlun")
    <3>1. Heard \in Drv /\ Heard.state = drv.state
      BY <1>1, SetupType DEF Heard, TypeOK, Drv
    <3>2. /\ [Heard EXCEPT !.state = "lun_wait"] \in Drv
          /\ [Heard EXCEPT !.state = "lun_wait"].seq = host.seq
          /\ [Heard EXCEPT !.state = "lun_wait"].state = "lun_wait"
      BY <1>5, <3>1 DEF Drv, States
    <3>3. GetMaxLun => host.req = "maxlun"
      BY <1>5 DEF GetMaxLun, Setup
    <3> QED BY <1>5, <1>12, <3>1, <3>2, <3>3 DEF Describe, GetMaxLun
  <2>4. /\ asked'["ctrl"] = Append(asked["ctrl"], [stage |-> "data", seq |-> host.seq])
        /\ drv'.seq = host.seq /\ drv'.wait = "data" /\ drv'.state = d.state
    BY <1>2, <1>4, <2>3 DEF IssueData, Posted, TypeOK, Drv
  <2> QED BY <1>5, <1>6, <1>7, <2>1, <2>2, <2>3, <2>4
<1>13. CASE Refuse \/ Ignore \/ (GetMaxLun /\ ~drv.lunSet)
  BY <1>8, <1>13 DEF Refuse, Ignore, GetMaxLun, NothingPosted
<1> QED BY <1>9, <1>10, <1>11, <1>12, <1>13 DEF HandleSetup

LEMMA LunInvStep == TypeOK /\ Ctl /\ HostInv /\ BulkInv /\ LunInv /\ [Next]_vars => LunInv'
<1> SUFFICES ASSUME TypeOK, Ctl, HostInv, BulkInv, LunInv, [Next]_vars, Calm'
             PROVE  IF Before' THEN Phase' /\ LunState' ELSE host'.luns = "told"
  BY DEF LunInv
<1>1. Calm /\ Once /\ Once'
  BY CalmBefore DEF Calm, Once
<1>2. CASE ~Before
  BY <1>1, <1>2, BeforeStep, ToldKept DEF LunInv
<1>3. CASE Before /\ ~Before'
  BY <1>1, <1>3, BeforeStep DEF LunInv, LunState, LunAsked, Outside
<1>4. CASE Before /\ Before'
  <2>1. Phase /\ LunState /\ pc # "session"
    BY <1>1, <1>4 DEF LunInv, HostInv
  <2>2. \A e \in Bulk : ~HandleBulk(e) /\ ~CarryBulk(e) /\ ~\E n \in {1, 2} : Start(e, n)
    BY <1>1, <1>4, NoTransfer
  <2>3. ~StartWrite /\ \A e \in Bulk : ~Transfer(e)
    BY <2>2 DEF StartWrite, Transfer
  <2>4. ~HandlePort
    <3> SUFFICES ASSUME HandlePort PROVE FALSE
      OBVIOUS
    <3>1. events # <<>> /\ Head(events).type = "port"
      BY DEF HandlePort, Handled
    <3> QED BY <2>1, <3>1, PhaseEvents, Apart
  <2>5. ~Abandon /\ ~PortReset
    BY <1>1 DEF Abandon, PortReset, Upset, Calm
  <2>6. CASE \/ UNCHANGED vars \/ Poll \/ TimeOut \/ Acknowledge \/ Enumerated
             \/ EnumerationFailed \/ Waiting \/ End \/ TransferReturns
    <3>1. UNCHANGED <<asked, halted, events, host>>
      BY <2>6 DEF vars, Poll, TimeOut, Acknowledge, Enumerated, EnumerationFailed, Waiting, End,
                  TransferReturns, quiet, Outside
    <3>2. drv'.wait = drv.wait /\ drv'.seq = drv.seq /\ drv'.state = drv.state
      BY <2>6 DEF vars, device, Poll, TimeOut, Acknowledge, Enumerated, EnumerationFailed,
                  Waiting, End, TransferReturns, TypeOK, Drv
    <3> QED BY <1>4, <2>1, <3>1, <3>2, PhaseFrame
  <2>7. ~LunAsked /\ ~Finish /\ ~TakeReset
    BY <1>4, <2>1 DEF LunAsked, Finish, TakeReset, Before
  <2>8. CASE Enumerate \/ AskOther
    BY <1>1, <1>4, <2>1, <2>8, PhaseAsk
  <2>9. CASE SeeStall
    BY <1>4, <2>1, <2>9, PhaseStall
  <2>10. CASE CarryControl
    BY <1>1, <1>4, <2>1, <2>10, PhaseCarry
  <2>11. CASE HandleControl
    BY <1>4, <2>1, <2>11, PhaseHandle
  <2>12. CASE HandleSetup
    BY <1>1, <1>4, <2>1, <2>12, PhaseSetup
  <2> QED BY <1>4, <2>2, <2>3, <2>4, <2>5, <2>6, <2>7, <2>8, <2>9, <2>10, <2>11, <2>12
          DEF Next, Driver, Control
<1> QED BY <1>2, <1>3, <1>4

\* A session starts only when the host was told how many volumes there are, if
\* it completes what it asks: the driver goes by the state that the status of
\* that request brings about, over any number of polls and time-outs
\* (xusb_device_class_send_max_lun).
THEOREM LunToldHolds == Spec => []LunTold
<1> DEFINE J == TypeOK /\ Ctl /\ HostInv /\ BulkInv /\ LunInv
<1>1. Init => J
  BY InitType, CtlInit, HostInvInit, BulkInvInit, PhaseInit
<1>2. J /\ [Next]_vars => J'
  BY StepType, CtlStep, HostInvStep, BulkInvStep, LunInvStep
<1>3. J => LunTold
  BY DEF LunInv, LunTold, Before, Calm
<1> QED BY <1>1, <1>2, <1>3, PTL DEF Spec

-----------------------------------------------------------------------------
(* What a transfer reports.                                                *)

\* The count is of all that is on the ring, until a transfer is given up.
CountInv ==
  Once => \A e \in Bulk : ~gaveUp[e] => tx[e] >= Len(asked[e]) + Count(events, e)

\* Only writing has a finish.
FinishInv == call = "finish" => "in" \in Bulk

LEMMA FinishInvStep == TypeOK /\ FinishInv /\ [Next]_vars => FinishInv'
<1> SUFFICES ASSUME FinishInv, [Next]_vars, call' = "finish" PROVE "in" \in Bulk
  BY DEF FinishInv
<1>1. CASE UNCHANGED call
  BY <1>1 DEF FinishInv
<1>2. CASE Enumerated \/ LunAsked \/ TransferReturns \/ \E e \in Bulk : Transfer(e)
  BY <1>2, XusbdAssumption DEF FinishInv, Enumerated, LunAsked, TransferReturns, Transfer
<1>3. CASE Finish
  BY <1>3, XusbdAssumption DEF Finish
<1> QED BY <1>1, <1>2, <1>3 DEF Next, Driver, Control, vars, device, Poll, TimeOut, HandlePort,
           HandleControl, HandleBulk, HandleSetup, Handled, Setup, SetAddress,
           SetConfiguration, RemoveConfiguration, Describe, SetInterface, ClearHalt, ResetBulk,
           GetMaxLun, Refuse, Ignore, Acknowledge, EnumerationFailed, Waiting, StartWrite,
           Start, TakeReset, End, CarryControl, SeeStall, Enumerate, AskOther, Ask, CarryBulk,
           Abandon, PortReset

LEMMA CountInvInit == Init => CountInv
<1> SUFFICES ASSUME Init, NEW e \in Bulk PROVE tx[e] >= Len(asked[e]) + Count(events, e)
  BY DEF CountInv
<1>1. e \in Ep /\ asked[e] = <<>> /\ events = <<>> /\ tx[e] = 0
  BY DEF Init, Ep
<1>2. Hits(<<>>, e) = {}
  BY DEF Hits
<1>3. Count(events, e) = 0 /\ Len(asked[e]) = 0
  BY <1>1, <1>2, FS_EmptySet, EmptySeq DEF Count
<1> QED BY <1>1, <1>3

LEMMA CountInvStep == TypeOK /\ BulkInv /\ CountInv /\ [Next]_vars => CountInv'
<1> SUFFICES ASSUME TypeOK, BulkInv, CountInv, [Next]_vars, Once', NEW e \in Bulk, ~gaveUp'[e]
             PROVE  tx'[e] >= Len(asked'[e]) + Count(events', e)
  BY DEF CountInv
<1> DEFINE n == Len(asked[e])
           u == Count(events, e)
<1>1. Once /\ tx \in [Bulk -> 0 .. 2] /\ tx[e] \in 0 .. 2 /\ gaveUp \in [Bulk -> BOOLEAN]
  BY OnceBefore DEF TypeOK
<1>2. e \in Ep /\ asked[e] \in Seq(Posting) /\ n \in Nat /\ u \in Nat
  BY BulkNumbers
<1>3. ~gaveUp[e] => tx[e] >= n + u
  BY <1>1 DEF CountInv
<1>4. ASSUME ~HandleBulk(e), ~\E m \in {1, 2} : Start(e, m)
      PROVE  tx'[e] = tx[e] /\ gaveUp'[e] = gaveUp[e]
  <2>1. CASE \E d \in Bulk : HandleBulk(d)
    BY <1>1, <1>4, <2>1 DEF HandleBulk, Completed, Handled
  <2>2. CASE StartWrite \/ \E d \in Bulk : Transfer(d)
    <3>1. PICK d \in Bulk, m \in {1, 2} : Start(d, m)
      BY <2>2 DEF StartWrite, Transfer
    <3>2. d # e
      BY <1>4, <3>1
    <3> QED BY <1>1, <3>1, <3>2 DEF Start
  <2>3. CASE UNCHANGED <<tx, gaveUp>>
    BY <2>3
  <2> QED BY <2>1, <2>2, <2>3 DEF Next, Driver, Control, vars, device, Poll, TimeOut, HandlePort,
             HandleControl, HandleSetup, Handled, Setup, SetAddress,
             SetConfiguration, RemoveConfiguration, Describe, SetInterface, ClearHalt, ResetBulk,
             GetMaxLun, Refuse, Ignore, Acknowledge, Enumerated, EnumerationFailed, LunAsked,
             Waiting, Finish, TransferReturns, TakeReset, End, CarryControl, SeeStall,
             Enumerate, AskOther, Ask, CarryBulk, Abandon, PortReset
<1>5. CASE Alone(e) /\ ~HandleBulk(e) /\ ~\E m \in {1, 2} : Start(e, m)
  BY <1>3, <1>4, <1>5 DEF Alone
<1>6. CASE SetConfiguration
  <2>1. tx' = tx /\ gaveUp' = gaveUp
    BY <1>6 DEF SetConfiguration, Setup, Handled
  <2> QED BY <1>1, <1>3, <1>6, <2>1, FirstConfiguration
<1>7. CASE HandleBulk(e)
  <2>1. Handled("transfer") /\ Hit(Head(events), e) /\ gaveUp' = gaveUp
    BY <1>7 DEF HandleBulk, Handled, Hit
  <2>2. u = Count(events', e) + 1
    BY <2>1, HandledCount
  <2>3. Count(events', e) \in Nat
    BY <2>1, HandledType, HitsFinite
  <2>4. asked'[e] = asked[e] /\ (tx'[e] = tx[e] \/ tx'[e] = IF tx[e] > 0 THEN tx[e] - 1 ELSE 0)
    BY <1>1, <1>7 DEF HandleBulk, Completed
  <2>5. tx[e] >= n + u
    BY <1>3, <2>1
  <2> HIDE DEF n, u
  <2>6. tx'[e] >= n + Count(events', e)
    BY <1>1, <1>2, <2>2, <2>3, <2>4, <2>5, SMT
  <2> QED BY <2>4, <2>6 DEF n
<1>8. CASE CarryBulk(e)
  <2>1. HasTrb(ring[e])
    BY <1>8 DEF CarryBulk, Carry
  <2>2. n > 0
    BY <1>1, <2>1, FetchedInv DEF BulkInv
  <2>3. asked[e] # <<>>
    BY <2>2, EmptySeq, SMT
  <2>4. asked'[e] = Tail(asked[e])
    BY <1>2, <1>8, <2>3 DEF CarryBulk, TypeOK
  <2>5. Len(asked'[e]) = n - 1
    BY <1>2, <2>3, <2>4, HeadTailProperties
  <2>6. Count(events', e) = u + 1
    <3>1. PICK code \in Codes : Report(Completion(e, code))
      BY <1>8 DEF CarryBulk, Failures, Codes
    <3>2. Completion(e, code) \in Event /\ Hit(Completion(e, code), e)
      BY <1>2 DEF Completion, Event, Codes, Hit
    <3> QED BY <3>1, <3>2, ReportCount
  <2>7. tx' = tx /\ gaveUp' = gaveUp
    BY <1>8 DEF CarryBulk, device
  <2>8. tx[e] >= n + u
    BY <1>3, <2>7
  <2> HIDE DEF n, u
  <2> QED BY <1>1, <1>2, <2>5, <2>6, <2>7, <2>8, SMT
<1>9. ASSUME NEW m \in {1, 2}, Start(e, m)
      PROVE  tx'[e] >= Len(asked'[e]) + Count(events', e)
  <2>1. tx'[e] = m /\ tx[e] = 0 /\ ~gaveUp[e] /\ events' = events
    <3>1. tx'[e] = m /\ events' = events
      BY <1>1, <1>9 DEF Start
    <3>2. gaveUp'[e] = (gaveUp[e] \/ tx[e] > 0)
      BY <1>1, <1>9, ZenonT(30) DEF Start
    <3>3. ~gaveUp[e] /\ ~(tx[e] > 0)
      BY <3>2
    <3>4. tx[e] = 0
      BY <1>1, <3>3, SMT
    <3> QED BY <3>1, <3>3, <3>4
  <2>2. n = 0 /\ u = 0
    BY <1>2, <1>3, <2>1, SMT
  <2>3. asked'[e] = asked[e] \o [i \in 1 .. m |-> [stage |-> "bulk"]]
    BY <1>2, <1>9 DEF Start, TypeOK
  <2>4. Len(asked'[e]) = n + m
    BY <1>2, <2>3, BatchLen
  <2> QED BY <2>1, <2>2, <2>4, SMT
<1> QED BY <1>5, <1>6, <1>7, <1>8, <1>9, BulkStep

\* A transfer that reports success has nothing left on its ring, unless it was
\* started while an earlier one was awaited, for any number of slots and
\* whatever comes between its events (xusb_device_ep1_out_read, ..._in_write,
\* ..._finish).
THEOREM OkMeansDoneHolds == Spec => OkMeansDone
<1> DEFINE J == TypeOK /\ HostInv /\ BulkInv /\ CountInv /\ FinishInv
           A == call' = "none" /\ call \in Bulk \cup {"finish"} /\ res = "ok" =>
                  (Once /\ ~gaveUp[Way(call)] => asked[Way(call)] = <<>>)
<1>1. Init => J
  BY InitType, HostInvInit, BulkInvInit, CountInvInit DEF Init, FinishInv
<1>2. J /\ [Next]_vars => J'
  BY StepType, HostInvStep, BulkInvStep, CountInvStep, FinishInvStep
<1>3. J /\ [Next]_vars => [A]_vars
  <2> SUFFICES ASSUME J, Next, call' = "none", call \in Bulk \cup {"finish"}, res = "ok",
                      Once, ~gaveUp[Way(call)], vars' # vars
               PROVE  asked[Way(call)] = <<>>
    OBVIOUS
  <2>1. "none" \notin Bulk \cup {"finish"}
    BY XusbdAssumption
  <2>2. TransferReturns
    <3>1. CASE UNCHANGED call
      BY <2>1, <3>1
    <3>2. CASE Enumerated \/ LunAsked \/ Finish \/ \E e \in Bulk : Transfer(e)
      <4>1. "enumerate" \notin Bulk \cup {"finish"} /\ "lun" \notin Bulk \cup {"finish"}
        BY XusbdAssumption
      <4> QED BY <2>1, <3>2, <4>1 DEF Enumerated, LunAsked, Finish, Transfer
    <3> QED BY <3>1, <3>2 DEF Next, Driver, Control, device, Poll, TimeOut, HandlePort,
               HandleControl, HandleBulk, HandleSetup, Handled, Setup, SetAddress,
               SetConfiguration, RemoveConfiguration, Describe, SetInterface, ClearHalt,
               ResetBulk, GetMaxLun, Refuse, Ignore, Acknowledge, EnumerationFailed, Waiting,
               StartWrite, Start, TakeReset, End, CarryControl, SeeStall, Enumerate,
               AskOther, Ask, CarryBulk, Abandon, PortReset
  <2> DEFINE e == Way(call)
  <2>3. tx[e] \in 0 .. 2 => tx[e] = 0
    BY <2>1, <2>2, SMT DEF TransferReturns
  <2>4. e \in Bulk
    BY DEF FinishInv, Way
  <2>5. tx[e] = 0 /\ tx[e] >= Len(asked[e]) + Count(events, e)
    BY <2>3, <2>4 DEF TypeOK, CountInv
  <2>6. asked[e] \in Seq(Posting) /\ Len(asked[e]) \in Nat /\ Count(events, e) \in Nat
    BY <2>4, BulkNumbers
  <2>7. Len(asked[e]) = 0
    BY <2>5, <2>6, SMT
  <2> QED BY <2>6, <2>7, EmptySeq
<1> QED BY <1>1, <1>2, <1>3, PTL DEF Spec, OkMeansDone
=============================================================================
