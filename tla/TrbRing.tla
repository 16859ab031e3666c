------------------------------ MODULE TrbRing ------------------------------
(***************************************************************************)
(* The ring of transfer requests (TRBs) of an endpoint, bdk/usb/xusbd.c.   *)
(*                                                                         *)
(* The driver puts requests in at enq, the controller carries them out     *)
(* from `at` on, the driver follows with deq as their events come in.      *)
(* There is no count: a request is the controller's when its cycle bit is  *)
(* the one the controller expects, and both turn the bit over whenever     *)
(* they pass the link in the last slot.  What a request asks for is kept   *)
(* by the module that uses the ring.                                       *)
(***************************************************************************)
EXTENDS Integers

CONSTANT Slots    \* XUSB_TRB_SLOTS

ASSUME SlotsAssumption == Slots \in Nat /\ Slots >= 3

Link == Slots - 1    \* XUSB_LINK_TRB_IDX
Slot == 0 .. Link - 1
Bit == {0, 1}

(* cycle: the bits in memory; enq, pcs, deq: the driver's pointers and     *)
(* producer cycle; at, ccs: the controller's.                              *)
Ring == [cycle : [0 .. Link -> Bit], enq : Slot, pcs : Bit, deq : Slot,
         at : 0 .. Link, ccs : Bit]

Following(i) == IF i + 1 = Link THEN 0 ELSE i + 1

\* xusb_device_init clears the memory of the rings.
Cleared == [i \in 0 .. Link |-> 0]

\* _xusb_ep_init_context: the pointers and cycles, not the memory; the
\* controller takes them over when it reloads the endpoint.
Initialized(cycle) ==
  [cycle |-> cycle, enq |-> 0, pcs |-> 1, deq |-> 0, at |-> 0, ccs |-> 1]

\* Seeded fault: the cycle is not turned over at the link.
Queued_NoToggle(r) ==
  [r EXCEPT !.cycle = [@ EXCEPT ![r.enq] = r.pcs], !.enq = Following(@)]

\* _xusb_queue_trb.
Queued(r) ==
  LET wraps == r.enq + 1 = Link
      written == [r.cycle EXCEPT ![r.enq] = r.pcs]
  IN  [r EXCEPT !.cycle = IF wraps THEN [written EXCEPT ![Link] = r.pcs] ELSE written,
                !.pcs = IF wraps THEN 1 - @ ELSE @,
                !.enq = Following(@)]

\* The first half of _xusb_handle_transfer_event.
Dequeued(r) == [r EXCEPT !.deq = Following(@)]

\* The controller passes a link that has its cycle.
Jumps(r) == r.at = Link /\ r.cycle[Link] = r.ccs
At(r) == IF Jumps(r) THEN 0 ELSE r.at
Ccs(r) == IF Jumps(r) THEN 1 - r.ccs ELSE r.ccs

\* There is a request for it; it has carried it out.
HasTrb(r) == At(r) # Link /\ r.cycle[At(r)] = Ccs(r)
Fetched(r) == [r EXCEPT !.at = At(r) + 1, !.ccs = Ccs(r)]

\* The request j places on is, by its bit, the controller's.
Owned(r, j) ==
  LET i == At(r) + j
  IN  IF i < Link THEN r.cycle[i] = Ccs(r) ELSE r.cycle[i - Link] = 1 - Ccs(r)

\* By the bits the controller has the next `posted` requests and no other, and
\* the driver is `done` requests behind it.
Agrees(r, posted, done) ==
  /\ At(r) \in Slot
  /\ {j \in Slot : Owned(r, j)} = 0 .. posted - 1
  /\ r.deq + done \in {At(r), At(r) + Link}
=============================================================================
