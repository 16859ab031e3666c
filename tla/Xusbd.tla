------------------------------- MODULE Xusbd -------------------------------
(***************************************************************************)
(* The USB device controller driver, bdk/usb/xusbd.c, from the enumeration *)
(* by the host to the transfers of a session: the rings of the endpoints,  *)
(* the ring of events, the requests of the host on endpoint 0 and the      *)
(* waits in which all of it happens (_xusb_ep_operation).                  *)
(*                                                                         *)
(* The controller and the host are external.  The controller reports       *)
(* everything with an event; it reports a request on endpoint 0 that       *)
(* belongs to an older SETUP as an error of its sequence number.           *)
(***************************************************************************)
EXTENDS TrbRing, Sequences, FiniteSets

CONSTANTS
  Segment,   \* XUSB_TRB_SLOTS too: of the two segments of the event ring
  Seqs,      \* bound: values of ctrl_seq_num, 2^16 in the controller
  Bulk,      \* the bulk endpoints, of "in" and "out"
  Requests,  \* bound: what the host asks on endpoint 0
  Upsets,    \* bound: what goes wrong, each at most once,
  MaxUpsets  \* and how many in one behaviour

Ep == Bulk \cup {"ctrl"}

\* What is posted on a ring.
Posting == [stage : {"data", "status"}, seq : 0 .. Seqs - 1] \cup [stage : {"bulk"}]

(* The requests by what the driver does with them:                         *)
(*   address, configure, deconfigure, maxlun    one each                   *)
(*   descriptor   all that are answered with data of the driver            *)
(*   interface    all to an interface                                      *)
(*   clear        CLEAR_FEATURE of the halt of a bulk endpoint             *)
(*   bulkreset    the reset of mass storage                                *)
(*   unknown      all that are stalled                                     *)
(*   device       the other ones to the device, for which nothing is done  *)
Request == {"address", "configure", "deconfigure", "maxlun", "descriptor", "interface",
            "clear", "bulkreset", "unknown", "device"}
WithData == {"maxlun", "descriptor", "unknown"}

ASSUME XusbdAssumption ==
  /\ Bulk \subseteq {"in", "out"} /\ Requests \subseteq Request
  /\ Upsets \subseteq {"abandon", "reset", "deconfigure", "bulkreset", "babble", "residue", "error"}
  /\ MaxUpsets \in Nat /\ {Segment, Seqs} \subseteq Nat \ {0, 1}

VARIABLES
  ring,    \* of each endpoint
  asked,   \* the requests on it, in order, the controller has not carried out
  rung,    \* the doorbell of an endpoint was rung since it was loaded
  halted,  \* EP_HALT, and a bulk endpoint that was never initialised
  ering,   \* the ring of events
  events,  \* the events on it, in order, the driver has not handled
  drv,     \* usbd_xotg
  tx,      \* tx_count of the bulk endpoints
  pc,      \* where the driver is in _xusb_ep_operation or outside it
  call,    \* who called it
  snap,    \* event_enqueue_ptr
  res,     \* its result
  gaveUp,  \* bulk endpoints given a transfer while an earlier one was awaited
  host,
  upsets   \* bound: what went wrong so far

device == <<drv, tx, pc, call, snap, res, gaveUp>>
vars == <<ring, asked, rung, halted, ering, events, device, host, upsets>>

States == {"default", "addressed_wait", "addressed", "configured_wait", "configured",
           "lun_wait", "lun"}
Drv ==
  [state : States, wait : {"setup", "data", "status", "normal"}, seq : 0 .. Seqs - 1,
   lunSet : BOOLEAN, reset : BOOLEAN]

\* What the host waits for and knows.
Host ==
  [stage : {"idle", "data", "status"}, req : Request, seq : 0 .. Seqs - 1,
   view : {"default", "addressed", "configured"}, luns : {"unknown", "told", "refused"}]

\* The event ring is two segments one after the other; it has no link.
LastEvent == 2 * Segment - 1
NextEvent(i) == IF i = LastEvent THEN 0 ELSE i + 1
EventRing ==
  [cycle : [0 .. LastEvent -> Bit], enq : 0 .. LastEvent, pcs : Bit,
   deq : 0 .. LastEvent, ccs : Bit, erdp : 0 .. LastEvent, ip : BOOLEAN, busy : BOOLEAN]

Upset(kind) ==
  kind \in Upsets \ upsets /\ Cardinality(upsets) < MaxUpsets /\ upsets' = upsets \cup {kind}

\* xusb_device_init and the start of xusb_device_enumerate.
Init ==
  /\ ring = [e \in Ep |-> Initialized(Cleared)]
  /\ asked = [e \in Ep |-> <<>>]
  /\ rung = [e \in Ep |-> FALSE] /\ halted = [e \in Ep |-> e # "ctrl"]
  /\ ering = [cycle |-> [i \in 0 .. LastEvent |-> 0], enq |-> 0, pcs |-> 1,
              deq |-> 0, ccs |-> 1, erdp |-> 0, ip |-> FALSE, busy |-> FALSE]
  /\ events = <<>>
  /\ drv = [state |-> "default", wait |-> "setup", seq |-> 0, lunSet |-> FALSE, reset |-> FALSE]
  /\ tx = [e \in Bulk |-> 0]
  /\ pc = "poll" /\ call = "enumerate" /\ snap = 0 /\ res = "ok"
  /\ gaveUp = [e \in Bulk |-> FALSE]
  /\ host = [stage |-> "idle", req |-> "descriptor", seq |-> 0,
             view |-> "default", luns |-> "unknown"]
  /\ upsets = {}

-----------------------------------------------------------------------------
(* The controller and the host.                                            *)

\* An event is reported and, unless the driver is at it already, signalled.
\* The controller waits when the ring is full up to the driver's ERDP.
Report(e) ==
  /\ NextEvent(ering.enq) # ering.erdp
  /\ events' = Append(events, e)
  /\ ering' = [ering EXCEPT !.cycle[ering.enq] = ering.pcs,
                            !.enq = NextEvent(@),
                            !.pcs = IF ering.enq = LastEvent THEN 1 - @ ELSE @,
                            !.ip = @ \/ ~ering.busy, !.busy = TRUE]

\* Completion codes by what the driver does about them: a residue is a success
\* with bytes of a transfer to the host left over, an error any other failure.
Codes == {"ok", "sequence", "babble", "residue", "error"}

Event ==
  [type : {"setup"}, req : Request, seq : 0 .. Seqs - 1] \cup [type : {"port"}]
    \cup [type : {"transfer"}, ep : Ep, code : Codes]

Completion(e, code) == [type |-> "transfer", ep |-> e, code |-> code]

\* The events of endpoint e that the driver has not handled.
Unhandled(e) == Cardinality({i \in DOMAIN events : events[i].type = "transfer" /\ events[i].ep = e})

Carry(e) == rung[e] /\ HasTrb(ring[e]) /\ ring' = [ring EXCEPT ![e] = Fetched(@)]

\* The host asks; the controller takes a SETUP even on a halted endpoint.
Ask(req) ==
  /\ host.stage = "idle" /\ req \in Requests
  /\ Report([type |-> "setup", req |-> req, seq |-> (host.seq + 1) % Seqs])
  /\ host' = [host EXCEPT !.stage = IF req \in WithData THEN "data" ELSE "status",
                          !.req = req, !.seq = (@ + 1) % Seqs]
  /\ halted' = [halted EXCEPT !["ctrl"] = FALSE]
  /\ UNCHANGED <<ring, asked, rung, device>>

\* What the host does first, in this order.
Enumerate ==
  /\ \/ host.view = "default" /\ Ask("address")
     \/ host.view = "addressed" /\ Ask("configure")
     \/ host.view = "configured" /\ host.luns = "unknown" /\ Ask("maxlun")
  /\ UNCHANGED upsets

\* What it may ask besides: to clear a halt that it has seen.
AskOther ==
  \/ \E req \in {"descriptor", "interface", "unknown", "device"} :
       Ask(req) /\ UNCHANGED upsets
  \/ /\ host.view = "configured" /\ host.luns # "unknown"
     /\ \/ (\E e \in Bulk : halted[e]) /\ Ask("clear") /\ UNCHANGED upsets
        \/ \E req \in {"deconfigure", "bulkreset"} : Upset(req) /\ Ask(req)

\* The host asks nothing; what it asked last does not matter.
Idle == [host EXCEPT !.stage = "idle", !.req = "descriptor"]

\* The host after the status of what it asked.
Settled ==
  CASE host.req = "address" -> [Idle EXCEPT !.view = "addressed"]
    [] host.req = "configure" -> [Idle EXCEPT !.view = "configured"]
    [] host.req = "deconfigure" -> [Idle EXCEPT !.view = "addressed", !.luns = "unknown"]
    [] host.req = "maxlun" -> [Idle EXCEPT !.luns = "told"]
    [] OTHER -> Idle

\* A request of the driver on endpoint 0 is for an older SETUP, or is what the
\* host waits for.
CarryControl ==
  /\ Carry("ctrl") /\ asked["ctrl"] # <<>>
  /\ LET a == Head(asked["ctrl"]) IN
     IF a.seq # host.seq
     THEN Report(Completion("ctrl", "sequence")) /\ UNCHANGED host
     ELSE /\ a.stage = host.stage
          /\ Report(Completion("ctrl", "ok"))
          /\ host' = IF a.stage = "data" THEN [host EXCEPT !.stage = "status"] ELSE Settled
  /\ asked' = [asked EXCEPT !["ctrl"] = Tail(@)]
  /\ UNCHANGED <<rung, halted, device, upsets>>

\* The host sees the stall of what it asked.
SeeStall ==
  /\ host.stage # "idle" /\ halted["ctrl"]
  /\ host' = IF host.req = "maxlun" THEN [Idle EXCEPT !.luns = "refused"] ELSE Idle
  /\ UNCHANGED <<ring, asked, rung, halted, ering, events, device, upsets>>

\* What can become of a bulk transfer besides success.
Failures(e) == {"error", IF e = "out" THEN "babble" ELSE "residue"}

\* A bulk transfer: whatever the ring holds that looks like a request.
CarryBulk(e) ==
  /\ ~halted[e] /\ host.view = "configured" /\ host.luns # "unknown"
  /\ Carry(e)
  /\ asked' = [asked EXCEPT ![e] = IF @ = <<>> THEN @ ELSE Tail(@)]
  /\ \/ Report(Completion(e, "ok")) /\ UNCHANGED upsets
     \/ \E code \in Failures(e) : Upset(code) /\ Report(Completion(e, code))
  /\ UNCHANGED <<rung, halted, device, host>>

\* The host gives up what it asked.
Abandon ==
  /\ host.stage # "idle" /\ Upset("abandon")
  /\ host' = Idle
  /\ UNCHANGED <<ring, asked, rung, halted, ering, events, device>>

\* The host resets the port and starts over.
PortReset ==
  /\ Upset("reset") /\ Report([type |-> "port"])
  /\ host' = [Idle EXCEPT !.view = "default", !.luns = "unknown"]
  /\ UNCHANGED <<ring, asked, rung, halted, device>>

-----------------------------------------------------------------------------
(* Requests of the driver.                                                 *)

Posted(e, what) ==
  /\ ring' = [ring EXCEPT ![e] = Queued(@)]
  /\ asked' = [asked EXCEPT ![e] = Append(@, what)]
  /\ rung' = [rung EXCEPT ![e] = TRUE]

NothingPosted == UNCHANGED <<ring, asked, rung>>

\* No request on endpoint 0 waits for its event.
Free == ring["ctrl"].enq = ring["ctrl"].deq

\* _xusb_issue_data_trb and _xusb_issue_status_trb: when another request waits
\* for its event nothing is posted, and nobody is told.
IssueData(d) ==
  IF Free THEN /\ Posted("ctrl", [stage |-> "data", seq |-> d.seq])
               /\ drv' = [d EXCEPT !.wait = "data"]
          ELSE NothingPosted /\ drv' = d

IssueStatus(d) ==
  IF Free THEN /\ Posted("ctrl", [stage |-> "status", seq |-> d.seq])
               /\ drv' = [d EXCEPT !.wait = "status"]
          ELSE NothingPosted /\ drv' = d

-----------------------------------------------------------------------------
(* _xusb_ep_operation.                                                     *)

Outside == UNCHANGED <<host, upsets>>

\* The interrupt is acknowledged and the ring looked at.
Poll ==
  /\ pc = "poll" /\ ering.ip
  /\ ering' = [ering EXCEPT !.ip = FALSE]
  /\ snap' = ering.enq
  /\ IF ering.cycle[ering.deq] = ering.ccs
     THEN pc' = "handle" /\ UNCHANGED res
     ELSE pc' = "return" /\ res' = "cycle"
  /\ UNCHANGED <<ring, asked, rung, halted, events, drv, tx, call, gaveUp>> /\ Outside

\* No interrupt in time.  The wait of a finish has no end.  Bound: not while a
\* ring has no room for another request.
TimeOut ==
  /\ pc = "poll" /\ ~ering.ip /\ call # "finish"
  /\ call \in Bulk => Len(asked[call]) + Unhandled(call) < Link - 1
  /\ pc' = "return" /\ res' = "timeout"
  /\ UNCHANGED <<ring, asked, rung, halted, ering, events, drv, tx, call, snap, gaveUp>>
  /\ Outside

\* Seeded fault: the cycle is turned over after each segment.
Advance_Segment ==
  LET deq == NextEvent(ering.deq)
      ccs == IF deq \in {0, Segment} THEN 1 - ering.ccs ELSE ering.ccs
  IN  /\ ering' = [ering EXCEPT !.deq = deq, !.ccs = ccs]
      /\ pc' = IF deq # snap /\ ering.cycle[deq] = ccs THEN "handle" ELSE "acknowledge"

\* The dequeue pointer goes on, up to what the ring held when it was looked at.
Advance ==
  LET deq == NextEvent(ering.deq)
      ccs == IF ering.deq = LastEvent THEN 1 - ering.ccs ELSE ering.ccs
  IN  /\ ering' = [ering EXCEPT !.deq = deq, !.ccs = ccs]
      /\ pc' = IF deq # snap /\ ering.cycle[deq] = ccs THEN "handle" ELSE "acknowledge"

Handled(type) ==
  /\ pc = "handle" /\ events # <<>> /\ Head(events).type = type
  /\ events' = Tail(events) /\ Advance
  /\ UNCHANGED <<call, snap, gaveUp>> /\ Outside

\* _xusb_handle_port_change: what it clears is not looked at again.  The port
\* may show a configuration error of the link besides.
HandlePort ==
  /\ Handled("port") /\ res' \in {"ok", "port"}
  /\ UNCHANGED <<ring, asked, rung, halted, drv, tx>>

\* Seeded fault: the state after the number of volumes is forgotten.
Reached_NoLun(state) ==
  CASE state = "addressed_wait" -> "addressed"
    [] state = "configured_wait" -> "configured"
    [] OTHER -> state

\* The state that a status brings about.
Reached(state) ==
  CASE state = "addressed_wait" -> "addressed"
    [] state = "configured_wait" -> "configured"
    [] state = "lun_wait" -> "lun"
    [] OTHER -> state

\* _xusb_handle_transfer_event for endpoint 0.
HandleControl ==
  /\ Handled("transfer") /\ Head(events).ep = "ctrl"
  /\ LET code == Head(events).code IN
     IF code = "ok" /\ drv.wait = "data"
     THEN \* The status is for the host to send: it is posted in any case.
          /\ ring' = [ring EXCEPT !["ctrl"] = Queued(Dequeued(@))]
          /\ asked' = [asked EXCEPT !["ctrl"] = Append(@, [stage |-> "status", seq |-> drv.seq])]
          /\ rung' = [rung EXCEPT !["ctrl"] = TRUE]
          /\ drv' = [drv EXCEPT !.wait = "status"]
     ELSE /\ ring' = [ring EXCEPT !["ctrl"] = Dequeued(@)]
          /\ drv' = IF code = "ok" /\ drv.wait = "status"
                    THEN [drv EXCEPT !.state = Reached(@)] ELSE drv
          /\ UNCHANGED <<asked, rung>>
  /\ res' = Head(events).code
  /\ UNCHANGED <<halted, tx>>

\* The count and the halt after a transfer of bulk endpoint e: one that babbled
\* halts its endpoint, one with a residue is counted down, an error does neither.
Completed(e, code) ==
  /\ tx' = IF code \in {"ok", "residue"} THEN [tx EXCEPT ![e] = IF @ > 0 THEN @ - 1 ELSE 0]
                                       ELSE tx
  /\ halted' = IF code = "babble" THEN [halted EXCEPT ![e] = TRUE] ELSE halted

\* Seeded fault: the dequeue pointer passes only a transfer that succeeded.
HandleBulk_Error(e) ==
  /\ Handled("transfer") /\ Head(events).ep = e
  /\ ring' = IF Head(events).code = "ok" THEN [ring EXCEPT ![e] = Dequeued(@)] ELSE ring
  /\ Completed(e, Head(events).code)
  /\ res' = Head(events).code
  /\ UNCHANGED <<asked, rung, drv>>

\* The same for a bulk endpoint.
HandleBulk(e) ==
  /\ Handled("transfer") /\ Head(events).ep = e
  /\ ring' = [ring EXCEPT ![e] = Dequeued(@)]
  /\ Completed(e, Head(events).code)
  /\ res' = Head(events).code
  /\ UNCHANGED <<asked, rung, drv>>

-----------------------------------------------------------------------------
(* _xusbd_handle_ep0_control_transfer.                                     *)

\* A SETUP for one of reqs: its number is kept for the doorbell.
Setup(reqs) == Handled("setup") /\ Head(events).req \in reqs /\ res' = "ok" /\ UNCHANGED tx
Heard == [drv EXCEPT !.seq = Head(events).seq]

\* Endpoint 0 is no longer halted.
Unhalted == halted' = [halted EXCEPT !["ctrl"] = FALSE]
Stall == halted' = [halted EXCEPT !["ctrl"] = TRUE]

SetAddress ==
  /\ Setup({"address"}) /\ Unhalted
  /\ IssueStatus([Heard EXCEPT !.state = "addressed_wait"])

\* The bulk endpoints are initialised, then loaded by the controller.
SetConfiguration ==
  /\ Setup({"configure"})
  /\ halted' = [e \in Ep |-> FALSE]
  /\ LET d == [Heard EXCEPT !.state = "configured_wait"]
         new == [e \in Ep |-> IF e \in Bulk THEN Initialized(ring[e].cycle) ELSE ring[e]]
         none == [e \in Ep |-> IF e \in Bulk THEN <<>> ELSE asked[e]]
     IN  /\ drv' = IF Free THEN [d EXCEPT !.wait = "status"] ELSE d
         /\ ring' = IF Free THEN [new EXCEPT !["ctrl"] = Queued(@)] ELSE new
         /\ asked' = IF Free THEN [none EXCEPT !["ctrl"] = Append(@, [stage |-> "status", seq |-> d.seq])]
                             ELSE none
         /\ rung' = [e \in Ep |-> e = "ctrl" /\ (Free \/ rung[e])]

\* _xusb_disable_ep1.
RemoveConfiguration ==
  /\ Setup({"deconfigure"})
  /\ halted' = [e \in Ep |-> e \in Bulk]
  /\ IssueStatus([Heard EXCEPT !.lunSet = FALSE, !.state = "default"])

Describe == Setup({"descriptor"}) /\ Unhalted /\ IssueData(Heard)

SetInterface == Setup({"interface"}) /\ Unhalted /\ IssueStatus(Heard)

ClearHalt ==
  /\ Setup({"clear"})
  /\ \E e \in Bulk : halted' = [halted EXCEPT ![e] = FALSE, !["ctrl"] = FALSE]
  /\ IssueStatus(Heard)

ResetBulk == Setup({"bulkreset"}) /\ Unhalted /\ IssueStatus([Heard EXCEPT !.reset = TRUE])

\* Seeded fault: the state does not wait for the status.
GetMaxLun_AtOnce ==
  /\ Setup({"maxlun"})
  /\ IF drv.lunSet THEN Unhalted /\ IssueData([Heard EXCEPT !.state = "lun"])
                   ELSE Stall /\ NothingPosted /\ drv' = Heard

\* The number of volumes, when the gadget has given it.
GetMaxLun ==
  /\ Setup({"maxlun"})
  /\ IF drv.lunSet THEN Unhalted /\ IssueData([Heard EXCEPT !.state = "lun_wait"])
                   ELSE Stall /\ NothingPosted /\ drv' = Heard

Refuse == Setup({"unknown"}) /\ Stall /\ NothingPosted /\ drv' = Heard

\* Neither answered nor stalled.
Ignore == Setup({"device"}) /\ Unhalted /\ NothingPosted /\ drv' = Heard

HandleSetup ==
  \/ SetAddress \/ SetConfiguration \/ RemoveConfiguration \/ Describe \/ SetInterface
  \/ ClearHalt \/ ResetBulk \/ GetMaxLun \/ Refuse \/ Ignore

\* Seeded fault: the controller is not told that its events were handled.
Acknowledge_Kept ==
  /\ pc = "acknowledge" /\ pc' = "return"
  /\ ering' = [ering EXCEPT !.erdp = ering.deq]
  /\ UNCHANGED <<ring, asked, rung, halted, events, drv, tx, call, snap, res, gaveUp>> /\ Outside

\* ERDP is written and the controller may signal again.
Acknowledge ==
  /\ pc = "acknowledge" /\ pc' = "return"
  /\ LET more == ering.enq # ering.deq
     IN  ering' = [ering EXCEPT !.erdp = ering.deq, !.ip = more, !.busy = more]
  /\ UNCHANGED <<ring, asked, rung, halted, events, drv, tx, call, snap, res, gaveUp>> /\ Outside

-----------------------------------------------------------------------------
(* The callers: xusb_device_enumerate, xusb_device_class_send_max_lun and  *)
(* the transfers of the gadget.                                            *)

quiet == <<ring, asked, rung, halted, ering, events, snap, res>>

\* Enumerated: the number of volumes is given at once.
Enumerated ==
  /\ pc = "return" /\ call = "enumerate" /\ res \in {"ok", "timeout"} /\ drv.state = "configured"
  /\ call' = "lun" /\ pc' = "poll" /\ drv' = [drv EXCEPT !.lunSet = TRUE]
  /\ UNCHANGED <<quiet, tx, gaveUp>> /\ Outside

EnumerationFailed ==
  /\ pc = "return" /\ call = "enumerate" /\ res \notin {"ok", "timeout"}
  /\ pc' = "ended" /\ UNCHANGED <<quiet, drv, tx, call, gaveUp>> /\ Outside

LunAsked ==
  /\ pc = "return" /\ call = "lun" /\ drv.state = "lun"
  /\ call' = "none" /\ pc' = "session" /\ drv' = [drv EXCEPT !.state = "configured"]
  /\ UNCHANGED <<quiet, tx, gaveUp>> /\ Outside

\* Both wait on, or are given up: after 90 s and 10 s, or with both buttons.
Waiting ==
  /\ pc = "return"
  /\ \/ call = "enumerate" /\ res \in {"ok", "timeout"} /\ drv.state # "configured"
     \/ call = "lun" /\ drv.state # "lun"
  /\ pc' \in {"poll", "ended"}
  /\ UNCHANGED <<quiet, drv, tx, call, gaveUp>> /\ Outside

\* Seeded fault: the empty packet is not counted.
Start_One(e, n) ==
  /\ pc = "session" /\ Len(asked[e]) + Unhandled(e) + n < Link
  /\ ring' = [ring EXCEPT ![e] = IF n = 2 THEN Queued(Queued(@)) ELSE Queued(@)]
  /\ asked' = [asked EXCEPT ![e] = @ \o [i \in 1 .. n |-> [stage |-> "bulk"]]]
  /\ rung' = [rung EXCEPT ![e] = TRUE]
  /\ tx' = [tx EXCEPT ![e] = 1]
  /\ gaveUp' = [gaveUp EXCEPT ![e] = @ \/ tx[e] > 0]
  /\ drv' = [drv EXCEPT !.wait = "normal"]
  /\ UNCHANGED <<halted, ering, events, snap, res>> /\ Outside

\* xusb_device_ep1_out_read, xusb_device_ep1_in_write: n requests, the count
\* starts afresh whatever the ring still holds.  Bound: the ring has room (the
\* gadget never has more than a few requests on the 15 slots of the code).
Start(e, n) ==
  /\ pc = "session" /\ Len(asked[e]) + Unhandled(e) + n < Link
  /\ ring' = [ring EXCEPT ![e] = IF n = 2 THEN Queued(Queued(@)) ELSE Queued(@)]
  /\ asked' = [asked EXCEPT ![e] = @ \o [i \in 1 .. n |-> [stage |-> "bulk"]]]
  /\ rung' = [rung EXCEPT ![e] = TRUE]
  /\ tx' = [tx EXCEPT ![e] = n]
  /\ gaveUp' = [gaveUp EXCEPT ![e] = @ \/ tx[e] > 0]
  /\ drv' = [drv EXCEPT !.wait = "normal"]
  /\ UNCHANGED <<halted, ering, events, snap, res>> /\ Outside

Transfer(e) == Start(e, 1) /\ call' = e /\ pc' = "poll"

\* Without a wait; a packet that is full is followed by an empty one.
StartWrite ==
  /\ "in" \in Bulk /\ \E n \in {1, 2} : Start("in", n)
  /\ UNCHANGED <<call, pc>>

\* xusb_device_ep1_in_writing_finish, and xusb_device_ep1_out_reading_finish,
\* which the gadget calls after a time-out and which times out too.
Finish ==
  /\ pc = "session" /\ pc' = "poll"
  /\ \E e \in Bulk : tx[e] > 0 /\ call' = IF e = "in" THEN "finish" ELSE e
  /\ UNCHANGED <<quiet, drv, tx, gaveUp>> /\ Outside

Way(c) == IF c = "finish" THEN "in" ELSE c

TransferReturns ==
  /\ pc = "return" /\ call \in Bulk \cup {"finish"}
  /\ IF res = "ok" /\ tx[Way(call)] > 0
     THEN pc' = "poll" /\ UNCHANGED call
     ELSE pc' = "session" /\ call' = "none"
  /\ UNCHANGED <<quiet, drv, tx, gaveUp>> /\ Outside

\* xusb_handle_ep0_ctrl_setup.
TakeReset ==
  /\ pc = "session" /\ drv.reset
  /\ drv' = [drv EXCEPT !.reset = FALSE]
  /\ UNCHANGED <<quiet, tx, pc, call, gaveUp>> /\ Outside

\* xusb_end.
End ==
  /\ pc = "session" /\ pc' = "ended"
  /\ UNCHANGED <<quiet, drv, tx, call, gaveUp>> /\ Outside

-----------------------------------------------------------------------------
Driver ==
  \/ Poll \/ TimeOut \/ HandlePort \/ HandleControl \/ \E e \in Bulk : HandleBulk(e)
  \/ HandleSetup \/ Acknowledge
  \/ Enumerated \/ EnumerationFailed \/ LunAsked \/ Waiting
  \/ \E e \in Bulk : Transfer(e)
  \/ StartWrite \/ Finish \/ TransferReturns \/ TakeReset

\* What the controller and the host do of themselves.
Control == CarryControl \/ SeeStall

Next ==
  \/ Driver \/ End \/ Control \/ Enumerate \/ AskOther
  \/ \E e \in Bulk : CarryBulk(e)
  \/ Abandon \/ PortReset

\* The driver runs, a request of the host is carried on, and the host asks
\* what it has to, among whatever else it asks.  It need not use the bulk
\* endpoints.
Spec ==
  Init /\ [][Next]_vars /\ WF_vars(Driver) /\ WF_vars(Control) /\ SF_vars(Enumerate)

-----------------------------------------------------------------------------
(* Properties.                                                             *)

\* Every variable has a value of its kind.
TypeOK ==
  /\ ring \in [Ep -> Ring]
  /\ asked \in [Ep -> Seq(Posting)]
  /\ {rung, halted} \subseteq [Ep -> BOOLEAN]
  /\ ering \in EventRing
  /\ events \in Seq(Event)
  /\ drv \in Drv
  /\ tx \in [Bulk -> 0 .. 2] /\ gaveUp \in [Bulk -> BOOLEAN]
  /\ pc \in {"poll", "handle", "acknowledge", "return", "session", "ended"}
  /\ call \in Bulk \cup {"enumerate", "lun", "none", "finish"}
  /\ snap \in 0 .. LastEvent
  /\ res \in Codes \cup {"timeout", "cycle", "port"}
  /\ host \in Host
  /\ upsets \subseteq Upsets

\* The two sides of a ring that is in use agree on what is on it.
Agreed(e) == rung[e] => Agrees(ring[e], Len(asked[e]), Unhandled(e))

\* A configuration is chosen only once.
Once == upsets \cap {"reset", "deconfigure"} = {}

\* The controller carries out what was posted on endpoint 0, once each and in
\* order, however often the ring wraps and whatever the host does
\* (_xusb_queue_trb, _xusb_handle_transfer_event).
ControlRingSound == Agreed("ctrl")

\* The same on the bulk endpoints, as long as a configuration is chosen once.
BulkRingsSound == Once => \A e \in Bulk : Agreed(e)

\* An endpoint that is initialised holds only what was posted since: comment at
\* xusbd.c:1652, "Initialize BULK EPs."
BulkInitialized == \A e \in Bulk : Agreed(e)

\* The event j places on is, by its bit, the driver's.
EventOwned(j) ==
  LET i == ering.deq + j
  IN  IF i <= LastEvent THEN ering.cycle[i] = ering.ccs
                        ELSE ering.cycle[i - LastEvent - 1] = 1 - ering.ccs

\* By the cycle bits the driver has exactly the events that were reported and
\* not handled, over both segments, and an interrupt is never for nothing
\* (_xusb_ep_operation).
EventsAgree ==
  /\ {j \in 0 .. LastEvent : EventOwned(j)} = 0 .. Len(events) - 1
  /\ res # "cycle"

\* A call that reports success has nothing left on the ring, unless a transfer
\* was started while an earlier one was awaited (xusb_device_ep1_out_read,
\* ..._in_write, ..._finish).
OkMeansDone ==
  [][call' = "none" /\ call \in Bulk \cup {"finish"} /\ res = "ok" =>
       (Once /\ ~gaveUp[Way(call)] => asked[Way(call)] = <<>>)]_vars

\* The session starts only when the host has been told how many volumes there
\* are, if it completes what it asks (xusb_device_class_send_max_lun).
LunTold ==
  (call \notin {"enumerate", "lun"}) /\ upsets \cap {"abandon", "reset", "deconfigure"} = {} =>
    host.luns = "told"

\* Every request of a host that waits is answered or stalled: while it
\* enumerates all of them, in a session those that have no data.
Patient == upsets \cap {"abandon", "reset"} = {}
Answered ==
  host.stage # "idle" ~>
    \/ host.stage = "idle" \/ pc = "ended" \/ ~Patient
    \/ host.req = "device"
    \/ host.req \in WithData /\ call \notin {"enumerate", "lun"}

\* A host that goes through the enumeration gets its session, unless the user
\* or a timer gives up, the host asks for the volumes before the gadget has
\* given them, or it waits for an answer to what nobody answers.
Started ==
  <>(call \notin {"enumerate", "lun"} \/ pc = "ended" \/ host.luns = "refused" \/ ~Patient
     \/ (host.req = "device" /\ host.stage # "idle"))

\* Control requests are completed among the transfers of a session: comment at
\* xusbd.c:2024, "EP0 Control handling is done by normal ep operation in XUSB."
ControlCompleted ==
  host.stage # "idle" ~> host.stage = "idle" \/ pc = "ended" \/ host.req = "device"

=============================================================================
