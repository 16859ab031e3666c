----------------------------- MODULE UmsGadget -----------------------------
(***************************************************************************)
(* The USB mass storage gadget, bdk/usb/usb_gadget_ums.c, over the bulk    *)
(* endpoints of bdk/usb/xusbd.c, with the host at the other end.           *)
(*                                                                         *)
(* The device posts transfers (TRBs) on the rings of its two bulk          *)
(* endpoints and waits in _xusb_ep_operation; the controller carries them  *)
(* out when the host wants to and reports each with an event.  A transfer  *)
(* whose wait times out stays posted: xusb has no flush.                   *)
(*                                                                         *)
(* Lengths: a buffer of 32K holds two sectors and a sector counts 2, so     *)
(* that a command block, a status and a short reply, which count 1, are     *)
(* less than the smallest packet of data.                                  *)
(***************************************************************************)
EXTENDS Integers, Sequences, SequencesExt, FiniteSets

CONSTANTS
  Luns,       \* the volumes: partition, offset and size in sectors, ro
  Commands,   \* bound: the commands the host may send
  Patience,   \* bound: 20 in the code, what timeouts may reach
  Upsets,     \* bound: the kinds of upset that happen, each at most once,
  MaxUpsets   \* and how many in one behaviour

Sector == 2
Buffer == 2 * Sector    \* USB_EP_BULK_IN_MAX_XFER, USB_EP_BULK_OUT_MAX_XFER
EpMax == 2 * Buffer     \* USB_EP_BUFFER_MAX_SIZE, what one transfer may move

\* The sectors of memory: the IN buffer is 1 and 2, the OUT buffer 3 and 4.
Memory == 1 .. 4
InBuf == 1
OutBuf == 3

Lun == DOMAIN Luns
Parts == {"sd", "gpp", "boot0", "boot1"}
Ops == {"read", "write", "info", "sense", "test", "prevent", "allow", "eject", "other"}

Command == [op : Ops, lun : Lun, lba : Nat, dir : {"in", "out", "none"},
            size : Nat,     \* DataTransferLength, what the host will move
            want : Nat]     \* the length the command block itself asks for

\* Reads, writes and all the host sends are whole sectors.
Whole(n) == n % Sector = 0

ASSUME GadgetAssumption ==
  /\ Luns \in Seq([part : Parts, offset : Nat, sectors : Nat \ {0}, ro : BOOLEAN])
  /\ Luns # <<>>
  /\ Commands \subseteq Command
  /\ \A c \in Commands : (c.size = 0) <=> (c.dir = "none")
  /\ \A c \in Commands : c.op \in {"read", "write"} \/ c.dir = "out" => Whole(c.size)
  /\ \A c \in Commands : c.op \in {"read", "write"} => Whole(c.want)
  /\ {Patience, MaxUpsets} \subseteq Nat
  /\ Upsets \subseteq {"pause", "early", "reset", "fault"}

VARIABLES
  \* the endpoints: posted transfers, events not handled, tx_count, tx_bytes
  outq, inq, events, tx,
  bulkReset,  \* bulk_reset_req
  bufs,       \* what the sectors of the two buffers hold
  \* the gadget
  pc,         \* the statement that waits or comes next
  res,        \* result of the last _xusb_ep_operation of a wait
  state,      \* ums.state
  lun,        \* lun_idx; 0 for none yet
  cmd,        \* the command block being carried out
  job,        \* how far it is: see NoJob
  queued,     \* cbw_req_queued
  ignore,     \* bulk_out_ignore
  units,      \* of each volume: unmounted, prevent, sense and attention
  timeouts,
  part,       \* the partition the eMMC addresses
  \* the host
  host,       \* phase, command, tag, what is left to move, what was right
  asleep,     \* the port is suspended
  upsets      \* bound: what went wrong so far

bus == <<outq, inq, events, tx, bulkReset, bufs>>
vars == <<bus, pc, res, state, lun, cmd, job, queued, ignore, units, timeouts, part,
          host, asleep, upsets>>

NoCommand == [op |-> "test", lun |-> 1, lba |-> 0, dir |-> "none", size |-> 0, want |-> 0]

(* residue, usb_amount_left, phase_error and short_packet_received; the     *)
(* reply in bulk_in_buf; the position of a read or write; the tag.          *)
NoJob == [residue |-> 0, left |-> 0, phase |-> FALSE, short |-> FALSE,
          from |-> InBuf, len |-> 0, lba |-> 0, todo |-> 0, first |-> TRUE, cur |-> InBuf,
          posted |-> 0, tag |-> 0]

Rank == [normal |-> 0, abort |-> 1, reset |-> 2, exit |-> 3]
States == DOMAIN Rank

\* The host pauses in the middle of a command, ends its data early or resets
\* the device; a storage access fails or needs a reinitialisation.
Upset(kind) ==
  kind \in Upsets \ upsets /\ Cardinality(upsets) < MaxUpsets /\ upsets' = upsets \cup {kind}

Least(a, b) == IF a < b THEN a ELSE b

Init ==
  /\ outq = <<>> /\ inq = <<>> /\ events = <<>>
  /\ tx = [out |-> [count |-> 0, bytes |-> 0], in |-> [count |-> 0, bytes |-> 0]]
  /\ bulkReset = FALSE
  /\ bufs = [b \in Memory |-> <<"junk">>]
  /\ pc = "top" /\ res = "ok" /\ state = "normal"
  /\ lun = 0 /\ cmd = NoCommand /\ job = NoJob
  /\ queued = FALSE /\ ignore = FALSE
  /\ units = [l \in Lun |-> [unmounted |-> FALSE, prevent |-> FALSE,
                             sense |-> FALSE, attention |-> TRUE]]
  /\ timeouts = 0 /\ part = "gpp"
  /\ host = [phase |-> "idle", cmd |-> NoCommand, tag |-> 0, left |-> 0, good |-> 0,
             astray |-> FALSE, status |-> "none", residue |-> 0]
  /\ asleep = FALSE
  /\ upsets = {}

-----------------------------------------------------------------------------
(* The bulk endpoints.                                                     *)

Waits == {"cbw", "fill", "discard", "sent", "reply", "status"}
Way(w) == IF w \in {"cbw", "fill", "discard"} THEN "out" ELSE "in"

\* xusb_device_ep1_out_read and xusb_device_ep1_in_write: a transfer is put on
\* the ring and counted afresh.
PostOut(len) ==
  /\ outq' = Append(outq, len)
  /\ tx' = [tx EXCEPT !.out = [count |-> 1, bytes |-> len]]

\* Left out: the empty transfer that follows a write of exactly one packet without
\* a wait (xusbd.c:2127).  Only _scsi_read writes without a wait, and such a write
\* is of one packet only when the end of the volume cuts the read there, which is
\* a command that is not Inside.  Xusbd has it (StartWrite).
PostIn(from, len) ==
  /\ inq' = Append(inq, [from |-> from, len |-> len])
  /\ tx' = [tx EXCEPT !.in = [count |-> 1, bytes |-> len]]

\* Seeded fault: transfers to the host are not counted down.
HandleEvent_Out(s, e) ==
  IF e.ep = "reset" THEN [s EXCEPT !.reset = TRUE, !.res = "ok"]
  ELSE IF ~e.ok THEN [s EXCEPT !.res = "error"]
  ELSE IF e.ep = "in" THEN [s EXCEPT !.res = "ok"]
  ELSE [s EXCEPT !.tx.out = [count |-> IF @.count > 0 THEN @.count - 1 ELSE 0,
                             bytes |-> @.bytes - e.rest],
                 !.res = "ok"]

\* _xusb_handle_transfer_event, or the setup event of a bulk reset: a transfer to
\* the host with a rest is counted down and an error all the same.
HandleEvent(s, e) ==
  IF e.ep = "reset" THEN [s EXCEPT !.reset = TRUE, !.res = "ok"]
  ELSE IF ~e.ok THEN [s EXCEPT !.res = "error"]
  ELSE [s EXCEPT !.tx[e.ep] = [count |-> IF @.count > 0 THEN @.count - 1 ELSE 0,
                               bytes |-> @.bytes - e.rest],
                 !.res = IF e.ep = "in" /\ e.rest # 0 THEN "error" ELSE "ok"]

\* The endpoints, bulk_reset_req and the result after the first n events.
Handled[n \in 0 .. Len(events)] ==
  IF n = 0 THEN [tx |-> tx, reset |-> bulkReset, res |-> "ok"]
           ELSE HandleEvent(Handled[n - 1], events[n])

WaitOver == res # "ok" \/ tx[Way(pc)].count = 0

\* _xusb_ep_operation: all events there are; the result is that of the last.
EpOperation ==
  /\ pc \in Waits /\ ~WaitOver /\ events # <<>>
  /\ LET s == Handled[Len(events)]
     IN  tx' = s.tx /\ bulkReset' = s.reset /\ res' = s.res
  /\ events' = <<>>
  /\ UNCHANGED <<outq, inq, bufs, pc, state, lun, cmd, job, queued, ignore, units, timeouts,
                 part, host, asleep, upsets>>

\* The host would carry out the transfer the device waits for.
Served ==
  IF Way(pc) = "out" THEN host.phase = "out" /\ outq # <<>>
                     ELSE host.phase \in {"in", "status"} /\ inq # <<>>

\* No event for 1 s or 2 s.  Only the wait between the two halves of a read
\* has no end.  A host that pauses in the middle of a command is counted.
TimeOut ==
  /\ pc \in Waits \ {"sent"} /\ ~WaitOver /\ events = <<>>
  /\ IF Served THEN Upset("pause") ELSE UNCHANGED upsets
  /\ res' = "timeout"
  /\ UNCHANGED <<bus, pc, state, lun, cmd, job, queued, ignore, units, timeouts, part,
                 host, asleep>>

\* usb_device_ep1_..._finish and the synchronous calls: bytes, 0 on an error.
Actual == IF res = "ok" THEN tx[Way(pc)].bytes ELSE 0

-----------------------------------------------------------------------------
(* The host: a mass storage driver that sends one command at a time, moves *)
(* its data, takes the status, and resets the device when it is lost.      *)

device == <<tx, bulkReset, pc, res, state, lun, cmd, job, queued, ignore, units, timeouts, part>>

Completed(ep, ok, rest) == events' = Append(events, [ep |-> ep, ok |-> ok, rest |-> rest])

SendCommand ==
  /\ host.phase = "idle" /\ ~asleep /\ outq # <<>>
  /\ \E c \in Commands :
       /\ host' = [host EXCEPT !.cmd = c, !.tag = 1 - @, !.left = c.size, !.good = 0,
                     !.astray = FALSE, !.status = "none", !.residue = 0,
                     !.phase = IF c.size = 0 THEN "status" ELSE c.dir]
       /\ bufs' = [bufs EXCEPT ![OutBuf] = <<"cbw", c, 1 - host.tag>>]
  /\ outq' = Tail(outq) /\ Completed("out", TRUE, Head(outq) - 1)
  /\ UNCHANGED <<inq, device, asleep, upsets>>

\* Data for a transfer of a command block is an error that halts the endpoint;
\* the host clears the halt and asks for the status.
SendData ==
  /\ host.phase = "out" /\ ~asleep /\ outq # <<>>
  /\ outq' = Tail(outq)
  /\ IF Head(outq) % Sector # 0
     THEN /\ host' = [host EXCEPT !.phase = "status"]
          /\ Completed("out", FALSE, 0) /\ UNCHANGED bufs
     ELSE LET n == Least(Head(outq), host.left)
              done == (host.cmd.size - host.left) \div Sector
          IN  /\ host' = [host EXCEPT !.left = @ - n,
                                      !.phase = IF n = host.left THEN "status" ELSE "out"]
              /\ bufs' = [b \in Memory |-> IF b - OutBuf \in 0 .. n \div Sector - 1
                                           THEN <<"data", done + b - OutBuf, host.tag>>
                                           ELSE bufs[b]]
              /\ Completed("out", TRUE, Head(outq) - n)
  /\ UNCHANGED <<inq, device, asleep, upsets>>

\* The host sends no more of its data: an empty packet ends it.
StopEarly ==
  /\ host.phase = "out" /\ ~asleep /\ outq # <<>> /\ Head(outq) % Sector = 0
  /\ Upset("early")
  /\ outq' = Tail(outq) /\ Completed("out", TRUE, Head(outq))
  /\ host' = [host EXCEPT !.phase = "status", !.left = 0]
  /\ UNCHANGED <<inq, bufs, device, asleep>>

\* What the host expects as sector i of a command, and the sectors of a
\* transfer that are it when the first `done` have been moved.
Expected(c, i) == <<"disk", Luns[c.lun].part, Luns[c.lun].offset + c.lba + i>>
Right(t, done) ==
  {i \in 0 .. t.len \div Sector - 1 :
     /\ t.from + i \in Memory
     /\ bufs[t.from + i] = Expected(host.cmd, done \div Sector + i)}

\* A transfer that ends with a short packet ends the data.
TakeData ==
  /\ host.phase = "in" /\ ~asleep /\ inq # <<>>
  /\ LET t == Head(inq) IN
     host' = IF t.len > host.left THEN [host EXCEPT !.phase = "lost"]
             ELSE [host EXCEPT
                    !.left = @ - t.len,
                    !.phase = IF t.len = host.left \/ t.len % Sector # 0 \/ t.len = 0
                              THEN "status" ELSE "in",
                    !.good = @ + Cardinality(Right(t, host.cmd.size - host.left))]
  /\ inq' = Tail(inq) /\ Completed("in", TRUE, 0)
  /\ UNCHANGED <<outq, bufs, device, asleep, upsets>>

TakeStatus ==
  /\ host.phase = "status" /\ ~asleep /\ inq # <<>>
  /\ LET t == Head(inq)
         b == bufs[t.from]
     IN  host' = IF t.len = 1 /\ b[1] = "csw" /\ b[2] = host.tag
                 THEN [host EXCEPT !.phase = "idle", !.status = b[3], !.residue = b[4]]
                 ELSE [host EXCEPT !.phase = "lost"]
  /\ inq' = Tail(inq) /\ Completed("in", TRUE, 0)
  /\ UNCHANGED <<outq, bufs, device, asleep, upsets>>

\* The host resets the device in the middle of a command.
BulkReset ==
  /\ Upset("reset") /\ ~asleep /\ host.phase # "idle"
  /\ host' = [host EXCEPT !.phase = "idle", !.left = 0]
  /\ Completed("reset", TRUE, 0)
  /\ UNCHANGED <<outq, inq, bufs, device, asleep>>

\* The cable is pulled or the host suspends the port, between commands.
Sleep ==
  /\ host.phase = "idle" /\ asleep' = ~asleep
  /\ UNCHANGED <<bus, pc, res, state, lun, cmd, job, queued, ignore, units, timeouts, part,
                 host, upsets>>

-----------------------------------------------------------------------------
(* The storage.                                                            *)

\* An access to volume l succeeds or fails; either may go through a
\* reinitialisation, after which the eMMC addresses its user area.
Access(l, ok) ==
  \/ ok /\ part' = part /\ UNCHANGED upsets
  \/ /\ Upset("fault")
     /\ \/ part' = part
        \/ Luns[l].part # "sd" /\ part' = "gpp"

\* The partition that the access reads or writes.
Addressed(l, p) == IF Luns[l].part = "sd" THEN "sd" ELSE p

\* Seeded fault: the partition is left as it is when the volume changes.
Switched_Never(l) == part' = part /\ UNCHANGED upsets

\* _received_cbw selects the partition of another volume; a switch that fails
\* is not noticed.
Switched(l) ==
  \/ /\ part' = IF l = lun \/ Luns[l].part = "sd" THEN part ELSE Luns[l].part
     /\ UNCHANGED upsets
  \/ /\ l # lun /\ Luns[l].part \notin {"sd", part}
     /\ Upset("fault") /\ part' = part

-----------------------------------------------------------------------------
(* Exceptions.                                                             *)

\* raise_exception: the one of higher priority stays.
\* Seeded fault: the last one stays.
Raised_Last(s, new) == new

Raised(s, new) == IF Rank[s] <= Rank[new] THEN new ELSE s

\* _handle_ep0_ctrl: a bulk reset that came in is turned into an exception.
Ep0(s) == IF bulkReset THEN Raised(s, "reset") ELSE s

\* _send_status.
Status == IF job.phase THEN "phase" ELSE IF units[lun].sense THEN "fail" ELSE "pass"
SendStatus ==
  /\ bufs' = [bufs EXCEPT ![job.from] = <<"csw", job.tag, Status, job.residue>>]
  /\ PostIn(job.from, 1)
  /\ job' = [job EXCEPT !.len = 1]
  /\ pc' = "status" /\ res' = "ok"

\* _handle_exception at the head of the loop.  No volume was chosen before the
\* first command: then it writes past luns[].
HandleException ==
  /\ pc = "top" /\ state # "normal" /\ lun # 0
  /\ units' = IF state = "abort" THEN units
              ELSE [units EXCEPT ![lun].prevent = FALSE, ![lun].sense = FALSE,
                                 ![lun].attention = (state = "reset")]
  /\ state' = "normal"
  /\ ignore' = (ignore /\ state # "reset")
  /\ IF state = "abort" THEN SendStatus
     ELSE pc' = (IF state = "exit" THEN "end" ELSE "top") /\ UNCHANGED <<bufs, inq, tx, res, job>>
  /\ UNCHANGED <<outq, events, bulkReset, lun, cmd, queued, timeouts, part, host, asleep, upsets>>

PastLuns ==
  /\ pc = "top" /\ state # "normal" /\ lun = 0 /\ pc' = "astray"
  /\ UNCHANGED <<bus, res, state, lun, cmd, job, queued, ignore, units, timeouts, part,
                 host, asleep, upsets>>

\* Both volume buttons, unless the host forbids it for some volume.
Buttons ==
  /\ pc = "top" /\ ~ \E l \in Lun : units[l].prevent
  /\ pc' = "end"
  /\ UNCHANGED <<bus, res, state, lun, cmd, job, queued, ignore, units, timeouts, part,
                 host, asleep, upsets>>

-----------------------------------------------------------------------------
(* A command.                                                              *)

\* The head of the loop: ep0, then _get_next_command waits for a command
\* block, with a transfer of its own unless one is still posted.
GetCommand ==
  /\ pc = "top" /\ state = "normal"
  /\ state' = Ep0(state) /\ bulkReset' = FALSE
  /\ IF queued THEN UNCHANGED <<outq, tx>> ELSE PostOut(1)
  /\ queued' = TRUE
  /\ pc' = "cbw" /\ res' = "ok"
  /\ UNCHANGED <<inq, events, bufs, lun, cmd, job, ignore, units, timeouts, part,
                 host, asleep, upsets>>

AllUnmounted == \A l \in Lun : units[l].unmounted
Prevented == \E l \in Lun : units[l].prevent

\* Seeded fault: ejected volumes do not count.
Tired_Slept ==
  Least(timeouts + (IF res = "timeout" /\ ~Prevented /\ asleep THEN 14 ELSE 0), Patience + 1)

\* The patience of _received_cbw: only a suspended port and ejected volumes
\* count on XUSB.
Tired ==
  LET slept == IF res = "timeout" /\ ~Prevented /\ asleep THEN 14 ELSE 0
      gone  == IF AllUnmounted THEN (IF res = "ok" THEN 4 ELSE 1) ELSE 0
  IN  Least(timeouts + slept + gone, Patience + 1)

\* No command block, or one that is to be ignored or makes no sense.
NoneReceived ==
  /\ pc = "cbw" /\ WaitOver
  /\ \/ res # "ok" \/ ignore
     \/ Actual # 1 \/ bufs[OutBuf][1] # "cbw"
  /\ timeouts' = IF res # "ok" \/ AllUnmounted THEN Tired ELSE timeouts
  /\ state' = IF timeouts' > Patience THEN Raised(state, "exit") ELSE state
  /\ IF res = "ok" /\ ~ignore THEN ignore' = TRUE /\ queued' = FALSE
                              ELSE UNCHANGED <<ignore, queued>>
  /\ pc' = "top"
  /\ UNCHANGED <<bus, res, lun, cmd, job, units, part, host, asleep, upsets>>

\* _check_scsi_cmd: lengths and direction first, then the unit.
Moves(op) == CASE op \in {"read", "info", "sense"} -> "in" [] op = "write" -> "out"
               [] OTHER -> "none"

Want(c) == IF Moves(c.op) = "none" THEN 0 ELSE c.want
From(c) == Least(Want(c), c.size)
WrongWay(c) == From(c) > 0 /\ c.dir # Moves(c.op)
Needs(op) == op \in {"read", "write", "test"}

\* Refused for the state the volume is in.
Refused(c, u) ==
  \/ u.attention /\ c.op \notin {"info", "sense"}
  \/ u.unmounted /\ Needs(c.op)

\* What the handlers themselves refuse.
Invalid(c, u) ==
  \/ c.op = "other"
  \/ c.op = "write" /\ Luns[c.lun].ro
  \/ c.op \in {"read", "write"} /\ c.lba >= Luns[c.lun].sectors
  \/ c.op = "eject" /\ u.prevent

\* The unit after the check and the handler (start_stop, prevent_allow,
\* request_sense).
UnitAfter(c, u) ==
  IF WrongWay(c) THEN u
  ELSE IF c.op = "sense" THEN [u EXCEPT !.sense = FALSE, !.attention = FALSE]
  ELSE IF u.attention /\ c.op # "info" THEN [u EXCEPT !.sense = TRUE, !.attention = FALSE]
  ELSE IF Refused(c, u) \/ Invalid(c, u) THEN [u EXCEPT !.sense = TRUE]
  ELSE [u EXCEPT !.sense = FALSE,
                 !.unmounted = @ \/ c.op = "eject",
                 !.prevent = IF c.op = "prevent" THEN TRUE
                             ELSE IF c.op = "allow" THEN FALSE ELSE @]

Goes(c, u) == ~WrongWay(c) /\ ~Refused(c, u) /\ ~Invalid(c, u)

\* The reply of a handler that sends one; less than asked for a short page.
Reply(c, u) == IF Goes(c, u) /\ c.op \in {"info", "sense"} THEN Least(1, From(c)) ELSE 0

\* _received_cbw for a good command block, ep0, and _parse_scsi_cmd up to the
\* first transfer of its data.
Received ==
  /\ pc = "cbw" /\ WaitOver /\ res = "ok" /\ ~ignore
  /\ Actual = 1 /\ bufs[OutBuf][1] = "cbw"
  /\ LET c == bufs[OutBuf][2]
         u == units[c.lun]
         t == IF AllUnmounted THEN Tired ELSE 0
         s == IF t > Patience THEN Raised(state, "exit") ELSE state
         x == c.op \in {"read", "write"} /\ Goes(c, u) /\ From(c) > 0
         r == IF c.dir = "in" /\ ~x THEN Reply(c, u) ELSE 0
     IN  /\ timeouts' = t
         /\ Switched(c.lun) /\ lun' = c.lun
         /\ queued' = FALSE
         /\ IF s # "normal"
            THEN /\ pc' = "top" /\ state' = s /\ job' = [job EXCEPT !.tag = bufs[OutBuf][3]]
                 /\ UNCHANGED <<cmd, units, bulkReset, bufs>>
            ELSE /\ state' = Ep0(s) /\ bulkReset' = FALSE
                 /\ cmd' = c
                 /\ units' = [units EXCEPT ![c.lun] = UnitAfter(c, u)]
                 /\ job' = [NoJob EXCEPT
                      !.residue = c.size - r, !.left = c.size, !.tag = bufs[OutBuf][3],
                      !.phase = c.size < Want(c) \/ WrongWay(c),
                      !.from = job.from,
                      !.len = IF c.dir = "in" /\ ~x THEN r ELSE job.len,
                      !.lba = c.lba, !.todo = IF x THEN From(c) ELSE 0]
                 /\ bufs' = IF r > 0 THEN [bufs EXCEPT ![job.from] = <<"info">>] ELSE bufs
                 /\ pc' = IF x THEN c.op ELSE "finish"
  /\ UNCHANGED <<outq, inq, events, tx, res, ignore, host, asleep>>

-----------------------------------------------------------------------------
(* A read: the storage fills one buffer while the controller sends the     *)
(* other; the last part is left to the reply.                              *)

\* The sectors of memory that a transfer covers.
Cells(from, len) == from .. from + len \div Sector - 1

\* What the next access of a read moves: at most a buffer, not past the end.
ReadSize(todo, lba) == Least(Least(todo, Buffer), (Luns[lun].sectors - lba) * Sector)

\* Past the end: nothing more, although the last transfer may be under way.
ReadPastEnd ==
  /\ pc = "read" /\ ReadSize(job.todo, job.lba) = 0
  /\ units' = [units EXCEPT ![lun].sense = TRUE]
  /\ job' = [job EXCEPT !.len = 0]
  /\ pc' = "finish"
  /\ UNCHANGED <<bus, res, state, lun, cmd, queued, ignore, timeouts, part, host, asleep, upsets>>

\* The access, into the buffer that is not being sent; a failed one reads
\* nothing.
ReadAccess ==
  /\ pc = "read" /\ ReadSize(job.todo, job.lba) > 0
  /\ \E ok \in BOOLEAN :
       LET n == ReadSize(job.todo, job.lba) IN
       /\ Access(lun, ok)
       /\ bufs' = IF ~ok THEN bufs ELSE
            [b \in Memory |->
               IF b \in Cells(job.cur, n)
               THEN <<"disk", Addressed(lun, part'), Luns[lun].offset + job.lba + b - job.cur>>
               ELSE bufs[b]]
       /\ job' = [job EXCEPT !.len = IF ok THEN n ELSE 0]
  /\ pc' = "sent" /\ res' = "ok"
  /\ UNCHANGED <<outq, inq, events, tx, bulkReset, state, lun, cmd, queued, ignore, units,
                 timeouts, host, asleep>>

SentOver == job.first \/ WaitOver

\* The result of the transfer is not looked at.  An access that failed ends
\* the read; the last one leaves its buffer to the reply.
ReadSent ==
  /\ pc = "sent" /\ SentOver
  /\ LET n == job.len
         todo == job.todo - n
         next == [job EXCEPT !.todo = todo, !.residue = @ - n, !.from = job.cur,
                             !.lba = @ + n \div Sector]
     IN  IF n > 0 /\ todo > 0
         THEN /\ PostIn(job.cur, n)
              /\ job' = [next EXCEPT !.first = FALSE,
                                     !.cur = IF job.cur = InBuf THEN OutBuf ELSE InBuf]
              /\ pc' = "read" /\ UNCHANGED units
         ELSE /\ units' = IF n = 0 THEN [units EXCEPT ![lun].sense = TRUE] ELSE units
              /\ job' = next /\ pc' = "finish" /\ UNCHANGED <<inq, tx>>
  /\ UNCHANGED <<outq, events, bulkReset, bufs, res, state, lun, cmd, queued, ignore, timeouts,
                 part, host, asleep, upsets>>

-----------------------------------------------------------------------------
(* A write: a buffer is received, then stored.  job.left counts down as    *)
(* the host is asked for its data, job.todo as the data is stored.         *)

Asked == cmd.size - job.left

\* Everything was asked for, less was stored, and nothing is left to look at:
\* the loop of _scsi_write does not end.
WriteStuck ==
  /\ pc = "write" /\ From(cmd) = Asked
  /\ pc' = "hung"
  /\ UNCHANGED <<bus, res, state, lun, cmd, job, queued, ignore, units, timeouts, part,
                 host, asleep, upsets>>

WritePastEnd ==
  /\ pc = "write" /\ From(cmd) > Asked
  /\ cmd.lba + Asked \div Sector >= Luns[lun].sectors
  /\ units' = [units EXCEPT ![lun].sense = TRUE]
  /\ pc' = "finish"
  /\ UNCHANGED <<bus, res, state, lun, cmd, job, queued, ignore, timeouts, part, host, asleep,
                 upsets>>

WriteAsk ==
  /\ pc = "write" /\ From(cmd) > Asked
  /\ cmd.lba + Asked \div Sector < Luns[lun].sectors
  /\ LET n == Least(From(cmd) - Asked, Buffer) IN
     /\ PostOut(n)
     /\ job' = [job EXCEPT !.left = @ - n, !.posted = n]
  /\ pc' = "fill" /\ res' = "ok"
  /\ UNCHANGED <<inq, events, bulkReset, bufs, state, lun, cmd, queued, ignore, units, timeouts,
                 part, host, asleep, upsets>>

\* Seeded fault: what was received is stored whole, past the end too.
Storable_All == Actual

\* Whole sectors of what was received, not past the end, no excess.
Storable ==
  LET n == Least(Least(Actual, job.posted), (Luns[lun].sectors - job.lba) * Sector)
  IN  n - (n % Sector)

\* The n of the OUT buffer are what the host means for job.lba onwards, and it
\* may write there.
Meant(n, p) ==
  /\ Luns[lun].part = Addressed(lun, p) /\ ~Luns[lun].ro /\ ~units[lun].unmounted
  /\ \A i \in 0 .. n \div Sector - 1 :
       /\ job.lba + i < Luns[lun].sectors
       /\ bufs[OutBuf + i] = <<"data", job.lba - host.cmd.lba + i, host.tag>>

Filled ==
  /\ pc = "fill" /\ WaitOver
  /\ LET n == Storable
         short == Actual < job.posted
     IN
     IF res # "ok"
     THEN /\ units' = [units EXCEPT ![lun].sense = TRUE]
          /\ pc' = "finish" /\ UNCHANGED <<job, host, part, upsets>>
     ELSE IF n <= 0
     THEN /\ job' = [job EXCEPT !.short = short]
          /\ pc' = IF short THEN "finish" ELSE "write"
          /\ UNCHANGED <<units, host, part, upsets>>
     ELSE \E ok \in BOOLEAN :
          /\ Access(lun, ok)
          /\ IF ok
             THEN /\ job' = [job EXCEPT !.lba = @ + n \div Sector, !.todo = @ - n,
                                        !.residue = @ - n, !.short = short]
                  /\ host' = IF Meant(n, part')
                             THEN [host EXCEPT !.good = @ + n \div Sector]
                             ELSE [host EXCEPT !.astray = TRUE]
                  /\ pc' = IF short \/ job.todo = n THEN "finish" ELSE "write"
                  /\ UNCHANGED units
             ELSE /\ units' = [units EXCEPT ![lun].sense = TRUE]
                  /\ pc' = "finish" /\ UNCHANGED <<job, host>>
  /\ UNCHANGED <<bus, res, state, lun, cmd, queued, ignore, timeouts, asleep>>

-----------------------------------------------------------------------------
(* The end of a command: _finish_reply and _send_status.                   *)

Abandoned ==
  /\ pc \in {"finish", "replied"} /\ state # "normal"
  /\ pc' = "top"
  /\ UNCHANGED <<bus, res, state, lun, cmd, job, queued, ignore, units, timeouts, part,
                 host, asleep, upsets>>

Finishing == pc = "finish" /\ state = "normal" /\ bulkReset' = FALSE
finished == <<events, lun, cmd, queued, ignore, units, timeouts, part, host, asleep, upsets>>

FinishNothing ==
  /\ Finishing /\ state' = Ep0(state)
  /\ \/ cmd.dir = "none"
     \/ cmd.dir = "out" /\ job.residue = 0
     \/ cmd.dir = "out" /\ ~job.short /\ job.left = 0
  /\ pc' = "replied"
  /\ UNCHANGED <<outq, inq, tx, bufs, res, job, finished>>

\* The last buffer, when it completes what the host asked for.
FinishReply ==
  /\ Finishing /\ state' = Ep0(state)
  /\ cmd.dir = "in" /\ job.residue = 0
  /\ PostIn(job.from, job.len)
  /\ job' = [job EXCEPT !.left = 0]
  /\ pc' = "reply" /\ res' = "ok"
  /\ UNCHANGED <<outq, bufs, finished>>

FinishPadded ==
  /\ Finishing /\ state' = Ep0(state)
  /\ cmd.dir = "in" /\ job.residue > 0
  /\ job' = [job EXCEPT !.left = job.len + job.residue]
  /\ pc' = "pad"
  /\ UNCHANGED <<outq, inq, tx, bufs, res, finished>>

\* The host ended its data early.
FinishShort ==
  /\ Finishing /\ state' = Raised(Ep0(state), "abort")
  /\ cmd.dir = "out" /\ job.residue > 0 /\ job.short
  /\ pc' = "top"
  /\ UNCHANGED <<outq, inq, tx, bufs, res, job, finished>>

\* _throw_away_data: one transfer of what the host has left to send, into the
\* OUT buffer; the rings of the controller come after it.
FinishDiscard ==
  /\ Finishing /\ state' = Ep0(state)
  /\ cmd.dir = "out" /\ job.residue > 0 /\ ~job.short /\ job.left > 0
  /\ LET n == Least(job.left, EpMax) IN
     /\ PostOut(n)
     /\ job' = [job EXCEPT !.left = @ - n]
     /\ pc' = IF Cells(OutBuf, n) \subseteq Memory THEN "discard" ELSE "overrun"
  /\ res' = "ok"
  /\ UNCHANGED <<inq, bufs, finished>>

\* _pad_with_zeros: what was read, then zeros up to what the host asked for.
Pad ==
  /\ pc = "pad"
  /\ LET n == Least(job.left, EpMax) IN
     /\ bufs' = [b \in Memory |-> IF b \in Cells(job.from, n) /\ (b - job.from) * Sector >= job.len
                                  THEN <<"zero">> ELSE bufs[b]]
     /\ PostIn(job.from, n)
     /\ job' = [job EXCEPT !.left = @ - n, !.len = 0]
     /\ pc' = IF Cells(job.from, n) \subseteq Memory THEN "reply" ELSE "overrun"
  /\ res' = "ok"
  /\ UNCHANGED <<outq, events, bulkReset, state, lun, cmd, queued, ignore, units, timeouts, part,
                 host, asleep, upsets>>

\* The results of these transfers are not looked at either.
Replied ==
  /\ pc \in {"reply", "discard"} /\ WaitOver
  /\ pc' = IF pc = "reply" /\ job.left > 0 THEN "pad" ELSE "replied"
  /\ job' = IF pc' = "replied" /\ pc = "reply" THEN [job EXCEPT !.from = InBuf] ELSE job
  /\ UNCHANGED <<bus, res, state, lun, cmd, queued, ignore, units, timeouts, part, host, asleep,
                 upsets>>

Answer ==
  /\ pc = "replied" /\ state = "normal"
  /\ SendStatus
  /\ UNCHANGED <<outq, events, bulkReset, state, lun, cmd, queued, ignore, units, timeouts, part,
                 host, asleep, upsets>>

\* What is left of the command, but for where its buffer is, is not used
\* again, nor what the buffers hold, unless a transfer is still posted.
StatusOver ==
  /\ pc = "status" /\ WaitOver
  /\ pc' = "top" /\ res' = "ok"
  /\ cmd' = NoCommand /\ job' = [NoJob EXCEPT !.from = job.from]
  /\ bufs' = [b \in Memory |-> IF \E t \in ToSet(inq) : b - t.from \in 0 .. t.len \div Sector
                               THEN bufs[b] ELSE <<"junk">>]
  /\ UNCHANGED <<outq, inq, events, tx, bulkReset, state, lun, queued, ignore, units, timeouts, part, host,
                 asleep, upsets>>

-----------------------------------------------------------------------------
Device ==
  \/ EpOperation \/ TimeOut
  \/ HandleException \/ PastLuns \/ GetCommand \/ NoneReceived \/ Received
  \/ ReadPastEnd \/ ReadAccess \/ ReadSent
  \/ WriteStuck \/ WritePastEnd \/ WriteAsk \/ Filled
  \/ Abandoned \/ FinishNothing \/ FinishReply \/ FinishPadded \/ FinishShort \/ FinishDiscard
  \/ Pad \/ Replied \/ Answer \/ StatusOver

\* What a host does of itself once it has sent a command.
Transport == SendData \/ TakeData \/ TakeStatus

Next == Device \/ Buttons \/ Transport \/ SendCommand \/ StopEarly \/ BulkReset \/ Sleep

\* The device runs, and the host goes on with a command it has sent.  Nobody
\* has to send a command, reset, press a button or pull the cable.
Spec == Init /\ [][Next]_vars /\ WF_vars(Device) /\ WF_vars(Transport)

-----------------------------------------------------------------------------
(* Properties.                                                             *)

Terminal == {"end", "hung", "astray", "overrun"}

\* Every variable has a value of its kind.
TypeOK ==
  /\ outq \in Seq(Nat) /\ inq \in Seq([from : Memory, len : Nat])
  /\ events \in Seq([ep : {"in", "out", "reset"}, ok : BOOLEAN, rest : Int])
  /\ tx \in [{"in", "out"} -> [count : {0, 1}, bytes : Int]]
  /\ bulkReset \in BOOLEAN /\ DOMAIN bufs = Memory
  /\ pc \in Waits \cup Terminal \cup {"top", "read", "write", "finish", "pad", "replied"}
  /\ res \in {"ok", "error", "timeout"} /\ state \in States
  /\ lun \in Lun \cup {0} /\ cmd \in Command
  /\ job.residue \in Nat /\ job.left \in Nat /\ job.len \in Nat /\ job.lba \in Nat
  /\ job.todo \in Nat /\ {job.from, job.cur} \subseteq Memory /\ job.posted \in Nat
  /\ {job.phase, job.short, job.first, queued, ignore, asleep} \subseteq BOOLEAN
  /\ units \in [Lun -> [{"unmounted", "prevent", "sense", "attention"} -> BOOLEAN]]
  /\ timeouts \in 0 .. Patience + 1 /\ part \in Parts
  /\ host.phase \in {"idle", "out", "in", "status", "lost"} /\ host.cmd \in Command
  /\ host.left \in Nat /\ host.good \in Nat /\ host.residue \in Nat
  /\ upsets \subseteq Upsets

\* The command stays inside its volume, or what is too much of it fits a buffer.
Inside(c) == c.lba + c.size \div Sector <= Luns[c.lun].sectors

\* Nobody paused in the middle of a command, ended it early, or reset.
Calm == upsets \subseteq {"fault"}

\* The host has an answer to a read or a write.
Told == host.phase = "idle" /\ host.status # "none" /\ host.cmd.op \in {"read", "write"}

\* The eMMC was not left at another partition than the command's.
Reached == upsets = {} \/ Luns[host.cmd.lun].part \in {"sd", part}

\* Where a session stops without having ended.
Overrun == pc = "overrun" /\ cmd.size > Buffer
Looping == pc = "hung" /\ cmd.op = "write" /\ ~Inside(cmd)
NoVolume == pc = "astray" /\ lun = 0

\* An answer is true: a command that passed was carried out whole (what the
\* host would move beyond the length in its command block is the residue), and
\* of one that failed what is reported as moved was, with every sector the one
\* the host asked for; whatever the storage did, unless the eMMC was left at
\* another partition (usb_gadget_ums.c, _scsi_read, _scsi_write, _send_status).
AnswersTrue ==
  Told /\ Calm /\ Inside(host.cmd) /\ Reached =>
    /\ host.status = "pass" => host.residue = host.cmd.size - From(host.cmd)
    /\ host.good * Sector = host.cmd.size - host.residue

\* Nothing is stored but what the host sent for that sector of that volume, in
\* a volume it may write: also when it ends its data early, or resets the device
\* and the transfers of the command it gave up are still posted.  Left out: a
\* failed access, after which the eMMC may be at another partition, and a host
\* that pauses longer than the time-out, with which it is false (ThrownAway):
\* what was posted before the pause is counted later (xusbd.c:1463, no flush).
NothingAstray == upsets \cap {"fault", "pause"} = {} => ~host.astray

\* A reset that was heard is carried out: no other exception, one that the
\* reset itself leads to among them, takes its place, and it leaves the
\* attention that tells the host (raise_exception, _handle_exception).
ResetHeard == bulkReset \/ state = "reset"
ResetKept ==
  [][ResetHeard /\ ~ResetHeard' =>
       state' = "exit" \/ (lun # 0 /\ units'[lun].attention)]_vars

\* What is thrown away is never stored: comment at usb_gadget_ums.c:1540,
\* "Read in the excess data and throw it away."
ThrownAway == upsets \subseteq {"pause"} => ~host.astray

\* Every command of a host that keeps to the protocol is answered, whatever
\* the storage does.
Answered ==
  host.phase # "idle" ~>
    \/ host.phase = "idle" \/ ~Calm
    \/ pc \in Terminal \ {"hung"} \/ ~Inside(host.cmd)

\* The session reaches its end once every volume was ejected, even if the host
\* goes on; and when the cable stays out, unless the host forbade it or it went
\* in the middle of a read: the wait between its two buffers has no time-out
\* (_received_cbw, usb_device_gadget_ums).  The other ways out, which are no end
\* of it: a write that crosses the end of its volume and was cut off by a reset
\* goes round for ever; data of more than a buffer that is thrown away or padded
\* overruns it; an exception before the first command goes past the volumes.
SessionEnds ==
  /\ (lun # 0 /\ AllUnmounted) ~> pc = "end" \/ Overrun
  /\ [](asleep /\ ~Prevented /\ pc # "sent") ~> pc = "end" \/ Overrun \/ Looping \/ NoVolume

=============================================================================
