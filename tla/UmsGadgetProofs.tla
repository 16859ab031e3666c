--------------------------- MODULE UmsGadgetProofs --------------------------
EXTENDS UmsGadget, TLAPS, WellFoundedInduction, FiniteSetTheorems

\* A set of naturals that is not empty has a least element.
LEMMA Smallest ==
  ASSUME NEW T \in SUBSET Nat, T # {}
  PROVE  \E x \in T : \A y \in T : x <= y
<1> DEFINE R == OpToRel(<, Nat)
<1>1. IsWellFoundedOn(R, Nat)
  BY NatLessThanWellFounded, Zenon
<1>2. \A x, y \in Nat : x < y => <<x, y>> \in R
  BY DEF OpToRel
<1> HIDE DEF R
<1>3. PICK x \in T : \A y \in T : ~ (<<y, x>> \in R)
  BY <1>1, WFMin
<1>4. \A y \in T : ~ (y < x)
  BY <1>2, <1>3
<1> QED
  BY <1>4

\* The driver's state before and after the event e_i, for each event of a wait.
Before == [tx |-> tx, reset |-> bulkReset, res |-> "ok"]

\* f is what the first n events lead to.
Leads(f, n) ==
  f = [k \in 0 .. n |-> IF k = 0 THEN Before ELSE HandleEvent(f[k - 1], events[k])]

LEMMA LeadsExists == ASSUME NEW m \in Nat PROVE \E f : Leads(f, m)
<1> DEFINE T == {n \in Nat : ~ \E f : Leads(f, n)}
<1> SUFFICES ASSUME T # {} PROVE FALSE
  OBVIOUS
<1>1. PICK n \in T : \A k \in T : n <= k
  BY Smallest
<1>2. n # 0
  <2>1. Leads([k \in 0 .. 0 |-> Before], 0)
    BY DEF Leads
  <2> QED
    BY <1>1, <2>1
<1>3. PICK p \in Nat : p = n - 1
  BY <1>1, <1>2
<1>4. PICK f : Leads(f, p)
  BY <1>1, <1>3
<1>5. PICK g : g = [k \in 0 .. n |-> IF k = n THEN HandleEvent(f[p], events[n]) ELSE f[k]]
  OBVIOUS
<1>6. ASSUME NEW k \in 0 .. n
      PROVE  g[k] = IF k = 0 THEN Before ELSE HandleEvent(g[k - 1], events[k])
  <2>1. CASE k = n
    <3>1. g[k] = HandleEvent(f[p], events[k]) /\ k - 1 = p /\ p \in 0 .. n /\ p # n
      BY <1>1, <1>2, <1>3, <1>5, <2>1
    <3>2. g[p] = f[p]
      BY <1>5, <3>1
    <3> QED
      BY <1>2, <2>1, <3>1, <3>2
  <2>2. CASE k # n
    <3>1. k \in 0 .. p /\ g[k] = f[k]
      BY <1>1, <1>3, <1>5, <2>2
    <3>2. f[k] = IF k = 0 THEN Before ELSE HandleEvent(f[k - 1], events[k])
      BY <1>4, <3>1 DEF Leads
    <3>3. k # 0 => k - 1 \in 0 .. n /\ k - 1 # n
      BY <1>3, <3>1
    <3>4. k # 0 => g[k - 1] = f[k - 1]
      BY <1>5, <3>3
    <3> QED
      BY <3>1, <3>2, <3>4
  <2> QED
    BY <2>1, <2>2
<1>7. Leads(g, n)
  <2>1. g = [k \in 0 .. n |-> g[k]]
    BY <1>5
  <2> QED
    BY <1>6, <2>1 DEF Leads
<1> QED
  BY <1>1, <1>7

\* What the states of the endpoints are after each of the events of a wait.
LEMMA HandledSteps ==
  ASSUME NEW n \in Nat, n = Len(events)
  PROVE  /\ Handled[0] = Before
         /\ \A i \in 1 .. n : Handled[i] = HandleEvent(Handled[i - 1], events[i])
<1>1. Leads(Handled, n)
  <2>1. PICK f : Leads(f, n)
    BY LeadsExists
  <2>2. f = [k \in 0 .. Len(events) |->
               IF k = 0 THEN [tx |-> tx, reset |-> bulkReset, res |-> "ok"]
                        ELSE HandleEvent(f[k - 1], events[k])]
    BY <2>1 DEF Leads, Before
  <2> QED
    BY <2>2 DEF Handled, Leads, Before
<1>2. \A k \in 0 .. n : Handled[k] = IF k = 0 THEN Before ELSE HandleEvent(Handled[k - 1], events[k])
  BY <1>1 DEF Leads
<1> QED
  BY <1>2

\* What holds at first and is handed on by every step holds at the end: T are
\* the numbers of steps after which it does.
LEMMA HandedOn ==
  ASSUME NEW n \in Nat, NEW T, 0 \in T, \A i \in 1 .. n : i - 1 \in T => i \in T
  PROVE  n \in T
<1> DEFINE F == {k \in 0 .. n : k \notin T}
<1> SUFFICES ASSUME F # {} PROVE FALSE
  OBVIOUS
<1>1. PICK k \in F : \A j \in F : k <= j
  <2>1. F \in SUBSET Nat
    OBVIOUS
  <2> QED
    BY <2>1, Smallest
<1>2. k # 0
  BY <1>1
<1>3. k - 1 \in 0 .. n /\ k - 1 \notin F /\ k \in 1 .. n
  BY <1>1, <1>2
<1> QED
  BY <1>1, <1>3

-----------------------------------------------------------------------------
(* A reset that was heard.                                                 *)

Unit == [unmounted : BOOLEAN, prevent : BOOLEAN, sense : BOOLEAN, attention : BOOLEAN]

\* Exceptions, the volume in use, the units, and the command blocks in memory.
Shape ==
  /\ bulkReset \in BOOLEAN /\ state \in States
  /\ lun \in Lun \cup {0}
  /\ units \in [Lun -> Unit]
  /\ bufs = [b \in Memory |-> bufs[b]]
  /\ \A b \in Memory : bufs[b][1] = "cbw" => bufs[b][2] \in Commands

LEMMA RaisedIs ==
  ASSUME NEW s \in States, NEW t \in States
  PROVE  /\ Raised(s, t) \in States
         /\ Raised(s, "reset") \in {"reset", "exit"}
         /\ s \in {"reset", "exit"} => Raised(s, t) \in {"reset", "exit"}
         /\ s = "exit" => Raised(s, t) = "exit"
         /\ s = "reset" /\ t = "abort" => Raised(s, t) = "reset"
  BY DEF Raised, Rank, States

LEMMA StatesAre == States = {"normal", "abort", "reset", "exit"}
  BY DEF States, Rank

LEMMA LunOf == ASSUME NEW c \in Commands PROVE c \in Command /\ c.lun \in Lun
  BY GadgetAssumption DEF Command

LEMMA UnitAfterIs ==
  ASSUME NEW c \in Command, NEW u \in Unit
  PROVE  UnitAfter(c, u) \in Unit
  BY DEF UnitAfter, Unit

\* A wait hears every reset among its events.
LEMMA EpOperationHears ==
  ASSUME Shape, EpOperation, Len(events) \in Nat
  PROVE  bulkReset' \in BOOLEAN /\ (bulkReset => bulkReset')
<1>1. PICK n \in Nat : n = Len(events)
  OBVIOUS
<1> DEFINE Fine(x) == /\ DOMAIN x = {"tx", "reset", "res"} /\ x.reset \in BOOLEAN
                      /\ bulkReset => x.reset
           T == {i \in 0 .. n : Fine(Handled[i])}
<1>2. 0 \in T
  BY <1>1, HandledSteps DEF Before, Shape
<1>3. ASSUME NEW x, NEW e, Fine(x) PROVE Fine(HandleEvent(x, e))
  <2>1. CASE e.ep = "reset"
    BY <1>3, <2>1 DEF HandleEvent
  <2>2. CASE e.ep # "reset" /\ ~e.ok
    BY <1>3, <2>2 DEF HandleEvent
  <2>3. CASE e.ep # "reset" /\ e.ok
    BY <1>3, <2>3 DEF HandleEvent
  <2> QED
    BY <2>1, <2>2, <2>3
<1>4. \A i \in 1 .. n : i - 1 \in T => i \in T
  <2> TAKE i \in 1 .. n
  <2> HAVE i - 1 \in T
  <2>1. Handled[i] = HandleEvent(Handled[i - 1], events[i])
    BY <1>1, HandledSteps
  <2>2. Fine(Handled[i - 1])
    OBVIOUS
  <2> HIDE DEF Fine
  <2>3. Fine(Handled[i])
    BY <1>3, <2>1, <2>2
  <2> QED
    BY <2>3
<1> HIDE DEF T
<1>5. n \in T
  BY <1>2, <1>4, HandedOn
<1> QED
  BY <1>1, <1>5 DEF T, EpOperation

\* What is left of a step that touches neither the exceptions nor the units.
Quiet == UNCHANGED <<bulkReset, state, lun, units, bufs>>

LEMMA QuietShape == ASSUME Shape, Quiet PROVE Shape'
  BY DEF Shape, Quiet

\* The buffers and exceptions of a gadget, one way or the other.
Dealt == /\ bulkReset' \in BOOLEAN /\ state' \in States /\ lun' \in Lun \cup {0}
         /\ units' \in [Lun -> Unit]
Filling == /\ bufs' = [b \in Memory |-> bufs'[b]]
           /\ \A b \in Memory : bufs'[b][1] = "cbw" => bufs'[b][2] \in Commands

\* A buffer that is written keeps the others.
LEMMA WrittenShape ==
  ASSUME Shape, NEW x, NEW v, v[1] = "cbw" => v[2] \in Commands,
         bufs' = [bufs EXCEPT ![x] = v]
  PROVE  Filling
  BY DEF Shape, Filling

LEMMA DealtShape == ASSUME Dealt, Filling PROVE Shape'
  BY DEF Dealt, Filling, Shape

LEMMA SendStatusFilling == ASSUME Shape, SendStatus PROVE Filling
<1>1. PICK v : v = <<"csw", job.tag, Status, job.residue>>
  OBVIOUS
<1>2. bufs' = [bufs EXCEPT ![job.from] = v] /\ v[1] # "cbw"
  BY <1>1 DEF SendStatus
<1> QED
  BY <1>2, WrittenShape

\* What a step of the host does to the buffers.
LEMMA TransportShape ==
  ASSUME Shape, Transport \/ SendCommand \/ StopEarly \/ BulkReset \/ Sleep
  PROVE  Shape'
<1>1. CASE SendData
  <2>1. Dealt
    BY <1>1 DEF SendData, device, Dealt, Shape
  <2>2. Filling
    <3>1. CASE UNCHANGED bufs
      BY <3>1 DEF Filling, Shape
    <3>2. CASE ~ UNCHANGED bufs
      <4>1. PICK n, done : bufs' = [b \in Memory |-> IF b - OutBuf \in 0 .. n \div Sector - 1
                                           THEN <<"data", done + b - OutBuf, host.tag>>
                                           ELSE bufs[b]]
        BY <1>1, <3>2, ZenonT(60) DEF SendData
      <4> QED
        BY <4>1 DEF Filling, Shape
    <3> QED
      BY <3>1, <3>2
  <2> QED
    BY <2>1, <2>2, DealtShape
<1>2. CASE TakeData \/ TakeStatus
  BY <1>2, QuietShape DEF TakeData, TakeStatus, device, Quiet
<1>3. CASE SendCommand
  <2>1. Dealt
    BY <1>3, Zenon DEF SendCommand, device, Dealt, Shape
  <2>2. PICK c \in Commands : bufs' = [bufs EXCEPT ![OutBuf] = <<"cbw", c, 1 - host.tag>>]
    BY <1>3, Zenon DEF SendCommand
  <2>3. PICK v : v = <<"cbw", c, 1 - host.tag>>
    OBVIOUS
  <2>4. Filling
    BY <2>2, <2>3, WrittenShape
  <2> QED
    BY <2>1, <2>4, DealtShape
<1>4. CASE StopEarly
  BY <1>4, QuietShape DEF StopEarly, device, Quiet
<1>5. CASE BulkReset
  BY <1>5, QuietShape DEF BulkReset, device, Quiet
<1>6. CASE Sleep
  BY <1>6, QuietShape DEF Sleep, bus, Quiet
<1> QED
  BY <1>1, <1>2, <1>3, <1>4, <1>5, <1>6 DEF Transport

\* The block that a wait for a command has received.
LEMMA ReceivedShape == ASSUME Shape, Received PROVE Shape'
<1>1. PICK c \in Commands : c = bufs[OutBuf][2]
  BY DEF Shape, Received, Memory, OutBuf
<1>2. c \in Command /\ c.lun \in Lun
  BY LunOf
<1>3. lun' \in Lun \cup {0}
  BY <1>1, <1>2 DEF Received
<1>4. PICK s : s = IF (IF AllUnmounted THEN Tired ELSE 0) > Patience THEN Raised(state, "exit")
                   ELSE state
  OBVIOUS
<1>5. s \in States
  BY <1>4, RaisedIs, StatesAre DEF Shape
<1>6. CASE s # "normal"
  <2>1. state' = s /\ UNCHANGED <<units, bulkReset, bufs>>
    BY <1>4, <1>6 DEF Received
  <2> QED
    BY <1>3, <1>5, <2>1 DEF Shape
<1>7. CASE s = "normal"
  <2>1. state' = Ep0(s) /\ bulkReset' = FALSE
        /\ units' = [units EXCEPT ![c.lun] = UnitAfter(c, units[c.lun])]
    BY <1>1, <1>4, <1>7 DEF Received
  <2>2. bufs' \in {bufs, [bufs EXCEPT ![job.from] = <<"info">>]}
    BY <1>1, <1>4, <1>7 DEF Received
  <2>3. Filling
    <3>1. CASE bufs' = bufs
      BY <3>1 DEF Filling, Shape
    <3>2. CASE bufs' = [bufs EXCEPT ![job.from] = <<"info">>]
      <4>1. PICK v : v = <<"info">>
        OBVIOUS
      <4> QED
        BY <3>2, <4>1, WrittenShape
    <3> QED
      BY <2>2, <3>1, <3>2
  <2>4. UnitAfter(c, units[c.lun]) \in Unit
    BY <1>2, UnitAfterIs DEF Shape
  <2>5. state' \in States
    BY <1>5, <2>1, RaisedIs, StatesAre DEF Ep0
  <2>6. Dealt
    BY <1>2, <1>3, <2>1, <2>4, <2>5 DEF Dealt, Shape
  <2> QED
    BY <2>3, <2>6, DealtShape
<1> QED
  BY <1>6, <1>7

\* The units after a command, or an exception, that concerns volume lun.
LEMMA SenseUnits ==
  ASSUME Shape
  PROVE  [units EXCEPT ![lun].sense = TRUE] \in [Lun -> Unit]
  BY DEF Shape, Unit

LEMMA DeviceShape == ASSUME Shape, Device \/ Buttons, Len(events) \in Nat PROVE Shape'
<1>1. CASE EpOperation
  BY <1>1, EpOperationHears DEF EpOperation, Shape
<1>2. CASE TimeOut \/ PastLuns \/ Buttons \/ WriteStuck \/ Abandoned \/ Replied
  BY <1>2, QuietShape
     DEF TimeOut, PastLuns, Buttons, WriteStuck, Abandoned, Replied, bus, Quiet
<1>3. CASE HandleException
  <2>1. units' \in [Lun -> Unit]
    <3>1. PICK a \in BOOLEAN : a = (state = "reset")
      OBVIOUS
    <3>2. lun \in Lun
      BY <1>3 DEF HandleException, Shape
    <3>3. units' \in {units, [units EXCEPT ![lun].prevent = FALSE, ![lun].sense = FALSE,
                                            ![lun].attention = a]}
      BY <1>3, <3>1 DEF HandleException
    <3>4. units[lun] \in Unit
      BY <3>2 DEF Shape
    <3>5. [units[lun] EXCEPT !.prevent = FALSE, !.sense = FALSE, !.attention = a] \in Unit
      BY <3>4 DEF Unit
    <3>6. [units EXCEPT ![lun].prevent = FALSE, ![lun].sense = FALSE, ![lun].attention = a]
          = [units EXCEPT ![lun] = [units[lun] EXCEPT !.prevent = FALSE, !.sense = FALSE,
                                                      !.attention = a]]
      BY <3>2 DEF Shape
    <3> QED
      BY <3>2, <3>3, <3>5, <3>6 DEF Shape
  <2>2. Filling
    BY <1>3, SendStatusFilling DEF HandleException, Filling, Shape
  <2>3. Dealt
    BY <1>3, <2>1, StatesAre DEF HandleException, Dealt, Shape
  <2> QED
    BY <2>2, <2>3, DealtShape
<1>4. CASE GetCommand
  <2>1. state' \in States
    BY <1>4, RaisedIs, StatesAre DEF GetCommand, Ep0, Shape
  <2> QED
    BY <1>4, <2>1 DEF GetCommand, Shape
<1>5. CASE NoneReceived
  <2>1. state' \in States
    BY <1>5, RaisedIs, StatesAre DEF NoneReceived, Shape
  <2> QED
    BY <1>5, <2>1 DEF NoneReceived, Shape, bus
<1>6. CASE Received
  BY <1>6, ReceivedShape
<1>7. CASE ReadPastEnd \/ WritePastEnd \/ ReadSent
  BY <1>7, SenseUnits DEF ReadPastEnd, WritePastEnd, ReadSent, bus, Shape
<1>8. CASE ReadAccess
  <2>1. Filling
    <3>1. CASE bufs' = bufs
      BY <3>1 DEF Filling, Shape
    <3>2. CASE bufs' # bufs
      <4>1. bufs' = [b \in Memory |->
               IF b \in Cells(job.cur, ReadSize(job.todo, job.lba))
               THEN <<"disk", Addressed(lun, part'), Luns[lun].offset + job.lba + b - job.cur>>
               ELSE bufs[b]]
        BY <1>8, <3>2 DEF ReadAccess
      <4> QED
        BY <4>1 DEF Filling, Shape
    <3> QED
      BY <3>1, <3>2
  <2>2. Dealt
    BY <1>8 DEF ReadAccess, Dealt, Shape
  <2> QED
    BY <2>1, <2>2, DealtShape
<1>9. CASE WriteAsk
  BY <1>9, QuietShape DEF WriteAsk, Quiet
<1>10. CASE Filled
  BY <1>10, SenseUnits DEF Filled, Shape, bus
<1>11. CASE FinishNothing \/ FinishReply \/ FinishPadded \/ FinishShort \/ FinishDiscard
  <2>1. state' \in States
    <3>1. Ep0(state) \in States /\ "abort" \in States /\ "reset" \in States
      BY RaisedIs, StatesAre DEF Ep0, Shape
    <3> QED
      BY <1>11, <3>1, RaisedIs
      DEF FinishNothing, FinishReply, FinishPadded, FinishShort, FinishDiscard
  <2> QED
    BY <1>11, <2>1 DEF FinishNothing, FinishReply, FinishPadded, FinishShort, FinishDiscard,
       Finishing, finished, Shape
<1>12. CASE Pad
  <2>1. Filling
    <3>1. PICK v \in [Memory -> BOOLEAN] :
            v = [b \in Memory |-> b \in Cells(job.from, Least(job.left, EpMax))
                                  /\ (b - job.from) * Sector >= job.len]
      OBVIOUS
    <3>2. bufs' = [b \in Memory |-> IF v[b] THEN <<"zero">> ELSE bufs[b]]
      BY <1>12, <3>1 DEF Pad
    <3> QED
      BY <3>2 DEF Filling, Shape
  <2>2. Dealt
    BY <1>12 DEF Pad, Dealt, Shape
  <2> QED
    BY <2>1, <2>2, DealtShape
<1>13. CASE Answer
  BY <1>13, SendStatusFilling, DealtShape DEF Answer, Dealt, Shape
<1>14. CASE StatusOver
  <2>1. Filling
    <3>1. PICK v \in [Memory -> BOOLEAN] :
            v = [b \in Memory |-> \E t \in ToSet(inq) : b - t.from \in 0 .. t.len \div Sector]
      OBVIOUS
    <3>2. bufs' = [b \in Memory |-> IF v[b] THEN bufs[b] ELSE <<"junk">>]
      BY <1>14, <3>1 DEF StatusOver
    <3> QED
      BY <3>2 DEF Filling, Shape
  <2>2. Dealt
    BY <1>14 DEF StatusOver, Dealt, Shape
  <2> QED
    BY <2>1, <2>2, DealtShape
<1> QED
  BY <1>1, <1>2, <1>3, <1>4, <1>5, <1>6, <1>7, <1>8, <1>9, <1>10, <1>11, <1>12, <1>13, <1>14
  DEF Device

\* The events that were not handled are a sequence.
InOrder == \E S : events \in Seq(S)

LEMMA InOrderLen == InOrder => Len(events) \in Nat
  BY DEF InOrder

LEMMA CompletedInOrder ==
  ASSUME InOrder, NEW ep, NEW ok, NEW rest, Completed(ep, ok, rest) PROVE InOrder'
<1>1. PICK S : events \in Seq(S)
  BY DEF InOrder
<1>2. PICK e : e = [ep |-> ep, ok |-> ok, rest |-> rest]
  OBVIOUS
<1>3. PICK U : U = S \cup {e}
  OBVIOUS
<1>4. events \in Seq(U) /\ e \in U
  BY <1>1, <1>3
<1>5. Append(events, e) \in Seq(U)
  BY <1>4
<1> QED
  BY <1>2, <1>5 DEF Completed, InOrder

\* Every step keeps the events in order.
LEMMA StepInOrder == ASSUME InOrder, [Next]_vars PROVE InOrder'
<1>1. CASE EpOperation
  <2>1. events' \in Seq({})
    BY <1>1 DEF EpOperation
  <2> QED
    BY <2>1 DEF InOrder
<1>2. ASSUME UNCHANGED events PROVE InOrder'
  BY <1>2, SMTT(60) DEF InOrder
<1>3. CASE (Device /\ ~EpOperation) \/ Buttons \/ Sleep \/ UNCHANGED vars
  BY <1>2, <1>3 DEF Device, Buttons, Sleep, vars, bus, TimeOut, HandleException, PastLuns,
     GetCommand, NoneReceived, Received, ReadPastEnd, ReadAccess, ReadSent, WriteStuck,
     WritePastEnd, WriteAsk, Filled, Abandoned, FinishNothing, FinishReply, FinishPadded,
     FinishShort, FinishDiscard, finished, Pad, Replied, Answer, StatusOver
<1>4. CASE Transport \/ SendCommand \/ StopEarly \/ BulkReset
  <2>1. PICK ep, ok, rest : Completed(ep, ok, rest)
    BY <1>4, Zenon DEF Transport, SendData, TakeData, TakeStatus, SendCommand, StopEarly, BulkReset
  <2> QED
    BY <2>1, CompletedInOrder
<1> QED
  BY <1>1, <1>3, <1>4 DEF Next

LEMMA InitShape == Init => Shape /\ InOrder
<1> SUFFICES ASSUME Init PROVE Shape /\ InOrder
  OBVIOUS
<1>1. InOrder
  <2>1. events \in Seq({})
    BY DEF Init
  <2> QED
    BY <2>1 DEF InOrder
<1>2. Shape
  BY StatesAre DEF Init, Shape, Unit
<1> QED
  BY <1>1, <1>2

LEMMA StepShape == Shape /\ InOrder /\ [Next]_vars => Shape' /\ InOrder'
<1>1. ASSUME Shape, UNCHANGED vars PROVE Shape'
  BY <1>1, QuietShape DEF vars, bus, Quiet
<1> QED
  BY <1>1, StepInOrder, InOrderLen, TransportShape, DeviceShape DEF Next

\* A step that no longer knows of a reset has carried it out.
LEMMA ResetCarriedOut ==
  ASSUME Shape, InOrder, [Next]_vars, ResetHeard, ~ResetHeard'
  PROVE  state' = "exit" \/ (lun # 0 /\ units'[lun].attention)
<1>1. CASE bulkReset' = bulkReset /\ state' = state
  BY <1>1 DEF ResetHeard
<1>2. CASE EpOperation
  BY <1>2, EpOperationHears, InOrderLen DEF EpOperation, ResetHeard
<1>3. CASE HandleException
  <2>1. state = "reset" /\ lun \in Lun
    BY <1>3 DEF HandleException, ResetHeard, Shape
  <2>2. units' = [units EXCEPT ![lun].prevent = FALSE, ![lun].sense = FALSE,
                               ![lun].attention = TRUE]
    BY <1>3, <2>1 DEF HandleException
  <2>3. units'[lun].attention
    BY <2>1, <2>2 DEF Shape, Unit
  <2> QED
    BY <1>3, <2>3 DEF HandleException
<1>4. CASE GetCommand
  BY <1>4, RaisedIs, StatesAre DEF GetCommand, Ep0, ResetHeard, Shape
<1>5. CASE NoneReceived
  BY <1>5, RaisedIs, StatesAre DEF NoneReceived, bus, ResetHeard, Shape
<1>6. CASE Received
  <2>1. PICK s : s = IF (IF AllUnmounted THEN Tired ELSE 0) > Patience THEN Raised(state, "exit")
                     ELSE state
    OBVIOUS
  <2>2. s # "normal" => state' = s /\ bulkReset' = bulkReset
    BY <1>6, <2>1 DEF Received
  <2>3. s = "normal" => state' = Ep0(s) /\ s \in States
    BY <1>6, <2>1, StatesAre DEF Received
  <2>4. state = "reset" => s \in {"reset", "exit"}
    BY <2>1, RaisedIs, StatesAre
  <2>5. bulkReset \in BOOLEAN
    BY DEF Shape
  <2>6. "reset" \in States
    BY StatesAre
  <2>7. Ep0(s) = "exit" \/ Ep0(s) = "reset" \/ ~(s = "normal" /\ bulkReset)
    BY <2>3, RaisedIs DEF Ep0
  <2> QED
    BY <2>2, <2>3, <2>4, <2>7 DEF ResetHeard
<1>7. CASE FinishNothing \/ FinishReply \/ FinishPadded \/ FinishShort \/ FinishDiscard
  <2>1. state = "normal" /\ bulkReset /\ Ep0(state) \in {"reset", "exit"}
    BY <1>7, RaisedIs, StatesAre DEF FinishNothing, FinishReply, FinishPadded, FinishShort,
       FinishDiscard, Finishing, Ep0, ResetHeard, Shape
  <2>2. Raised(Ep0(state), "abort") \in {"reset", "exit"}
    BY <2>1, RaisedIs, StatesAre
  <2> QED
    BY <1>7, <2>1, <2>2 DEF FinishNothing, FinishReply, FinishPadded, FinishShort,
       FinishDiscard, ResetHeard
<1>8. CASE TimeOut \/ PastLuns \/ Buttons \/ WriteStuck \/ WritePastEnd \/ WriteAsk \/ Filled
           \/ ReadPastEnd \/ ReadAccess \/ ReadSent \/ Abandoned \/ Pad \/ Replied \/ Answer
           \/ StatusOver
  BY <1>8, <1>1 DEF TimeOut, PastLuns, Buttons, WriteStuck, WritePastEnd, WriteAsk, Filled,
     ReadPastEnd, ReadAccess, ReadSent, Abandoned, Pad, Replied, Answer, StatusOver, bus
<1>9. CASE Transport \/ SendCommand \/ StopEarly \/ BulkReset \/ Sleep \/ UNCHANGED vars
  BY <1>9, <1>1, Zenon DEF Transport, SendData, TakeData, TakeStatus, SendCommand, StopEarly, BulkReset,
     Sleep, device, bus, vars
<1> QED
  BY <1>2, <1>3, <1>4, <1>5, <1>6, <1>7, <1>8, <1>9 DEF Next, Device

\* A bulk reset that _xusb_handle_ep0 has noted, or the exception it became,
\* is never displaced by another exception (an abort or a fault that follows
\* from it), and carrying it out leaves the attention the host is told of.
THEOREM ResetKeptHolds == Spec => ResetKept
<1>1. Shape /\ InOrder /\ [Next]_vars =>
        [ResetHeard /\ ~ResetHeard' =>
           state' = "exit" \/ (lun # 0 /\ units'[lun].attention)]_vars
  BY ResetCarriedOut
<1> QED
  BY <1>1, InitShape, StepShape, PTL DEF Spec, ResetKept

-----------------------------------------------------------------------------
(* Answers.                                                                *)

InDone  == [ep |-> "in", ok |-> TRUE, rest |-> 0]
OutDone == [ep |-> "out", ok |-> TRUE, rest |-> 0]
Trb == [from : {InBuf, OutBuf}, len : Nat]

Moving == {"read", "write"}
Claimed(c) == c.op \in Moving /\ Inside(c)

\* A read that goes past the end may leave one transfer unwaited for.
Loose(c) == c.op = "read" /\ ~Inside(c)
Lag == IF Loose(host.cmd) THEN 1 ELSE 0

\* Where the host is when it has so much of command c to move.
Phase(c, left) == IF left = 0 THEN "status" ELSE c.dir

\* The answer st with residue r is true of the host's command.
Truth(st, r) ==
  Claimed(host.cmd) /\ Reached =>
    /\ st = "pass" => r = host.cmd.size - From(host.cmd)
    /\ host.good * Sector = host.cmd.size - r

\* So many bytes of the command are known to be right.
Good(n) == Claimed(host.cmd) /\ Reached => host.good * Sector = n

\* Kinds of values, and what only an upset changes.
Kinds ==
  /\ tx \in [{"in", "out"} -> [count : {0, 1}, bytes : Int]]
  /\ DOMAIN job = DOMAIN NoJob
  /\ job.from \in {InBuf, OutBuf} /\ job.cur \in {InBuf, OutBuf}
  /\ DOMAIN host = {"phase", "cmd", "tag", "left", "good", "astray", "status", "residue"}
  /\ host.left \in Nat /\ host.good \in Nat

Untroubled ==
  /\ ~bulkReset /\ ~ignore /\ ~job.short /\ state \in {"normal", "exit"}
  /\ upsets = {} /\ lun # 0 => Luns[lun].part \in {"sd", part}

\* Between commands.
ReadyAt == {"top", "cbw", "end", "astray"}

Idle ==
  /\ host.phase = "idle" /\ inq = <<>>
  /\ host.status # "none" => Truth(host.status, host.residue)

Late ==
  /\ host.phase = "status" /\ ~Claimed(host.cmd) /\ events = <<>>
  /\ \E f \in {InBuf, OutBuf} : inq = <<[from |-> f, len |-> 1]>>

Listening == IF queued THEN outq = <<1>> /\ tx.out = [count |-> 1, bytes |-> 1] ELSE outq = <<>>

Sent ==
  /\ host.phase = Phase(host.cmd, host.left) /\ host.left = host.cmd.size
  /\ host.good = 0 /\ host.cmd \in Commands
  /\ inq = <<>> /\ outq = <<>>

Unheard ==
  /\ bufs[OutBuf][1] = "cbw" /\ bufs[OutBuf][2] = host.cmd /\ tx.out.bytes = 1
  /\ \/ tx.out.count = 0 /\ events = <<>> /\ pc = "cbw" /\ res = "ok"
     \/ tx.out.count = 1 /\ events \in {<<OutDone>>, <<InDone, OutDone>>}

Dropped == pc \in {"end", "astray"} \/ (pc = "top" /\ state = "exit")

Ready ==
  /\ \/ Idle /\ events \in {<<>>, <<InDone>>} /\ Listening
     \/ Late /\ Listening
     \/ Sent /\ (IF queued THEN Unheard ELSE Dropped)
  /\ pc = "cbw" => queued /\ state = "normal"

\* The answer is on its way.
Outstanding == Len(inq) + Len(events)
Waited(n) == events \in {<<>>, <<InDone>>, <<InDone, InDone>>} /\ Outstanding <= n + Lag
Busy == IF WaitOver THEN 0 ELSE 1

OnItsWay ==
  /\ host.phase = Phase(host.cmd, host.left) /\ Truth(bufs[job.from][3], bufs[job.from][4])
  /\ \/ host.left = 0 /\ inq = <<[from |-> job.from, len |-> 1]>>
     \/ /\ Loose(host.cmd) /\ host.cmd.dir = "in"
        /\ \E t \in Trb :
             t.len = host.left /\ t.len > 0 /\ inq = <<t, [from |-> job.from, len |-> 1]>>

AtStatus == outq = <<>> /\ ~queued /\ state = "normal" /\ Waited(Busy) /\ (Idle \/ OnItsWay)

\* A command is carried out.
Taken ==
  /\ cmd = host.cmd /\ cmd \in Commands /\ lun = cmd.lun
  /\ host.phase = Phase(cmd, host.left)
  /\ ~queued /\ state = "normal"
  /\ job.residue \in 0 .. cmd.size /\ job.left \in 0 .. cmd.size
  /\ cmd.op \in Moving => Whole(job.residue) /\ Whole(job.left)

\* If it says it passed, it moved all of it.
Settled == cmd.op \in Moving =>
  job.phase \/ units[lun].sense \/ job.residue = cmd.size - From(cmd)

Stored == From(cmd) - job.todo
Halfway ==
  /\ job.todo \in 1 .. From(cmd) /\ Whole(job.todo)
  /\ job.residue = cmd.size - Stored /\ job.lba = cmd.lba + Stored \div Sector

\* ... that moves nothing to the host.
Still == outq = <<>> /\ events = <<>> /\ host.left = job.left
Coming(n) ==
  /\ res = "ok"
  /\ \/ outq = <<n>> /\ events = <<>> /\ tx.out.count = 1 /\ host.left = job.left + n
     \/ outq = <<>> /\ events = <<OutDone>> /\ tx.out.count = 1 /\ host.left = job.left
     \/ outq = <<>> /\ events = <<>> /\ tx.out.count = 0 /\ host.left = job.left

Writing ==
  /\ cmd.op = "write" /\ cmd.dir = "out" /\ ~Luns[lun].ro /\ ~units[lun].unmounted
  /\ Halfway /\ Asked <= From(cmd)

AtWrite ==
  /\ Writing /\ Still
  /\ \/ Stored = Asked
     \/ Stored < Asked /\ cmd.lba + Asked \div Sector > Luns[lun].sectors

Arrived ==
  \A i \in 0 .. job.posted \div Sector - 1 :
     bufs[OutBuf + i] = <<"data", Stored \div Sector + i, host.tag>>

AtFill ==
  /\ Writing /\ Coming(job.posted) /\ tx.out.bytes = job.posted
  /\ job.posted \in 1 .. Buffer /\ Whole(job.posted) /\ Stored = Asked - job.posted
  /\ job.lba < Luns[lun].sectors
  /\ outq = <<>> => Arrived

Throwing == \E n \in 1 .. EpMax : Whole(n) /\ Coming(n)

Outs ==
  /\ pc \in {"write", "fill", "finish", "discard", "replied", "hung", "overrun"}
  /\ inq = <<>> /\ Whole(job.left) /\ job.left <= job.residue
  /\ Good(cmd.size - job.residue)
  /\ pc = "write" => AtWrite
  /\ pc = "fill" => AtFill
  /\ pc = "finish" => Still /\ Settled
  /\ pc = "discard" => Throwing /\ job.left = 0 /\ Settled /\ cmd.dir = "out"
  /\ pc = "overrun" => Throwing
  /\ pc = "replied" => Still /\ job.left = 0 /\ Settled
  /\ pc = "hung" => Still

\* ... that moves something to the host: what it has to come.
Due(rest) ==
  \/ inq = <<>> /\ host.left = rest
  \/ \E t \in Trb :
       /\ inq = <<t>> /\ t.len > 0 /\ host.left = t.len + rest
       /\ Whole(t.len) \/ rest = 0
  \/ \E t, u \in Trb :
       /\ Loose(host.cmd)
       /\ inq = <<t, u>> /\ t.len > 0 /\ u.len > 0 /\ host.left = t.len + u.len + rest
       /\ Whole(t.len) /\ Whole(u.len)

Moved == host.cmd.size - host.left

\* The sectors of memory from `from` on are what the host expects next.
Holds(from, len, k) ==
  \A i \in 0 .. len \div Sector - 1 :
    from + i \in Memory /\ bufs[from + i] = Expected(host.cmd, k + i)
Correct(from, len, k) == Claimed(host.cmd) /\ Reached => Holds(from, len, k)

Reading ==
  /\ cmd.op = "read" /\ Halfway /\ job.lba <= Luns[lun].sectors
  /\ Due(job.residue)
  /\ events \in {<<>>, <<InDone>>} /\ Outstanding <= 1
  /\ job.first \/ WaitOver => Outstanding = 0
  /\ Good(Moved)
  /\ \A t \in Trb : inq = <<t>> =>
       t.from # job.cur /\ t.len <= Buffer /\ Correct(t.from, t.len, Moved \div Sector)

AtSent ==
  /\ Reading /\ res = "ok"
  /\ job.len \in {0, ReadSize(job.todo, job.lba)}
  /\ Correct(job.cur, job.len, Stored \div Sector)

\* What is left of a read, or the reply.
Left ==
  /\ job.len \in 0 .. Buffer /\ (cmd.op \in Moving => Whole(job.len))
  /\ Correct(job.from, job.len, Moved \div Sector)
AtFinish ==
  /\ Left /\ Settled /\ Waited(0) /\ Good(Moved)
  /\ job.residue + job.len \in 1 .. cmd.size
  /\ Due(job.residue + job.len)
AtPad ==
  /\ Left /\ Settled /\ Waited(0)
  /\ job.left > 0 /\ job.len <= job.left
  /\ Due(job.left)
  /\ Good(cmd.size - job.residue - job.len)
  /\ job.len > 0 => Good(Moved)
AtReply ==
  /\ Settled /\ Waited(Busy) /\ Due(job.left)
  /\ job.left > 0 => job.len = 0
  /\ inq = <<>> => Good(cmd.size - job.residue)
  /\ \A t \in Trb : inq = <<t>> => \E r \in 0 .. 2 :
       Claimed(cmd) /\ Reached =>
         /\ Right(t, Moved) = 0 .. r - 1
         /\ (host.good + r) * Sector = cmd.size - job.residue
AtReplied == Settled /\ Waited(0) /\ Due(0) /\ Good(cmd.size - job.residue)

Ins ==
  /\ pc \in {"read", "sent", "finish", "pad", "reply", "replied", "overrun"}
  /\ outq = <<>>
  /\ pc = "read" => Reading
  /\ pc = "sent" => AtSent
  /\ pc = "finish" => AtFinish
  /\ pc = "pad" => AtPad
  /\ pc = "reply" => AtReply
  /\ pc = "replied" => AtReplied
  /\ pc = "overrun" => Waited(1) /\ Due(job.left)

Serving == {"read", "sent", "write", "fill", "finish", "pad", "reply", "discard", "replied",
            "hung", "overrun"}
InStep ==
  /\ Kinds /\ Untroubled /\ pc \in ReadyAt \cup Serving \cup {"status"}
  /\ pc \in ReadyAt => Ready
  /\ pc = "status" => AtStatus
  /\ pc \in Serving => Taken /\ (IF cmd.dir = "in" THEN Ins ELSE Outs)

-----------------------------------------------------------------------------
(* How the parts are put together.                                         *)

\* What a command of the host is.
LEMMA CommandIs ==
  ASSUME NEW c \in Commands
  PROVE  /\ c.size \in Nat /\ c.want \in Nat /\ c.lba \in Nat /\ c.lun \in Lun
         /\ c.dir \in {"in", "out", "none"} /\ (c.size = 0 <=> c.dir = "none")
         /\ From(c) \in Nat /\ From(c) <= c.size
         /\ Luns[c.lun].sectors \in Nat \ {0} /\ Luns[c.lun].offset \in Nat
         /\ c.op \in Moving \/ c.dir = "out" => Whole(c.size)
         /\ c.op \in Moving => Whole(From(c))
<1>1. /\ c.size \in Nat /\ c.want \in Nat /\ c.lba \in Nat /\ c.lun \in Lun
      /\ c.dir \in {"in", "out", "none"}
  BY GadgetAssumption DEF Command
<1>2. c.size = 0 <=> c.dir = "none"
  BY GadgetAssumption
<1>3. Want(c) \in Nat /\ (Want(c) = 0 \/ Want(c) = c.want)
  BY <1>1 DEF Want
<1>4. From(c) \in Nat /\ From(c) <= c.size /\ From(c) \in {Want(c), c.size}
  BY <1>1, <1>3 DEF From, Least
<1>5. Luns[c.lun].sectors \in Nat \ {0} /\ Luns[c.lun].offset \in Nat
  <2> DEFINE V == [part : Parts, offset : Nat, sectors : Nat \ {0}, ro : BOOLEAN]
  <2>1. Luns \in Seq(V)
    BY GadgetAssumption
  <2> HIDE DEF V
  <2>2. Luns[c.lun] \in V
    BY <1>1, <2>1 DEF Lun
  <2> QED
    BY <2>2 DEF V
<1>6. c.op \in Moving \/ c.dir = "out" => Whole(c.size)
  BY GadgetAssumption DEF Moving
<1>7. c.op \in Moving => Whole(c.want)
  BY GadgetAssumption DEF Moving
<1>8. Whole(0)
  BY DEF Whole, Sector
<1> QED
  BY <1>1, <1>2, <1>3, <1>4, <1>5, <1>6, <1>7, <1>8

LEMMA InStepReady ==
  ASSUME Kinds', Untroubled', pc' \in ReadyAt, Ready'
  PROVE  InStep'
  BY DEF InStep, ReadyAt, Serving

LEMMA InStepStatus ==
  ASSUME Kinds', Untroubled', pc' = "status", AtStatus'
  PROVE  InStep'
  BY DEF InStep, ReadyAt, Serving

LEMMA InStepOuts ==
  ASSUME Kinds', Untroubled', pc' \in Serving, Taken', cmd'.dir # "in", Outs'
  PROVE  InStep'
  BY DEF InStep, ReadyAt, Serving

LEMMA InStepIns ==
  ASSUME Kinds', Untroubled', pc' \in Serving, Taken', cmd'.dir = "in", Ins'
  PROVE  InStep'
  BY DEF InStep, ReadyAt, Serving

LEMMA InStepParts ==
  ASSUME InStep
  PROVE  /\ Kinds /\ Untroubled /\ pc \in ReadyAt \cup Serving \cup {"status"}
         /\ pc \in ReadyAt => Ready
         /\ pc = "status" => AtStatus
         /\ pc \in Serving => Taken
         /\ pc \in Serving /\ cmd.dir = "in" => Ins
         /\ pc \in Serving /\ cmd.dir # "in" => Outs
  BY DEF InStep

\* An upset of a calm behaviour is the first one, and a fault.
LEMMA CalmUpset ==
  ASSUME NEW k, Upset(k), Calm'
  PROVE  k = "fault" /\ upsets = {} /\ upsets' = {"fault"} /\ Calm
  BY DEF Upset, Calm

\* A step that leaves the kinds and the calm alone.
LEMMA KindsKept == ASSUME Kinds, UNCHANGED <<tx, job, host>> PROVE Kinds'
  BY DEF Kinds

LEMMA UntroubledKept ==
  ASSUME Untroubled, UNCHANGED <<bulkReset, ignore, job, state, upsets, lun, part>>
  PROVE  Untroubled'
  BY DEF Untroubled

LEMMA NotServed ==
  ASSUME TimeOut, Calm' PROVE ~Served /\ upsets' = upsets
<1>1. CASE Served
  <2>1. Upset("pause")
    BY <1>1 DEF TimeOut
  <2> QED
    BY <2>1, CalmUpset
<1> QED
  BY <1>1 DEF TimeOut

LEMMA WholeSum ==
  ASSUME NEW a \in Int, NEW b \in Int, NEW c, c = a + b \/ c = a - b, Whole(a), Whole(b)
  PROVE  Whole(c)
  BY DEF Whole, Sector

\* Short rings.
LEMMA AppendIs ==
  ASSUME NEW x, NEW y, NEW s, s = <<x>> PROVE Append(s, y) = <<x, y>>
<1>1. PICK T : T = {x, y}
  OBVIOUS
<1>2. s \in Seq(T) /\ Len(s) = 1 /\ s[1] = x /\ y \in T
  BY <1>1
<1>3. PICK r : r = Append(s, y)
  OBVIOUS
<1>4. r \in Seq(T)
  BY <1>2, <1>3
<1>5. Len(r) = 2
  BY <1>2, <1>3
<1>6. r[1] = x
  BY <1>2, <1>3
<1>7. r[2] = y
  BY <1>2, <1>3
<1>8. r = <<x, y>>
  BY <1>4, <1>5, <1>6, <1>7
<1> QED
  BY <1>3, <1>8

-----------------------------------------------------------------------------
(* Waits.                                                                  *)

\* What TimeOut leaves alone.
LEMMA TimeOutFrame ==
  ASSUME TimeOut, Calm', Kinds, Untroubled
  PROVE  /\ Kinds' /\ Untroubled' /\ pc' = pc /\ WaitOver' /\ res' = "timeout" /\ events = <<>>
         /\ UNCHANGED <<bus, pc, state, lun, cmd, job, queued, ignore, units, timeouts, part,
                        host, asleep, upsets>>
         /\ ~Served /\ ~WaitOver
<1>1. ~Served /\ upsets' = upsets
  BY NotServed
<1>2. /\ res' = "timeout" /\ events = <<>> /\ ~WaitOver
      /\ UNCHANGED <<bus, pc, state, lun, cmd, job, queued, ignore, units, timeouts, part,
                        host, asleep>>
  BY DEF TimeOut
<1>3. Kinds' /\ Untroubled'
  BY <1>1, <1>2, KindsKept, UntroubledKept DEF bus
<1> QED
  BY <1>1, <1>2, <1>3 DEF WaitOver

\* At a wait for a command nothing comes of it; the waits for data of a calm
\* host do not time out; and after the others nothing is left to wait for.
LEMMA TimeOutInStep ==
  ASSUME InStep, TimeOut, Calm' PROVE InStep'
<1>1. Kinds /\ Untroubled /\ Kinds' /\ Untroubled'
  BY InStepParts, TimeOutFrame
<1>2. pc' = pc /\ WaitOver' /\ res' = "timeout" /\ events = <<>> /\ ~Served /\ ~WaitOver
      /\ UNCHANGED <<outq, inq, events, tx, bufs, state, lun, cmd, job, queued, units, part, host, upsets>>
  BY <1>1, TimeOutFrame DEF bus
<1>3. CASE pc = "cbw"
  <2>1. Ready
    BY <1>3, InStepParts DEF ReadyAt
  <2>2. ~(Sent /\ Unheard)
    BY <1>2, <1>3 DEF Unheard, WaitOver, Way
  <2>3. Ready'
    <3>1. CASE Idle /\ Listening
      BY <1>2, <1>3, <2>1, <3>1 DEF Ready, Idle, Listening, Truth, Reached
    <3>2. CASE Late /\ Listening
      BY <1>2, <1>3, <2>1, <3>2 DEF Ready, Late, Listening
    <3> QED
      BY <1>3, <2>1, <2>2, <3>1, <3>2 DEF Ready
  <2> QED
    BY <1>1, <1>2, <1>3, <2>3, InStepReady DEF ReadyAt
<1>4. CASE pc \in {"fill", "discard"}
  <2>1. Taken /\ cmd.dir # "in" /\ Outs
    <3>1. pc \in Serving
      BY <1>4 DEF Serving
    <3>2. ~Ins
      BY <1>4 DEF Ins
    <3> QED
      BY <3>1, <3>2, InStepParts
  <2>2. PICK n : Coming(n) /\ (n \in 1 .. EpMax \/ n \in 1 .. Buffer)
    BY <1>4, <2>1 DEF Outs, AtFill, Throwing
  <2>3. n > 0 /\ n \in Nat
    BY <2>2 DEF EpMax, Buffer, Sector
  <2>4. outq = <<n>> /\ host.left = job.left + n
    BY <1>2, <1>4, <2>2 DEF Coming, WaitOver, Way
  <2>5. host.left # 0 /\ cmd.dir = "out"
    <3>1. job.left \in Nat
      BY <2>1, CommandIs DEF Taken
    <3>2. host.left # 0
      BY <2>3, <2>4, <3>1
    <3> QED
      BY <1>4, <2>1, <3>2 DEF Outs, AtFill, Writing
  <2> QED
    BY <1>2, <1>4, <2>1, <2>4, <2>5 DEF Served, Way, Taken, Phase
<1>5. CASE pc = "reply"
  <2>1. Taken /\ cmd.dir = "in" /\ Ins
    <3>1. pc \in Serving
      BY <1>5 DEF Serving
    <3>2. ~Outs
      BY <1>5 DEF Outs
    <3> QED
      BY <3>1, <3>2, InStepParts
  <2>2. job.left \in Nat /\ AtReply
    BY <1>5, <2>1, CommandIs DEF Taken, Ins
  <2>3. inq = <<>>
    <3> SUFFICES ASSUME inq # <<>> PROVE FALSE
      OBVIOUS
    <3>1. host.left # 0
      BY <2>2 DEF AtReply, Due, Trb
    <3>2. host.phase = "in"
      BY <2>1, <3>1 DEF Taken, Phase
    <3> QED
      BY <1>2, <1>5, <3>2 DEF Served, Way
  <2>4. Waited(Busy)'
    <3>1. Busy' = 0 /\ events' = <<>> /\ inq' = <<>> /\ Lag' = Lag /\ Lag \in {0, 1}
      BY <1>2, <2>3 DEF Busy, Lag
    <3> QED
      BY <3>1 DEF Waited, Outstanding
  <2>5. AtReply'
    BY <1>2, <2>2, <2>3, <2>4 DEF AtReply, Settled, Due, Good, Reached
  <2>6. Ins'
    BY <1>2, <1>5, <2>1, <2>5 DEF Ins
  <2>7. Taken'
    BY <1>2, <2>1 DEF Taken
  <2> QED
    BY <1>1, <1>2, <1>5, <2>1, <2>6, <2>7, InStepIns DEF Serving
<1>6. CASE pc = "status"
  <2>1. AtStatus
    BY <1>6, InStepParts
  <2>2. inq = <<>>
    <3> SUFFICES ASSUME inq # <<>> PROVE FALSE
      OBVIOUS
    <3>1. OnItsWay
      BY <2>1 DEF AtStatus, Idle
    <3>2. host.phase \in {"in", "status"}
      BY <3>1 DEF OnItsWay, Phase
    <3> QED
      BY <1>2, <1>6, <3>2 DEF Served, Way
  <2>3. Idle /\ Idle'
    <3>1. ~OnItsWay
      BY <2>2 DEF OnItsWay
    <3>2. Idle
      BY <2>1, <3>1 DEF AtStatus
    <3> QED
      BY <1>2, <3>2 DEF Idle, Truth, Reached
  <2>4. Waited(Busy)'
    <3>1. Busy' = 0 /\ events' = <<>> /\ inq' = <<>> /\ Lag' = Lag /\ Lag \in {0, 1}
      BY <1>2, <2>2 DEF Busy, Lag
    <3> QED
      BY <3>1 DEF Waited, Outstanding
  <2>5. AtStatus'
    BY <1>2, <2>1, <2>3, <2>4 DEF AtStatus
  <2> QED
    BY <1>1, <1>2, <1>6, <2>5, InStepStatus
<1> QED
  BY <1>3, <1>4, <1>5, <1>6 DEF TimeOut, Waits

TxKind == [{"in", "out"} -> [count : {0, 1}, bytes : Int]]
Handling == {"tx", "reset", "res"}

\* One event of a transfer to the host.
LEMMA HandleIn ==
  ASSUME NEW s, DOMAIN s = Handling, s.tx \in TxKind, NEW h, h = HandleEvent(s, InDone)
  PROVE  /\ DOMAIN h = Handling /\ h.tx \in TxKind /\ h.tx["in"].count = 0
         /\ h.tx["out"] = s.tx["out"] /\ h.reset = s.reset /\ h.res = "ok"
<1>1. PICK v : v = [count |-> IF s.tx["in"].count > 0 THEN s.tx["in"].count - 1 ELSE 0,
                    bytes |-> s.tx["in"].bytes - 0]
  OBVIOUS
<1>2. v \in [count : {0, 1}, bytes : Int] /\ v.count = 0
  BY <1>1 DEF TxKind
<1>3. h = [s EXCEPT !.tx["in"] = v, !.res = "ok"]
  BY <1>1 DEF HandleEvent, InDone
<1>4. DOMAIN h = Handling /\ h.tx = [s.tx EXCEPT !["in"] = v] /\ h.reset = s.reset /\ h.res = "ok"
  BY <1>3 DEF Handling
<1> QED
  BY <1>2, <1>4 DEF TxKind

\* One event of a transfer from the host.
LEMMA HandleOut ==
  ASSUME NEW s, DOMAIN s = Handling, s.tx \in TxKind, NEW h, h = HandleEvent(s, OutDone)
  PROVE  /\ DOMAIN h = Handling /\ h.tx \in TxKind /\ h.tx["out"].count = 0
         /\ h.tx["out"].bytes = s.tx["out"].bytes
         /\ h.tx["in"] = s.tx["in"] /\ h.reset = s.reset /\ h.res = "ok"
<1>1. PICK v : v = [count |-> IF s.tx["out"].count > 0 THEN s.tx["out"].count - 1 ELSE 0,
                    bytes |-> s.tx["out"].bytes - 0]
  OBVIOUS
<1>2. v \in [count : {0, 1}, bytes : Int] /\ v.count = 0 /\ v.bytes = s.tx["out"].bytes
  BY <1>1 DEF TxKind
<1>3. h = [s EXCEPT !.tx["out"] = v, !.res = "ok"]
  BY <1>1 DEF HandleEvent, OutDone
<1>4. DOMAIN h = Handling /\ h.tx = [s.tx EXCEPT !["out"] = v] /\ h.reset = s.reset /\ h.res = "ok"
  BY <1>3 DEF Handling
<1> QED
  BY <1>2, <1>4 DEF TxKind

\* The wait handles one or two events.
LEMMA EpOperationHandles ==
  ASSUME EpOperation, Kinds, NEW e, events \in {<<e>>, <<InDone, e>>}
  PROVE  \E s : /\ DOMAIN s = Handling /\ s.tx \in TxKind
                /\ s.tx["out"] = tx["out"] /\ s.reset = bulkReset
                /\ HandleEvent(s, e) = [tx |-> tx', reset |-> bulkReset', res |-> res']
<1>1. DOMAIN Before = Handling /\ Before.tx \in TxKind /\ Before.tx["out"] = tx["out"]
      /\ Before.reset = bulkReset
  BY DEF Before, Kinds, TxKind, Handling
<1>2. PICK n \in Nat : n = Len(events) /\ n \in {1, 2} /\ events[n] = e
                       /\ (n = 2 => events[1] = InDone)
  <2>1. PICK d : d = InDone
    OBVIOUS
  <2>2. CASE events = <<e>>
    <3>1. Len(events) = 1 /\ events[1] = e
      BY <2>2
    <3> QED
      BY <3>1
  <2>3. CASE events = <<d, e>>
    <3>1. Len(events) = 2 /\ events[2] = e /\ events[1] = d
      BY <2>3
    <3> QED
      BY <2>1, <3>1
  <2> QED
    BY <2>1, <2>2, <2>3
<1>3. Handled[0] = Before /\ \A i \in 1 .. n : Handled[i] = HandleEvent(Handled[i - 1], events[i])
  BY <1>2, HandledSteps
<1>4. ASSUME NEW s, DOMAIN s = Handling, HandleEvent(s, e) = Handled[n]
      PROVE  HandleEvent(s, e) = [tx |-> tx', reset |-> bulkReset', res |-> res']
  <2>1. tx' = Handled[n].tx /\ bulkReset' = Handled[n].reset /\ res' = Handled[n].res
    BY <1>2 DEF EpOperation
  <2>2. PICK h : h = HandleEvent(s, e)
    OBVIOUS
  <2>3. h = [tx |-> h.tx, reset |-> h.reset, res |-> h.res]
    <3>1. CASE e.ep = "reset"
      BY <1>4, <2>2, <3>1 DEF HandleEvent, Handling
    <3>2. CASE e.ep # "reset" /\ ~e.ok
      BY <1>4, <2>2, <3>2 DEF HandleEvent, Handling
    <3>3. CASE e.ep # "reset" /\ e.ok
      BY <1>4, <2>2, <3>3 DEF HandleEvent, Handling
    <3> QED
      BY <3>1, <3>2, <3>3
  <2> QED
    BY <1>4, <2>1, <2>2, <2>3
<1>5. CASE n = 1
  <2>1. HandleEvent(Before, e) = Handled[n]
    BY <1>2, <1>3, <1>5
  <2> QED
    BY <1>1, <1>4, <2>1
<1>6. CASE n = 2
  <2>1. Handled[1] = HandleEvent(Before, InDone) /\ Handled[n] = HandleEvent(Handled[1], e)
    BY <1>2, <1>3, <1>6
  <2>2. PICK s : s = Handled[1]
    OBVIOUS
  <2>3. DOMAIN s = Handling /\ s.tx \in TxKind /\ s.tx["out"] = tx["out"] /\ s.reset = bulkReset
    BY <1>1, <2>1, <2>2, HandleIn
  <2> QED
    BY <1>4, <2>1, <2>2, <2>3
<1> QED
  BY <1>2, <1>5, <1>6

\* What a wait for transfers to the host does.
LEMMA EpOperationIn ==
  ASSUME EpOperation, Kinds, Untroubled, events \in {<<>>, <<InDone>>, <<InDone, InDone>>}
  PROVE  /\ tx' \in TxKind /\ tx'["in"].count = 0 /\ tx'["out"] = tx["out"]
         /\ bulkReset' = bulkReset /\ res' = "ok" /\ events' = <<>>
<1>1. events \in {<<InDone>>, <<InDone, InDone>>}
  BY DEF EpOperation
<1>2. PICK s : /\ DOMAIN s = Handling /\ s.tx \in TxKind
               /\ s.tx["out"] = tx["out"] /\ s.reset = bulkReset
               /\ HandleEvent(s, InDone) = [tx |-> tx', reset |-> bulkReset', res |-> res']
  BY <1>1, EpOperationHandles
<1>3. PICK h : h = [tx |-> tx', reset |-> bulkReset', res |-> res']
  OBVIOUS
<1>4. h = HandleEvent(s, InDone)
  BY <1>2, <1>3
<1>5. /\ h.tx \in TxKind /\ h.tx["in"].count = 0
      /\ h.tx["out"] = s.tx["out"] /\ h.reset = s.reset /\ h.res = "ok"
  BY <1>2, <1>4, HandleIn
<1>6. events' = <<>>
  BY DEF EpOperation
<1> QED
  BY <1>2, <1>3, <1>5, <1>6

\* What a wait for a transfer from the host does, once it has come.
LEMMA EpOperationOut ==
  ASSUME EpOperation, Kinds, Untroubled, events \in {<<OutDone>>, <<InDone, OutDone>>}
  PROVE  /\ tx' \in TxKind /\ tx'["out"].count = 0 /\ tx'["out"].bytes = tx["out"].bytes
         /\ bulkReset' = bulkReset /\ res' = "ok" /\ events' = <<>>
<1>2. PICK s : /\ DOMAIN s = Handling /\ s.tx \in TxKind
               /\ s.tx["out"] = tx["out"] /\ s.reset = bulkReset
               /\ HandleEvent(s, OutDone) = [tx |-> tx', reset |-> bulkReset', res |-> res']
  BY EpOperationHandles
<1>3. PICK h : h = [tx |-> tx', reset |-> bulkReset', res |-> res']
  OBVIOUS
<1>4. h = HandleEvent(s, OutDone)
  BY <1>2, <1>3
<1>5. /\ h.tx \in TxKind /\ h.tx["out"].count = 0 /\ h.tx["out"].bytes = s.tx["out"].bytes
      /\ h.reset = s.reset /\ h.res = "ok"
  BY <1>2, <1>4, HandleOut
<1>6. events' = <<>>
  BY DEF EpOperation
<1> QED
  BY <1>2, <1>3, <1>5, <1>6

\* At a place of Serving, the parts that hold there.
LEMMA AtIns ==
  ASSUME InStep, pc \in {"read", "sent", "pad", "reply"} \/ (pc \in Serving /\ cmd.dir = "in")
  PROVE  Taken /\ cmd.dir = "in" /\ Ins /\ pc \in Serving
<1>1. pc \in Serving
  BY DEF Serving
<1>2. pc \in {"read", "sent", "pad", "reply"} => ~Outs
  BY DEF Outs
<1> QED
  BY <1>1, <1>2, InStepParts

LEMMA AtOuts ==
  ASSUME InStep, pc \in {"write", "fill", "discard", "hung"} \/ (pc \in Serving /\ cmd.dir # "in")
  PROVE  Taken /\ cmd.dir # "in" /\ Outs /\ pc \in Serving
<1>1. pc \in Serving
  BY DEF Serving
<1>2. pc \in {"write", "fill", "discard", "hung"} => ~Ins
  BY DEF Ins
<1> QED
  BY <1>1, <1>2, InStepParts

LEMMA LagIs == Lag \in {0, 1} /\ (Lag = 1 <=> Loose(host.cmd))
  BY DEF Lag

LEMMA DueLen == ASSUME NEW r, Due(r) PROVE Len(inq) \in {0, 1, 2}
  BY DEF Due

\* What was waited for has come: one less is outstanding.
LEMMA WaitedOver ==
  ASSUME Waited(Busy), Len(inq) \in {0, 1, 2}, events # <<>>, events' = <<>>, WaitOver',
         UNCHANGED <<inq, host>>
  PROVE  Waited(Busy)'
<1>1. Busy' = 0 /\ Lag' = Lag /\ Busy \in {0, 1}
  BY DEF Busy, Lag
<1>2. Len(events) \in {1, 2} /\ Len(events') = 0
  BY DEF Waited
<1>3. Len(inq) + Len(events) <= Busy + Lag
  BY DEF Waited, Outstanding
<1>4. Len(inq') + Len(events') <= Busy' + Lag'
  BY <1>1, <1>2, <1>3, LagIs
<1> QED
  BY <1>4 DEF Waited, Outstanding

LEMMA EpOperationInStep ==
  ASSUME InStep, EpOperation, Calm' PROVE InStep'
<1>1. Kinds /\ Untroubled
  BY InStepParts
<1>2. pc' = pc /\ events # <<>> /\ events' = <<>> /\ ~WaitOver
      /\ UNCHANGED <<outq, inq, bufs, state, lun, cmd, job, queued, ignore, units, part, host, upsets>>
  BY DEF EpOperation
<1>3. ASSUME tx' \in TxKind, bulkReset' = bulkReset PROVE Kinds' /\ Untroubled'
  BY <1>1, <1>2, <1>3 DEF Kinds, Untroubled, TxKind
<1>4. CASE pc = "cbw"
  <2>1. Ready
    BY <1>4, InStepParts DEF ReadyAt
  <2>2. CASE Idle /\ events \in {<<>>, <<InDone>>} /\ Listening
    <3>1. /\ tx' \in TxKind /\ tx'["out"] = tx["out"] /\ bulkReset' = bulkReset /\ res' = "ok"
      BY <1>1, <2>2, EpOperationIn
    <3>2. Idle' /\ events' \in {<<>>, <<InDone>>} /\ Listening'
      BY <1>2, <2>2, <3>1 DEF Idle, Listening, Truth, Reached
    <3>3. Ready'
      BY <1>2, <2>1, <3>2 DEF Ready
    <3> QED
      BY <1>2, <1>3, <1>4, <3>1, <3>3, InStepReady DEF ReadyAt
  <2>3. CASE Sent /\ Unheard /\ queued
    <3>1. /\ tx' \in TxKind /\ tx'["out"].count = 0 /\ tx'["out"].bytes = 1
          /\ bulkReset' = bulkReset /\ res' = "ok"
      <4>1. events \in {<<OutDone>>, <<InDone, OutDone>>} /\ tx["out"].bytes = 1
        BY <1>2, <2>3 DEF Unheard
      <4> QED
        BY <1>1, <4>1, EpOperationOut
    <3>2. Sent' /\ Unheard' /\ queued'
      BY <1>2, <1>4, <2>3, <3>1 DEF Sent, Unheard
    <3>3. Ready'
      BY <1>2, <2>1, <3>2 DEF Ready
    <3> QED
      BY <1>2, <1>3, <1>4, <3>1, <3>3, InStepReady DEF ReadyAt
  <2> QED
    BY <1>2, <1>4, <2>1, <2>2, <2>3 DEF Ready, Late
<1>5. CASE pc \in {"fill", "discard"}
  <2>1. Taken /\ cmd.dir # "in" /\ Outs
    BY <1>5, AtOuts
  <2>2. ASSUME NEW n, Coming(n)
        PROVE  /\ Coming(n)' /\ Kinds' /\ Untroubled' /\ tx'["out"].bytes = tx["out"].bytes
    <3>1. events \in {<<OutDone>>, <<InDone, OutDone>>}
      BY <1>2, <2>2 DEF Coming
    <3>2. /\ tx' \in TxKind /\ tx'["out"].count = 0 /\ tx'["out"].bytes = tx["out"].bytes
          /\ bulkReset' = bulkReset /\ res' = "ok" /\ events' = <<>>
      BY <1>1, <3>1, EpOperationOut
    <3>3. Coming(n)'
      BY <1>2, <2>2, <3>2 DEF Coming
    <3> QED
      BY <1>3, <3>2, <3>3
  <2>3. Taken'
    BY <1>2, <2>1 DEF Taken
  <2>4. CASE pc = "fill"
    <3>1. AtFill
      BY <2>1, <2>4 DEF Outs
    <3>2. Coming(job.posted)' /\ Kinds' /\ Untroubled' /\ tx'["out"].bytes = tx["out"].bytes
      BY <1>2, <2>2, <3>1 DEF AtFill
    <3>3. Writing' /\ Stored' = Stored /\ Asked' = Asked
      BY <1>2, <3>1 DEF AtFill, Writing, Halfway, Stored, Asked
    <3>4. AtFill'
      BY <1>2, <3>1, <3>2, <3>3 DEF AtFill, Arrived
    <3>5. Outs'
      BY <1>2, <2>1, <2>4, <3>4 DEF Outs, Good, Reached
    <3> QED
      BY <1>2, <2>1, <2>3, <2>4, <3>2, <3>5, InStepOuts DEF Serving
  <2>5. CASE pc = "discard"
    <3>1. PICK n \in 1 .. EpMax : Whole(n) /\ Coming(n)
      BY <2>1, <2>5 DEF Outs, Throwing
    <3>2. Throwing' /\ Kinds' /\ Untroubled'
      BY <2>2, <3>1 DEF Throwing
    <3>3. Outs'
      BY <1>2, <2>1, <2>5, <3>2 DEF Outs, Good, Reached, Settled
    <3> QED
      BY <1>2, <2>1, <2>3, <2>5, <3>2, <3>3, InStepOuts DEF Serving
  <2> QED
    BY <1>5, <2>4, <2>5
<1>6. CASE pc \in {"sent", "reply"}
  <2>1. Taken /\ cmd.dir = "in" /\ Ins
    BY <1>6, AtIns
  <2>2. events \in {<<>>, <<InDone>>, <<InDone, InDone>>}
    BY <1>6, <2>1 DEF Ins, AtSent, Reading, AtReply, Waited
  <2>3. /\ tx' \in TxKind /\ tx'["in"].count = 0 /\ bulkReset' = bulkReset /\ res' = "ok"
    BY <1>1, <2>2, EpOperationIn
  <2>4. Kinds' /\ Untroubled' /\ WaitOver'
    BY <1>2, <1>3, <1>6, <2>3 DEF WaitOver, Way
  <2>5. Taken'
    BY <1>2, <2>1 DEF Taken
  <2>6. CASE pc = "sent"
    <3>1. Reading /\ AtSent
      BY <2>1, <2>6 DEF Ins, AtSent
    <3>2. Outstanding' = 0 /\ inq = <<>>
      <4>1. Len(events) = 1 /\ Len(events') = 0 /\ Len(inq) \in {0, 1, 2}
        BY <1>2, <3>1, DueLen DEF Reading
      <4>2. Len(inq) = 0
        BY <3>1, <4>1 DEF Reading, Outstanding
      <4> QED
        BY <1>2, <3>1, <4>1, <4>2 DEF Outstanding, Reading, Due
    <3>3. Reading'
      BY <1>2, <3>1, <3>2 DEF Reading, Halfway, Stored, Due, Good, Reached, Moved
    <3>4. AtSent'
      BY <1>2, <2>3, <3>1, <3>3 DEF AtSent, Correct, Holds, Reached, Stored, ReadSize
    <3>5. Ins'
      BY <1>2, <2>1, <2>6, <3>4 DEF Ins
    <3> QED
      BY <1>2, <2>1, <2>4, <2>5, <2>6, <3>5, InStepIns DEF Serving
  <2>7. CASE pc = "reply"
    <3>1. AtReply
      BY <2>1, <2>7 DEF Ins
    <3>2. Waited(Busy)'
      BY <1>2, <2>4, <3>1, WaitedOver, DueLen DEF AtReply
    <3>3. AtReply'
      BY <1>2, <3>1, <3>2 DEF AtReply, Settled, Due, Good, Reached, Right, Moved
    <3>4. Ins'
      BY <1>2, <2>1, <2>7, <3>3 DEF Ins
    <3> QED
      BY <1>2, <2>1, <2>4, <2>5, <2>7, <3>4, InStepIns DEF Serving
  <2> QED
    BY <1>6, <2>6, <2>7
<1>7. CASE pc = "status"
  <2>1. AtStatus
    BY <1>7, InStepParts
  <2>2. /\ tx' \in TxKind /\ tx'["in"].count = 0 /\ bulkReset' = bulkReset /\ res' = "ok"
    BY <1>1, <2>1, EpOperationIn DEF AtStatus, Waited
  <2>3. Kinds' /\ Untroubled' /\ WaitOver'
    BY <1>2, <1>3, <1>7, <2>2 DEF WaitOver, Way
  <2>4. Waited(Busy)'
    <3>1. Len(inq) \in {0, 1, 2}
      BY <2>1 DEF AtStatus, Idle, OnItsWay
    <3> QED
      BY <1>2, <2>1, <2>3, <3>1, WaitedOver DEF AtStatus
  <2>5. AtStatus'
    <3>1. Idle => Idle'
      BY <1>2 DEF Idle, Truth, Reached
    <3>2. OnItsWay => OnItsWay'
      BY <1>2 DEF OnItsWay, Truth, Reached
    <3> QED
      BY <1>2, <2>1, <2>4, <3>1, <3>2 DEF AtStatus
  <2> QED
    BY <1>2, <1>7, <2>3, <2>5, InStepStatus
<1> QED
  BY <1>4, <1>5, <1>6, <1>7 DEF EpOperation, Waits

-----------------------------------------------------------------------------
(* Between commands.                                                       *)

\* A step between commands that touches none of what they share.
LEMMA ReadyKept ==
  ASSUME InStep, pc \in ReadyAt, pc # "cbw", pc' \in {"top", "end", "astray"},
         pc' = "top" => state' = state, pc \in {"end", "astray"} => pc' \in {"end", "astray"},
         UNCHANGED <<outq, inq, events, tx, bufs, queued, part, host, upsets>>
  PROVE  Ready'
<1>1. Ready
  BY InStepParts
<1>2. Idle => Idle'
  BY DEF Idle, Truth, Reached
<1>3. Late => Late'
  BY DEF Late
<1>4. Listening => Listening'
  BY DEF Listening
<1>5. Sent => Sent'
  BY DEF Sent
<1>6. Unheard => Unheard'
  BY DEF Unheard
<1>7. Dropped => Dropped'
  BY DEF Dropped
<1> QED
  BY <1>1, <1>2, <1>3, <1>4, <1>5, <1>6, <1>7 DEF Ready

LEMMA TopInStep ==
  ASSUME InStep, HandleException \/ PastLuns \/ Buttons, Calm' PROVE InStep'
<1>1. Kinds /\ Untroubled
  BY InStepParts
<1>2. pc = "top" /\ UNCHANGED <<outq, events, bulkReset, lun, queued, part, host, upsets>>
  BY DEF HandleException, PastLuns, Buttons, bus
<1>3. CASE HandleException
  <2>1. state = "exit"
    BY <1>1, <1>3 DEF HandleException, Untroubled
  <2>2. pc' = "end" /\ UNCHANGED <<bufs, inq, tx, res, job>> /\ ignore' = (ignore /\ state # "reset")
        /\ state' = "normal"
    BY <1>3, <2>1 DEF HandleException
  <2>3. Kinds' /\ Untroubled'
    BY <1>1, <1>2, <2>2, KindsKept DEF Untroubled
  <2> QED
    BY <1>2, <2>2, <2>3, ReadyKept, InStepReady DEF ReadyAt
<1>4. CASE PastLuns \/ Buttons
  <2>1. pc' \in {"astray", "end"} /\ UNCHANGED <<bufs, inq, tx, job, ignore, state>>
    BY <1>4 DEF PastLuns, Buttons, bus
  <2>2. Kinds' /\ Untroubled'
    BY <1>1, <1>2, <2>1, KindsKept, UntroubledKept
  <2> QED
    BY <1>2, <2>1, <2>2, ReadyKept, InStepReady DEF ReadyAt
<1> QED
  BY <1>3, <1>4

LEMMA GetCommandInStep ==
  ASSUME InStep, GetCommand PROVE InStep'
<1>1. Kinds /\ Untroubled /\ Ready
  BY InStepParts DEF GetCommand, ReadyAt
<1>2. /\ pc = "top" /\ state = "normal" /\ state' = state /\ bulkReset' = FALSE /\ queued' = TRUE
      /\ pc' = "cbw" /\ res' = "ok"
      /\ UNCHANGED <<inq, events, bufs, lun, cmd, job, ignore, part, host, upsets>>
  BY <1>1 DEF GetCommand, Ep0, Untroubled
<1>3. IF queued THEN UNCHANGED <<outq, tx>> ELSE PostOut(1)
  BY DEF GetCommand
<1>4. tx' \in TxKind
  <2>1. CASE queued
    BY <1>1, <1>3, <2>1 DEF Kinds, TxKind
  <2>2. CASE ~queued
    <3>1. tx' = [tx EXCEPT !["out"] = [count |-> 1, bytes |-> 1]]
      BY <1>3, <2>2 DEF PostOut
    <3>2. [count |-> 1, bytes |-> 1] \in [count : {0, 1}, bytes : Int]
      OBVIOUS
    <3> QED
      BY <1>1, <3>1, <3>2 DEF Kinds, TxKind
  <2> QED
    BY <2>1, <2>2
<1>5. Kinds' /\ Untroubled'
  BY <1>1, <1>2, <1>4 DEF Kinds, TxKind, Untroubled
<1>6. Ready'
  <2>1. Listening => Listening'
    <3>1. CASE queued
      BY <1>2, <1>3, <3>1 DEF Listening
    <3>2. CASE ~queued /\ outq = <<>>
      <4>1. outq' = <<1>>
        BY <1>3, <3>2 DEF PostOut
      <4>2. tx'["out"] = [count |-> 1, bytes |-> 1]
        BY <1>1, <1>3, <3>2 DEF PostOut, Kinds
      <4> QED
        BY <1>2, <4>1, <4>2 DEF Listening
    <3> QED
      BY <3>1, <3>2 DEF Listening
  <2>2. Idle => Idle'
    BY <1>2 DEF Idle, Truth, Reached
  <2>3. Late => Late'
    BY <1>2 DEF Late
  <2>4. Sent => ~Dropped
    BY <1>2 DEF Dropped
  <2>5. Sent /\ queued => Sent' /\ (Unheard => Unheard')
    BY <1>2, <1>3 DEF Sent, Unheard
  <2> QED
    BY <1>1, <1>2, <2>1, <2>2, <2>3, <2>4, <2>5 DEF Ready
<1> QED
  BY <1>2, <1>5, <1>6, InStepReady DEF ReadyAt

\* In the wait for a command it comes, or nothing does.
LEMMA AtCbw ==
  ASSUME InStep, pc = "cbw", WaitOver
  PROVE  /\ Kinds /\ Untroubled /\ Ready /\ queued /\ state = "normal"
         /\ \/ res # "ok" /\ (Unheard => tx.out.count = 1)
            \/ /\ res = "ok" /\ Sent /\ Unheard /\ tx.out.count = 0 /\ events = <<>>
               /\ Actual = 1 /\ bufs[OutBuf][1] = "cbw" /\ bufs[OutBuf][2] = host.cmd
<1>1. Kinds /\ Untroubled /\ Ready
  BY InStepParts DEF ReadyAt
<1>2. queued /\ state = "normal"
  BY <1>1 DEF Ready
<1>3. CASE res # "ok"
  BY <1>1, <1>2, <1>3 DEF Unheard
<1>4. CASE res = "ok"
  <2>1. tx["out"].count = 0
    BY <1>4 DEF WaitOver, Way
  <2>2. Sent /\ Unheard
    BY <1>1, <1>2, <2>1 DEF Ready, Listening
  <2> QED
    BY <1>1, <1>2, <1>4, <2>1, <2>2 DEF Unheard, Actual, Way
<1> QED
  BY <1>3, <1>4

LEMMA NoneReceivedInStep ==
  ASSUME InStep, NoneReceived PROVE InStep'
<1>1. pc = "cbw" /\ WaitOver /\ (res # "ok" \/ ignore \/ Actual # 1 \/ bufs[OutBuf][1] # "cbw")
  BY DEF NoneReceived
<1>2. /\ Kinds /\ Untroubled /\ Ready /\ queued /\ state = "normal" /\ ~ignore
      /\ res # "ok" /\ (Unheard => tx.out.count = 1)
  BY <1>1, AtCbw DEF Untroubled
<1>3. /\ pc' = "top" /\ state' \in {"normal", "exit"}
      /\ UNCHANGED <<outq, inq, events, tx, bulkReset, bufs, res, lun, cmd, job, part, host, ignore,
                     queued, upsets>>
  BY <1>2 DEF NoneReceived, bus, Raised, Rank
<1>4. Kinds' /\ Untroubled'
  BY <1>2, <1>3, KindsKept DEF Untroubled
<1>5. Ready'
  <2>1. Idle => Idle'
    BY <1>3 DEF Idle, Truth, Reached
  <2>2. Late => Late'
    BY <1>3 DEF Late
  <2>3. Listening => Listening'
    BY <1>3 DEF Listening
  <2>4. Sent => Sent'
    BY <1>3 DEF Sent
  <2>5. Unheard => Unheard'
    BY <1>2, <1>3 DEF Unheard
  <2> QED
    BY <1>2, <1>3, <2>1, <2>2, <2>3, <2>4, <2>5 DEF Ready
<1> QED
  BY <1>3, <1>4, <1>5, InStepReady DEF ReadyAt

-----------------------------------------------------------------------------
(* A command is received.                                                  *)

Transfers(c, u) == c.op \in {"read", "write"} /\ Goes(c, u) /\ From(c) > 0
Replies(c, u) == IF c.dir = "in" /\ ~Transfers(c, u) THEN Reply(c, u) ELSE 0

\* The job of a command that is begun.
Begun(c, u) ==
  [NoJob EXCEPT !.residue = c.size - Replies(c, u), !.left = c.size, !.tag = bufs[OutBuf][3],
                !.phase = c.size < Want(c) \/ WrongWay(c),
                !.from = job.from,
                !.len = IF c.dir = "in" /\ ~Transfers(c, u) THEN Replies(c, u) ELSE job.len,
                !.lba = c.lba, !.todo = IF Transfers(c, u) THEN From(c) ELSE 0]

\* A read or write that is not begun has a reason to tell, or nothing to move.
LEMMA NotBegun ==
  ASSUME NEW c \in Commands, NEW u \in Unit, c.op \in Moving, ~Transfers(c, u), ~WrongWay(c),
         From(c) > 0
  PROVE  UnitAfter(c, u).sense
<1>1. ~Goes(c, u) /\ (Refused(c, u) \/ Invalid(c, u))
  BY CommandIs DEF Transfers, Moving, Goes
<1>2. c.op \in {"read", "write"}
  BY DEF Moving
<1> QED
  BY <1>1, <1>2 DEF UnitAfter, Unit

\* One that is begun goes the way of its command, inside a volume in use.
LEMMA BegunIs ==
  ASSUME NEW c \in Commands, NEW u \in Unit, Transfers(c, u)
  PROVE  /\ c.op \in Moving /\ From(c) > 0 /\ From(c) \in Nat
         /\ c.dir = IF c.op = "read" THEN "in" ELSE "out"
         /\ c.lba < Luns[c.lun].sectors
         /\ c.op = "write" => ~Luns[c.lun].ro
         /\ ~u.unmounted /\ ~UnitAfter(c, u).unmounted
<1>1. c.op \in {"read", "write"} /\ From(c) > 0 /\ ~WrongWay(c) /\ ~Refused(c, u) /\ ~Invalid(c, u)
  BY DEF Transfers, Goes
<1>2. c.dir = Moves(c.op)
  BY <1>1 DEF WrongWay
<1>3. c.lba < Luns[c.lun].sectors /\ (c.op = "write" => ~Luns[c.lun].ro)
  BY <1>1, CommandIs DEF Invalid
<1>4. ~u.unmounted
  BY <1>1 DEF Refused, Needs
<1>5. ~UnitAfter(c, u).unmounted
  BY <1>1, <1>4 DEF UnitAfter, Unit
<1> QED
  BY <1>1, <1>2, <1>3, <1>4, <1>5, CommandIs DEF Moves, Moving

LEMMA ReplyIs ==
  ASSUME NEW c \in Commands, NEW u
  PROVE  /\ Replies(c, u) \in {0, 1} /\ Replies(c, u) <= c.size
         /\ c.op \in Moving => Replies(c, u) = 0
         /\ c.dir # "in" => Replies(c, u) = 0
<1>1. Reply(c, u) \in {0, 1} /\ Reply(c, u) <= From(c) /\ (c.op \in Moving => Reply(c, u) = 0)
  BY CommandIs DEF Reply, Least, Moving
<1> QED
  BY <1>1, CommandIs DEF Replies

\* What Received does when all goes on.
LEMMA ReceivedBegins ==
  ASSUME InStep, Shape, Received, NEW c, c = bufs[OutBuf][2],
         NEW u, u = units[c.lun]
  PROVE  /\ c = host.cmd /\ c \in Commands /\ u \in Unit /\ c.lun \in Lun
         /\ Kinds /\ Untroubled /\ Sent /\ events = <<>> /\ res = "ok"
         /\ Switched(c.lun) /\ lun' = c.lun /\ queued' = FALSE
         /\ UNCHANGED <<outq, inq, events, tx, res, ignore, host>>
         /\ \/ /\ pc' = "top" /\ state' = "exit" /\ job' = [job EXCEPT !.tag = bufs[OutBuf][3]]
               /\ UNCHANGED <<bulkReset, bufs>>
            \/ /\ state' = "normal" /\ bulkReset' = FALSE /\ cmd' = c
               /\ units' = [units EXCEPT ![c.lun] = UnitAfter(c, u)]
               /\ job' = Begun(c, u)
               /\ pc' = IF Transfers(c, u) THEN c.op ELSE "finish"
<1>1. /\ Kinds /\ Untroubled /\ Sent /\ events = <<>> /\ res = "ok" /\ state = "normal"
      /\ c = host.cmd
  BY AtCbw DEF Received
<1>2. c \in Commands /\ c.lun \in Lun
  BY <1>1, LunOf DEF Sent
<1>3. u \in Unit
  BY <1>2 DEF Shape
<1>4. /\ Switched(c.lun) /\ lun' = c.lun /\ queued' = FALSE
      /\ UNCHANGED <<outq, inq, events, tx, res, ignore, host>>
  BY DEF Received
<1>5. PICK s : s = IF (IF AllUnmounted THEN Tired ELSE 0) > Patience THEN Raised(state, "exit")
                   ELSE state
  OBVIOUS
<1>6. s \in {"normal", "exit"} /\ Ep0(s) = s
  BY <1>1, <1>5 DEF Raised, Rank, Ep0, Untroubled
<1>7. CASE s # "normal"
  BY <1>1, <1>2, <1>3, <1>4, <1>5, <1>6, <1>7 DEF Received
<1>8. CASE s = "normal"
  <2>1. /\ state' = Ep0(s) /\ bulkReset' = FALSE /\ cmd' = c
        /\ units' = [units EXCEPT ![c.lun] = UnitAfter(c, u)]
    BY <1>5, <1>8 DEF Received
  <2>2. pc' = IF Transfers(c, u) THEN c.op ELSE "finish"
    BY <1>5, <1>8 DEF Received, Transfers
  <2>3. job' = Begun(c, u)
    BY <1>5, <1>8 DEF Received, Transfers, Begun, Replies
  <2> QED
    BY <1>1, <1>2, <1>3, <1>4, <1>6, <1>8, <2>1, <2>2, <2>3
<1> QED
  BY <1>7, <1>8

LEMMA SwitchedIs ==
  ASSUME Untroubled, NEW l \in Lun, Switched(l), l # 0, lun' = l, Calm'
  PROVE  upsets' = {} => Luns[lun'].part \in {"sd", part'}
<1>1. CASE UNCHANGED upsets
  <2>1. upsets' = {} => part' = IF l = lun \/ Luns[l].part = "sd" THEN part ELSE Luns[l].part
    BY <1>1 DEF Switched, Upset
  <2> QED
    BY <1>1, <2>1 DEF Untroubled
<1>2. CASE ~ UNCHANGED upsets
  <2>1. upsets' # {}
    BY <1>2 DEF Switched, Upset
  <2> QED
    BY <2>1
<1> QED
  BY <1>1, <1>2

LEMMA ReceivedInStep ==
  ASSUME InStep, Shape, Received, Calm' PROVE InStep'
<1>1. PICK c, u : c = bufs[OutBuf][2] /\ u = units[c.lun]
  OBVIOUS
<1>2. /\ c = host.cmd /\ c \in Commands /\ u \in Unit /\ c.lun \in Lun
      /\ Kinds /\ Untroubled /\ Sent /\ events = <<>> /\ res = "ok"
      /\ Switched(c.lun) /\ lun' = c.lun /\ queued' = FALSE
      /\ UNCHANGED <<outq, inq, events, tx, res, ignore, host>>
  BY <1>1, ReceivedBegins
<1>3. c.lun # 0
  BY <1>2, GadgetAssumption DEF Lun
<1>4. upsets' = {} => Luns[lun'].part \in {"sd", part'}
  BY <1>2, <1>3, SwitchedIs
<1>5. CASE /\ pc' = "top" /\ state' = "exit" /\ job' = [job EXCEPT !.tag = bufs[OutBuf][3]]
           /\ UNCHANGED <<bulkReset, bufs>>
  <2>1. Kinds' /\ Untroubled'
    BY <1>2, <1>4, <1>5 DEF Kinds, Untroubled
  <2>2. Ready'
    BY <1>2, <1>5 DEF Ready, Sent, Dropped
  <2> QED
    BY <1>5, <2>1, <2>2, InStepReady DEF ReadyAt
<1>6. CASE /\ state' = "normal" /\ bulkReset' = FALSE /\ cmd' = c
           /\ units' = [units EXCEPT ![c.lun] = UnitAfter(c, u)]
           /\ job' = Begun(c, u)
           /\ pc' = IF Transfers(c, u) THEN c.op ELSE "finish"
  <2>1. PICK r \in {0, 1} : /\ r = Replies(c, u) /\ r <= c.size
                            /\ (c.op \in Moving => r = 0) /\ (c.dir # "in" => r = 0)
    BY <1>2, ReplyIs
  <2>2. /\ DOMAIN job' = DOMAIN NoJob
        /\ job'.residue = c.size - r /\ job'.left = c.size
        /\ job'.phase = (c.size < Want(c) \/ WrongWay(c))
        /\ job'.from = job.from /\ job'.cur = InBuf /\ job'.first = TRUE /\ job'.short = FALSE
        /\ job'.len = (IF c.dir = "in" /\ ~Transfers(c, u) THEN r ELSE job.len)
        /\ job'.lba = c.lba /\ job'.todo = (IF Transfers(c, u) THEN From(c) ELSE 0)
    BY <1>6, <2>1, Zenon DEF Begun, NoJob
  <2>3. Kinds' /\ Untroubled'
    BY <1>2, <1>4, <1>6, <2>2 DEF Kinds, Untroubled
  <2>4. /\ c.size \in Nat /\ c.lba \in Nat /\ c.dir \in {"in", "out", "none"}
        /\ (c.size = 0 <=> c.dir = "none") /\ From(c) \in Nat /\ From(c) <= c.size
        /\ (c.op \in Moving \/ c.dir = "out" => Whole(c.size))
        /\ (c.op \in Moving => Whole(From(c)))
    BY <1>2, CommandIs
  <2>5. Taken'
    BY <1>2, <1>6, <2>1, <2>2, <2>4 DEF Taken, Sent
  <2>6. Good(0)'
    BY <1>2 DEF Good, Sent, Sector
  <2>7. CASE Transfers(c, u)
    <3>1. /\ c.op \in Moving /\ From(c) > 0
          /\ c.dir = IF c.op = "read" THEN "in" ELSE "out"
          /\ c.lba < Luns[c.lun].sectors
          /\ c.op = "write" => ~Luns[c.lun].ro
          /\ ~UnitAfter(c, u).unmounted
      BY <1>2, <2>7, BegunIs
    <3>2. Stored' = 0 /\ Halfway'
      BY <1>2, <1>6, <2>1, <2>2, <2>4, <2>7, <3>1 DEF Stored, Halfway, Sector
    <3>3. CASE c.op = "read"
      <4>1. Due(c.size)' /\ Outstanding' = 0 /\ Good(Moved)'
        <5>1. inq' = <<>> /\ host'.left = c.size /\ events' = <<>> /\ Moved' = 0
          BY <1>2, <2>4 DEF Sent, Moved
        <5> QED
          BY <2>6, <5>1 DEF Due, Outstanding, Good
      <4>2. Reading'
        <5>1. cmd'.op = "read" /\ job'.lba <= Luns[lun'].sectors /\ job'.residue = c.size
              /\ events' = <<>> /\ inq' = <<>> /\ inq' # <<job>>
          BY <1>2, <1>6, <2>1, <2>2, <2>4, <3>1, <3>3, CommandIs DEF Sent
        <5> QED
          BY <3>2, <4>1, <5>1 DEF Reading, Due
      <4>3. Ins'
        BY <1>2, <1>6, <2>7, <3>3, <4>2 DEF Ins, Sent
      <4> QED
        BY <1>6, <2>3, <2>5, <2>7, <3>1, <3>3, <4>3, InStepIns DEF Serving
    <3>4. CASE c.op = "write"
      <4>1. units'[lun'] = UnitAfter(c, u)
        BY <1>2, <1>6 DEF Shape
      <4>2. Asked' = 0
        BY <1>6, <2>2, <2>4 DEF Asked
      <4>3. Writing' /\ Still'
        BY <1>2, <1>6, <2>2, <2>4, <3>1, <3>2, <3>4, <4>1, <4>2 DEF Writing, Still, Sent
      <4>4. AtWrite'
        BY <3>2, <4>2, <4>3 DEF AtWrite
      <4>5. Good(cmd.size - job.residue)'
        BY <1>6, <2>1, <2>2, <2>4, <2>6, <3>1 DEF Good
      <4>6. Outs'
        BY <1>2, <1>6, <2>1, <2>2, <2>4, <2>7, <3>1, <3>4, <4>4, <4>5 DEF Outs, Sent
      <4> QED
        BY <1>6, <2>3, <2>5, <2>7, <3>1, <3>4, <4>6, InStepOuts DEF Serving
    <3> QED
      BY <3>1, <3>3, <3>4 DEF Moving
  <2>8. CASE ~Transfers(c, u)
    <3>1. Settled'
      <4>1. units'[lun'] = UnitAfter(c, u)
        BY <1>2, <1>6 DEF Shape
      <4> SUFFICES ASSUME c.op \in Moving, ~WrongWay(c), From(c) # c.size - (c.size - r), From(c) # 0
                   PROVE  UnitAfter(c, u).sense
        <5>1. Moving' = Moving
          BY DEF Moving
        <5>2. c.op \in Moving /\ From(c) = 0 => job'.residue = c.size - From(c)
          BY <2>1, <2>2, <2>4
        <5>3. c.op \in Moving => r = 0 /\ c.size - (c.size - r) = 0
          BY <2>1, <2>4
        <5> QED
          BY <1>6, <2>2, <4>1, <5>1, <5>2, <5>3 DEF Settled
      <4> QED
        BY <1>2, <2>4, <2>8, NotBegun
    <3>2. CASE c.dir = "in"
      <4>1. /\ job'.len = r /\ job'.residue + job'.len = c.size /\ c.size > 0
        BY <2>1, <2>2, <2>4, <2>8, <3>2
      <4>2. Left'
        <5>1. Whole(0)
          BY DEF Whole, Sector
        <5>2. Correct(job.from, job.len, Moved \div Sector)'
          <6>1. Claimed(cmd)' => job'.len = 0
            BY <1>6, <2>1, <4>1 DEF Claimed
          <6>2. job'.len = 0 => Holds(job.from, job.len, Moved \div Sector)'
            BY DEF Holds, Sector
          <6>3. host'.cmd = cmd'
            BY <1>2, <1>6
          <6> QED
            BY <6>1, <6>2, <6>3 DEF Correct, Claimed, Inside
        <5> QED
          BY <1>6, <2>1, <4>1, <5>1, <5>2 DEF Left, Buffer, Sector
      <4>3. Due(job.residue + job.len)' /\ Waited(0)' /\ Good(Moved)'
        <5>1. inq' = <<>> /\ host'.left = c.size /\ events' = <<>> /\ Moved' = 0 /\ Lag' \in {0, 1}
          BY <1>2, <2>4 DEF Sent, Moved, Lag
        <5>2. Due(job.residue + job.len)'
          BY <4>1, <5>1 DEF Due
        <5>3. Waited(0)'
          <6>1. Len(inq') = 0 /\ Len(events') = 0
            BY <5>1
          <6>2. Outstanding' = 0
            BY <6>1 DEF Outstanding
          <6>3. PICK l \in {0, 1} : l = Lag'
            BY <5>1
          <6>4. Outstanding' <= 0 + l
            BY <6>2
          <6> QED
            BY <5>1, <6>3, <6>4 DEF Waited
        <5>4. Good(Moved)'
          BY <2>6, <5>1 DEF Good
        <5> QED
          BY <5>2, <5>3, <5>4
      <4>4. AtFinish'
        BY <1>6, <2>4, <3>1, <4>1, <4>2, <4>3 DEF AtFinish
      <4>5. Ins'
        BY <1>2, <1>6, <2>8, <4>4 DEF Ins, Sent
      <4> QED
        BY <1>6, <2>3, <2>5, <2>8, <3>2, <4>5, InStepIns DEF Serving
    <3>3. CASE c.dir # "in"
      <4>1. Whole(c.size) /\ r = 0
        BY <2>1, <2>4, <3>3 DEF Whole, Sector
      <4>2. Still'
        BY <1>2, <1>6, <2>2 DEF Still, Sent
      <4>3. Good(cmd.size - job.residue)'
        BY <1>6, <2>2, <2>4, <2>6, <4>1 DEF Good
      <4>4. Outs'
        BY <1>2, <1>6, <2>2, <2>4, <2>8, <3>1, <4>1, <4>2, <4>3 DEF Outs, Sent
      <4> QED
        BY <1>6, <2>3, <2>5, <2>8, <3>3, <4>4, InStepOuts DEF Serving
    <3> QED
      BY <3>2, <3>3
  <2> QED
    BY <2>7, <2>8
<1> QED
  BY <1>1, <1>5, <1>6, ReceivedBegins

-----------------------------------------------------------------------------
(* A read.                                                                 *)

LEMMA HalfwayIs ==
  ASSUME cmd \in Commands, cmd.op \in Moving, Halfway
  PROVE  /\ Stored \in Nat /\ Whole(Stored) /\ Stored < From(cmd) /\ Stored < cmd.size
         /\ job.todo \in Nat \ {0} /\ From(cmd) \in Nat /\ cmd.size \in Nat
         /\ Stored + job.todo = From(cmd)
         /\ job.residue \in 1 .. cmd.size /\ job.lba \in Nat
<1>1. /\ cmd.size \in Nat /\ cmd.lba \in Nat /\ From(cmd) \in Nat /\ From(cmd) <= cmd.size
      /\ Whole(From(cmd))
  BY CommandIs
<1>2. job.todo \in 1 .. From(cmd) /\ Whole(job.todo)
  BY DEF Halfway
<1>3. Stored \in Nat /\ Whole(Stored) /\ Stored < From(cmd) /\ Stored + job.todo = From(cmd)
  BY <1>1, <1>2 DEF Stored, Whole, Sector
<1> QED
  BY <1>1, <1>2, <1>3 DEF Halfway, Sector

\* What the next access of a read moves.
LEMMA ReadSizeIs ==
  ASSUME cmd \in Commands, cmd.op \in Moving, lun = cmd.lun, Halfway,
         job.lba <= Luns[lun].sectors,
         NEW n, n = ReadSize(job.todo, job.lba)
  PROVE  /\ n \in 0 .. Buffer /\ Whole(n) /\ n <= job.todo
         /\ job.lba + n \div Sector <= Luns[lun].sectors
         /\ Inside(cmd) => n > 0
<1>1. /\ Stored \in Nat /\ Whole(Stored) /\ Stored < From(cmd) /\ Stored < cmd.size
      /\ job.todo \in Nat \ {0} /\ From(cmd) \in Nat /\ cmd.size \in Nat
      /\ job.lba \in Nat
  BY HalfwayIs
<1>2. PICK s \in Nat : s = Luns[lun].sectors
  BY CommandIs
<1>3. PICK d \in Nat : d = s - job.lba
  BY <1>1, <1>2
<1>4. Whole(job.todo) /\ job.lba = cmd.lba + Stored \div Sector /\ cmd.lba \in Nat /\ Whole(cmd.size)
  BY CommandIs DEF Halfway
<1>5. n = Least(Least(job.todo, Buffer), d * Sector)
  BY <1>2, <1>3 DEF ReadSize
<1>6. n \in 0 .. Buffer /\ n <= job.todo /\ n <= d * Sector /\ n \in {job.todo, Buffer, d * Sector}
  BY <1>1, <1>5 DEF Least, Buffer, Sector
<1>7. Whole(Buffer) /\ Whole(d * Sector)
  BY DEF Whole, Buffer, Sector
<1>8. Whole(n)
  BY <1>4, <1>6, <1>7
<1>9. job.lba + n \div Sector <= s
  BY <1>1, <1>3, <1>6 DEF Sector
<1>10. Inside(cmd) => d > 0
  <2>1. Inside(cmd) => cmd.lba + cmd.size \div Sector <= s
    BY <1>2 DEF Inside
  <2>2. Stored \div Sector < cmd.size \div Sector
    BY <1>1, <1>4 DEF Whole, Sector
  <2> QED
    BY <1>1, <1>2, <1>3, <1>4, <2>1, <2>2 DEF Sector
<1>11. d > 0 => n > 0
  BY <1>1, <1>3, <1>5 DEF Least, Buffer, Sector
<1> QED
  BY <1>2, <1>6, <1>8, <1>9, <1>10, <1>11

\* An access reaches the partition of its volume, or the eMMC is at another.
LEMMA AccessIs ==
  ASSUME Untroubled, NEW ok, Access(lun, ok), Calm', lun = host.cmd.lun, lun # 0,
         host'.cmd = host.cmd
  PROVE  /\ Reached' => Reached /\ Addressed(lun, part') = Luns[lun].part
         /\ upsets' = {} => Luns[lun].part \in {"sd", part'}
         /\ Calm
<1>1. CASE part' = part /\ UNCHANGED upsets
  BY <1>1 DEF Untroubled, Reached, Addressed, Calm
<1>2. CASE Upset("fault")
  <2>1. upsets = {} /\ upsets' = {"fault"} /\ Calm
    BY <1>2, CalmUpset
  <2> QED
    BY <2>1 DEF Reached, Addressed
<1> QED
  BY <1>1, <1>2 DEF Access

LEMMA ReadPastEndInStep ==
  ASSUME InStep, Shape, ReadPastEnd PROVE InStep'
<1>1. /\ pc = "read" /\ ReadSize(job.todo, job.lba) = 0 /\ pc' = "finish"
      /\ units' = [units EXCEPT ![lun].sense = TRUE] /\ job' = [job EXCEPT !.len = 0]
      /\ UNCHANGED <<outq, inq, events, tx, bulkReset, bufs, state, lun, cmd, queued, ignore,
                     part, host, upsets>>
  BY DEF ReadPastEnd, bus
<1>2. Taken /\ cmd.dir = "in" /\ outq = <<>> /\ Reading /\ Kinds /\ Untroubled
  BY <1>1, AtIns, InStepParts DEF Ins
<1>3. cmd \in Commands /\ cmd.op = "read" /\ lun = cmd.lun /\ cmd = host.cmd /\ cmd.op \in Moving
      /\ Halfway /\ job.lba <= Luns[lun].sectors
  BY <1>2 DEF Taken, Reading, Moving
<1>4. Loose(host.cmd) /\ ~Claimed(host.cmd)
  <2>1. ~Inside(cmd)
    BY <1>1, <1>3, ReadSizeIs
  <2> QED
    BY <1>3, <2>1 DEF Loose, Claimed
<1>5. job'.len = 0 /\ UNCHANGED <<job.residue, job.left, job.phase, job.from, job.cur, job.short>>
      /\ DOMAIN job' = DOMAIN job
  BY <1>1, <1>2 DEF Kinds, NoJob
<1>6. Kinds' /\ Untroubled'
  BY <1>1, <1>2, <1>5 DEF Kinds, Untroubled
<1>7. Taken'
  BY <1>1, <1>2, <1>5 DEF Taken
<1>8. AtFinish'
  <2>1. units'[lun].sense
    BY <1>1, <1>3, CommandIs DEF Shape, Unit
  <2>2. Settled'
    BY <1>1, <2>1 DEF Settled
  <2>3. Left'
    BY <1>1, <1>4, <1>5 DEF Left, Correct, Buffer, Sector, Whole
  <2>4. Waited(0)'
    <3>1. Lag' = 1
      BY <1>1, <1>4 DEF Lag
    <3>2. Outstanding' <= 1 /\ events' \in {<<>>, <<InDone>>}
      BY <1>1, <1>2 DEF Reading, Outstanding
    <3>3. Outstanding' <= 0 + Lag'
      BY <3>1, <3>2
    <3> QED
      BY <3>2, <3>3 DEF Waited
  <2>5. Good(Moved)'
    BY <1>1, <1>4 DEF Good
  <2>6. job'.residue + job'.len = job.residue /\ job.residue \in 1 .. cmd.size
    BY <1>3, <1>5, HalfwayIs
  <2>7. Due(job.residue + job.len)'
    BY <1>1, <1>2, <2>6 DEF Due, Reading
  <2> QED
    BY <1>1, <2>2, <2>3, <2>4, <2>5, <2>6, <2>7 DEF AtFinish
<1>9. Ins'
  BY <1>1, <1>2, <1>8 DEF Ins
<1> QED
  BY <1>1, <1>2, <1>6, <1>7, <1>9, InStepIns DEF Serving

LEMMA ReadAccessInStep ==
  ASSUME InStep, Shape, ReadAccess, Calm' PROVE InStep'
<1>0. PICK n : n = ReadSize(job.todo, job.lba)
  OBVIOUS
<1>1. PICK ok \in BOOLEAN :
        /\ Access(lun, ok)
        /\ bufs' = IF ~ok THEN bufs ELSE
            [b \in Memory |->
               IF b \in Cells(job.cur, n)
               THEN <<"disk", Addressed(lun, part'), Luns[lun].offset + job.lba + b - job.cur>>
               ELSE bufs[b]]
        /\ job' = [job EXCEPT !.len = IF ok THEN n ELSE 0]
  BY <1>0 DEF ReadAccess
<1>2. /\ pc = "read" /\ pc' = "sent" /\ res' = "ok"
      /\ UNCHANGED <<outq, inq, events, tx, bulkReset, state, lun, cmd, queued, ignore, units, host>>
  BY DEF ReadAccess
<1>3. Taken /\ cmd.dir = "in" /\ outq = <<>> /\ Reading /\ Kinds /\ Untroubled
  BY <1>2, AtIns, InStepParts DEF Ins
<1>4. cmd \in Commands /\ cmd.op = "read" /\ lun = cmd.lun /\ cmd = host.cmd /\ cmd.op \in Moving
      /\ Halfway /\ job.lba <= Luns[lun].sectors
  BY <1>3 DEF Taken, Reading, Moving
<1>5. job'.len = (IF ok THEN n ELSE 0) /\ DOMAIN job' = DOMAIN job
      /\ UNCHANGED <<job.residue, job.left, job.phase, job.from, job.cur, job.short, job.todo,
                     job.lba, job.first>>
  BY <1>1, <1>3 DEF Kinds, NoJob
<1>6. lun # 0 /\ lun \in Lun
  BY <1>4, CommandIs, GadgetAssumption DEF Lun
<1>7. /\ Reached' => Reached /\ Addressed(lun, part') = Luns[lun].part
      /\ upsets' = {} => Luns[lun].part \in {"sd", part'}
  BY <1>1, <1>2, <1>3, <1>4, <1>6, AccessIs
<1>8. Kinds' /\ Untroubled'
  BY <1>2, <1>3, <1>5, <1>7 DEF Kinds, Untroubled
<1>9. Taken'
  BY <1>2, <1>3, <1>5 DEF Taken
<1>10. n \in 0 .. Buffer /\ n \in 0 .. 4
  BY <1>0, <1>4, ReadSizeIs DEF Buffer, Sector
<1>11. job.cur \in {1, 3} /\ Luns[lun].offset \in Nat /\ cmd.lba \in Nat
  BY <1>3, <1>4, CommandIs DEF Kinds, InBuf, OutBuf
<1>12. Correct(job.cur, job.len, Stored \div Sector)'
  <2> SUFFICES ASSUME Claimed(host.cmd)', Reached', NEW i \in 0 .. job'.len \div Sector - 1
               PROVE  job.cur + i \in Memory
                      /\ bufs'[job.cur + i] = Expected(host.cmd, Stored \div Sector + i)
    <3>1. Stored' = Stored
      BY <1>2, <1>5 DEF Stored
    <3>2. \A k : Expected(host.cmd, k)' = Expected(host.cmd, k)
      BY <1>2 DEF Expected
    <3> QED
      BY <1>5, <3>1, <3>2 DEF Correct, Holds
  <2>1. ok /\ i \in 0 .. n \div 2 - 1 /\ i \in {0, 1}
    BY <1>5, <1>10 DEF Sector
  <2>2. PICK b : b = job.cur + i
    OBVIOUS
  <2>3. b \in Memory /\ b \in Cells(job.cur, n) /\ b - job.cur = i
    BY <1>10, <1>11, <2>1, <2>2 DEF Memory, Cells, Sector
  <2>4. bufs'[b] = <<"disk", Addressed(lun, part'), Luns[lun].offset + job.lba + b - job.cur>>
    BY <1>1, <2>1, <2>3
  <2>5. Luns[lun].offset + job.lba + b - job.cur
        = Luns[lun].offset + cmd.lba + (Stored \div Sector + i)
    <3>1. job.lba = cmd.lba + Stored \div Sector /\ Stored \in Nat
      BY <1>4, HalfwayIs DEF Halfway
    <3>2. PICK q \in Nat : q = Stored \div Sector
      BY <3>1 DEF Sector
    <3> QED
      BY <1>11, <2>1, <2>3, <3>1, <3>2
  <2> QED
    BY <1>4, <1>7, <2>2, <2>3, <2>4, <2>5 DEF Expected
<1>13. ASSUME NEW t \in Trb, inq = <<t>>
       PROVE  t.from # job.cur /\ t.len <= Buffer /\ Correct(t.from, t.len, Moved \div Sector)'
  <2>1. t.from # job.cur /\ t.len <= Buffer /\ Correct(t.from, t.len, Moved \div Sector)
        /\ t.from \in {1, 3} /\ t.len \in 0 .. 4
    BY <1>3, <1>13 DEF Reading, Trb, Buffer, Sector, InBuf, OutBuf
  <2> SUFFICES ASSUME Claimed(host.cmd)', Reached', NEW i \in 0 .. t.len \div Sector - 1
               PROVE  t.from + i \in Memory
                      /\ bufs'[t.from + i] = Expected(host.cmd, Moved \div Sector + i)
    <3>1. Moved' = Moved
      BY <1>2 DEF Moved
    <3>2. \A k : Expected(host.cmd, k)' = Expected(host.cmd, k)
      BY <1>2 DEF Expected
    <3> QED
      BY <2>1, <3>1, <3>2 DEF Correct, Holds
  <2>2. t.from + i \in Memory /\ bufs[t.from + i] = Expected(host.cmd, Moved \div Sector + i)
    BY <1>2, <1>7, <2>1 DEF Correct, Holds, Claimed, Inside
  <2>3. PICK b : b = t.from + i
    OBVIOUS
  <2>4. b \notin Cells(job.cur, n)
    BY <1>10, <1>11, <2>1, <2>3 DEF Cells, Sector
  <2>5. bufs'[b] = bufs[b]
    BY <1>1, <2>2, <2>3, <2>4
  <2> QED
    BY <2>2, <2>3, <2>5
<1>14. Reading'
  <2>1. Halfway' /\ Due(job.residue)' /\ job'.lba <= Luns[lun'].sectors
    BY <1>2, <1>3, <1>5 DEF Reading, Halfway, Stored, Due
  <2>2. Outstanding' = Outstanding /\ (job'.first \/ WaitOver' => Outstanding' = 0)
    <3>1. WaitOver' => WaitOver
      BY <1>2 DEF WaitOver, Way
    <3> QED
      BY <1>2, <1>3, <1>5, <3>1 DEF Reading, Outstanding
  <2>3. Good(Moved)'
    BY <1>2, <1>3, <1>7 DEF Reading, Good, Moved, Claimed, Inside
  <2> QED
    BY <1>2, <1>3, <1>5, <1>13, <2>1, <2>2, <2>3 DEF Reading
<1>15. AtSent'
  <2>1. ReadSize(job.todo, job.lba)' = n
    BY <1>0, <1>2, <1>5 DEF ReadSize
  <2> QED
    BY <1>2, <1>5, <1>12, <1>14, <2>1 DEF AtSent
<1>16. Ins'
  BY <1>2, <1>3, <1>15 DEF Ins
<1> QED
  BY <1>2, <1>3, <1>8, <1>9, <1>16, InStepIns DEF Serving

LEMMA ReadSentInStep ==
  ASSUME InStep, Shape, ReadSent PROVE InStep'
<1>1. /\ pc = "sent" /\ SentOver
      /\ UNCHANGED <<outq, events, bulkReset, bufs, res, state, lun, cmd, queued, ignore, part,
                     host, upsets>>
  BY DEF ReadSent
<1>2. Taken /\ cmd.dir = "in" /\ outq = <<>> /\ Reading /\ AtSent /\ Kinds /\ Untroubled
  BY <1>1, AtIns, InStepParts DEF Ins, AtSent
<1>3. cmd \in Commands /\ cmd.op = "read" /\ lun = cmd.lun /\ cmd = host.cmd /\ cmd.op \in Moving
      /\ Halfway /\ job.lba <= Luns[lun].sectors
  BY <1>2 DEF Taken, Reading, Moving
<1>4. inq = <<>> /\ events = <<>> /\ host.left = job.residue
  <2>1. Outstanding = 0 /\ Len(events) \in {0, 1} /\ Len(inq) \in {0, 1, 2} /\ Due(job.residue)
    BY <1>1, <1>2, DueLen DEF Reading, SentOver
  <2>2. Len(events) = 0 /\ Len(inq) = 0
    BY <2>1 DEF Outstanding
  <2> QED
    BY <1>2, <2>1, <2>2 DEF Reading, Due
<1>5. PICK n, todo, next :
        /\ n = job.len /\ todo = job.todo - n
        /\ next = [job EXCEPT !.todo = todo, !.residue = @ - n, !.from = job.cur,
                              !.lba = @ + n \div Sector]
  BY Zenon
<1>6. /\ n \in 0 .. Buffer /\ Whole(n) /\ n <= job.todo
      /\ job.lba + n \div Sector <= Luns[lun].sectors
  <2>1. CASE n = 0
    <3>1. job.lba \in Nat /\ job.todo \in Nat
      BY <1>3, HalfwayIs
    <3> QED
      BY <1>3, <2>1, <3>1 DEF Whole, Sector, Buffer
  <2>2. CASE n # 0
    <3>1. n = ReadSize(job.todo, job.lba)
      BY <1>2, <1>5, <2>2 DEF AtSent
    <3> QED
      BY <1>3, <3>1, ReadSizeIs
  <2> QED
    BY <2>1, <2>2
<1>7. /\ next.todo = todo /\ next.residue = job.residue - n /\ next.from = job.cur
      /\ next.lba = job.lba + n \div Sector /\ DOMAIN next = DOMAIN NoJob /\ next.len = n
      /\ next.cur = job.cur /\ next.left = job.left /\ next.phase = job.phase
      /\ next.short = job.short /\ next.first = job.first
  BY <1>2, <1>5 DEF Kinds, NoJob
<1>8. /\ Stored \in Nat /\ Whole(Stored) /\ Stored < From(cmd) /\ Stored < cmd.size
      /\ job.todo \in Nat \ {0} /\ From(cmd) \in Nat /\ cmd.size \in Nat /\ cmd.lba \in Nat
      /\ Stored + job.todo = From(cmd) /\ Whole(job.todo) /\ From(cmd) <= cmd.size
      /\ job.residue = cmd.size - Stored /\ job.lba = cmd.lba + Stored \div Sector
  BY <1>3, HalfwayIs, CommandIs DEF Halfway
<1>9. /\ todo \in 0 .. From(cmd) /\ Whole(todo) /\ From(cmd) - todo = Stored + n
      /\ next.residue = cmd.size - (Stored + n) /\ next.residue \in 0 .. cmd.size
      /\ next.lba = cmd.lba + (Stored + n) \div Sector
      /\ Whole(cmd.size) => Whole(next.residue)
  <2>1. todo \in 0 .. From(cmd) /\ From(cmd) - todo = Stored + n
        /\ next.residue = cmd.size - (Stored + n) /\ next.residue \in 0 .. cmd.size
    BY <1>5, <1>6, <1>7, <1>8
  <2>2. next.lba = cmd.lba + (Stored + n) \div Sector
    BY <1>6, <1>7, <1>8 DEF Whole, Sector
  <2>3. Whole(todo)
    BY <1>5, <1>6, <1>8 DEF Whole, Sector
  <2>4. Whole(cmd.size) => Whole(next.residue)
    <3>1. n \in Int /\ Stored \in Int /\ Stored + n \in Int /\ cmd.size \in Int
      BY <1>6, <1>8 DEF Buffer, Sector
    <3>2. Whole(Stored + n)
      BY <1>6, <1>8, <3>1, WholeSum
    <3>3. PICK m \in Int : m = Stored + n
      BY <3>1
    <3> QED
      BY <2>1, <3>1, <3>2, <3>3, WholeSum
  <2> QED
    BY <2>1, <2>2, <2>3, <2>4
<1>10. Whole(cmd.size) /\ Moved = Stored
  <2>1. Moved = cmd.size - job.residue
    BY <1>3, <1>4 DEF Moved
  <2> QED
    BY <1>3, <1>8, <2>1, CommandIs
<1>12. CASE n > 0 /\ todo > 0
  <2>1. /\ PostIn(job.cur, n) /\ pc' = "read" /\ UNCHANGED units
        /\ job' = [next EXCEPT !.first = FALSE,
                               !.cur = IF job.cur = InBuf THEN OutBuf ELSE InBuf]
    BY <1>5, <1>12 DEF ReadSent
  <2>2. /\ job'.todo = todo /\ job'.residue = next.residue /\ job'.from = job.cur
        /\ job'.lba = next.lba /\ DOMAIN job' = DOMAIN NoJob
        /\ job'.left = job.left /\ job'.short = job.short /\ job'.first = FALSE
        /\ job'.cur = (IF job.cur = InBuf THEN OutBuf ELSE InBuf)
    BY <1>7, <2>1 DEF NoJob
  <2>3. PICK t : t = [from |-> job.cur, len |-> n]
    OBVIOUS
  <2>4. t \in Trb /\ t.from = job.cur /\ t.len = n
    BY <1>2, <1>6, <2>3 DEF Trb, Kinds, Buffer, Sector
  <2>5. inq' = <<t>>
    BY <1>4, <2>1, <2>3 DEF PostIn
  <2>6. tx' \in TxKind /\ tx'["in"].count = 1
    <3>1. tx' = [tx EXCEPT !["in"] = [count |-> 1, bytes |-> n]]
      BY <2>1 DEF PostIn
    <3>2. [count |-> 1, bytes |-> n] \in [count : {0, 1}, bytes : Int]
      BY <1>6
    <3> QED
      BY <1>2, <3>1, <3>2 DEF Kinds, TxKind
  <2>7. Kinds' /\ Untroubled'
    BY <1>1, <1>2, <2>2, <2>6 DEF Kinds, Untroubled, TxKind
  <2>8. Taken'
    BY <1>1, <1>2, <1>9, <1>10, <2>2 DEF Taken
  <2>9. Reading'
    <3>1. Stored' = Stored + n /\ Halfway'
      <4>1. Stored' = From(cmd) - todo
        BY <1>1, <2>2 DEF Stored
      <4> QED
        BY <1>1, <1>9, <1>12, <2>2, <4>1 DEF Halfway
    <3>2. job'.lba <= Luns[lun'].sectors
      BY <1>1, <1>6, <1>7, <2>2
    <3>3. Due(job.residue)'
      <4>1. host'.left = t.len + job'.residue /\ t.len > 0 /\ Whole(t.len)
        BY <1>1, <1>4, <1>6, <1>7, <1>8, <1>12, <2>2, <2>4
      <4> QED
        BY <2>4, <2>5, <4>1 DEF Due
    <3>4. Outstanding' = 1 /\ events' = <<>>
      <4>1. Len(inq') = 1 /\ Len(events') = 0 /\ events' = <<>>
        BY <1>1, <1>4, <2>5
      <4> QED
        BY <4>1 DEF Outstanding
    <3>5. ~job'.first /\ ~WaitOver'
      <4>1. res' = "ok"
        BY <1>1, <1>2 DEF AtSent
      <4> QED
        BY <2>1, <2>2, <2>6, <4>1 DEF WaitOver, Way
    <3>6. Good(Moved)'
      BY <1>1, <1>2 DEF Reading, Good, Reached, Moved
    <3>7. ASSUME NEW u \in Trb, inq' = <<u>>
          PROVE  u.from # job'.cur /\ u.len <= Buffer /\ Correct(u.from, u.len, Moved \div Sector)'
      <4>1. u = t
        BY <2>5, <3>7
      <4>2. Correct(job.cur, n, Moved \div Sector)
        BY <1>2, <1>5, <1>10 DEF AtSent
      <4>3. Correct(u.from, u.len, Moved \div Sector)'
        BY <1>1, <2>4, <4>1, <4>2 DEF Correct, Holds, Reached, Moved, Expected
      <4>4. u.from # job'.cur
        BY <1>2, <2>2, <2>4, <4>1 DEF Kinds, InBuf, OutBuf
      <4> QED
        BY <1>6, <2>4, <4>1, <4>3, <4>4
    <3> QED
      BY <1>1, <1>3, <3>1, <3>2, <3>3, <3>4, <3>5, <3>6, <3>7 DEF Reading
  <2>10. Ins'
    BY <1>1, <1>2, <2>1, <2>9 DEF Ins
  <2> QED
    BY <1>1, <1>2, <2>1, <2>7, <2>8, <2>10, InStepIns DEF Serving
<1>13. CASE ~(n > 0 /\ todo > 0)
  <2>1. /\ units' = IF n = 0 THEN [units EXCEPT ![lun].sense = TRUE] ELSE units
        /\ job' = next /\ pc' = "finish" /\ UNCHANGED <<inq, tx>>
    BY <1>5, <1>13 DEF ReadSent
  <2>2. Kinds' /\ Untroubled'
    BY <1>1, <1>2, <1>7, <2>1 DEF Kinds, Untroubled
  <2>3. Taken'
    BY <1>1, <1>2, <1>7, <1>9, <1>10, <2>1 DEF Taken
  <2>4. AtFinish'
    <3>1. Settled'
      <4>1. CASE n = 0
        <5>1. units'[lun].sense
          BY <1>3, <2>1, <4>1, CommandIs DEF Shape, Unit
        <5> QED
          BY <1>1, <5>1 DEF Settled
      <4>2. CASE n # 0
        <5>1. todo = 0
          BY <1>6, <1>9, <1>13, <4>2
        <5>2. job'.residue = cmd.size - From(cmd)
          BY <1>8, <1>9, <2>1, <5>1
        <5> QED
          BY <1>1, <5>2 DEF Settled
      <4> QED
        BY <4>1, <4>2
    <3>2. Left'
      <4>1. Correct(job.cur, n, Moved \div Sector)
        BY <1>2, <1>5, <1>10 DEF AtSent
      <4>2. Correct(job.from, job.len, Moved \div Sector)'
        BY <1>1, <1>7, <2>1, <4>1 DEF Correct, Holds, Reached, Moved, Expected
      <4> QED
        BY <1>6, <1>7, <2>1, <4>2 DEF Left
    <3>3. Waited(0)'
      <4>1. Len(inq') = 0 /\ Len(events') = 0 /\ events' = <<>>
        BY <1>1, <1>4, <2>1
      <4>2. PICK l \in {0, 1} : l = Lag'
        BY DEF Lag
      <4>3. Outstanding' = 0
        BY <4>1 DEF Outstanding
      <4>4. Outstanding' <= 0 + l
        BY <4>3
      <4> QED
        BY <4>1, <4>2, <4>4 DEF Waited
    <3>4. Good(Moved)'
      BY <1>1, <1>2 DEF Reading, Good, Reached, Moved
    <3>5. job'.residue + job'.len = job.residue /\ job.residue \in 1 .. cmd.size
      BY <1>6, <1>7, <1>8, <2>1
    <3>6. Due(job.residue + job.len)'
      BY <1>1, <1>4, <2>1, <3>5 DEF Due
    <3> QED
      BY <1>1, <3>1, <3>2, <3>3, <3>4, <3>5, <3>6 DEF AtFinish
  <2>5. Ins'
    BY <1>1, <1>2, <2>1, <2>4 DEF Ins
  <2> QED
    BY <1>1, <1>2, <2>1, <2>2, <2>3, <2>5, InStepIns DEF Serving
<1> QED
  BY <1>12, <1>13

-----------------------------------------------------------------------------
(* A write.                                                                *)

\* At the head of the loop of a write.
LEMMA WriteAt ==
  ASSUME InStep, pc = "write"
  PROVE  /\ Taken /\ cmd.dir = "out" /\ cmd.op = "write" /\ Outs /\ AtWrite /\ Kinds /\ Untroubled
         /\ cmd \in Commands /\ lun = cmd.lun /\ cmd = host.cmd /\ cmd.op \in Moving /\ Halfway
         /\ inq = <<>> /\ outq = <<>> /\ events = <<>> /\ host.left = job.left
         /\ Asked \in Nat /\ Whole(Asked) /\ Asked <= From(cmd) /\ Whole(cmd.size)
<1>1. Taken /\ Outs /\ Kinds /\ Untroubled /\ AtWrite
  BY AtOuts, InStepParts DEF Outs
<1>2. cmd.dir = "out" /\ cmd.op = "write" /\ Halfway /\ Asked <= From(cmd) /\ Still /\ inq = <<>>
      /\ Whole(job.left)
  BY <1>1 DEF AtWrite, Writing, Outs
<1>3. cmd \in Commands /\ lun = cmd.lun /\ cmd = host.cmd /\ cmd.op \in Moving
  BY <1>1, <1>2 DEF Taken, Moving
<1>4. cmd.size \in Nat /\ Whole(cmd.size) /\ job.left \in 0 .. cmd.size
  BY <1>1, <1>3, CommandIs DEF Taken
<1>5. Asked \in Nat /\ Whole(Asked)
  <2>1. PICK a \in Nat : a = cmd.size - job.left
    BY <1>4
  <2>2. Whole(a)
    BY <1>2, <1>4, <2>1, WholeSum
  <2> QED
    BY <2>1, <2>2 DEF Asked
<1> QED
  BY <1>1, <1>2, <1>3, <1>4, <1>5 DEF Still

LEMMA WriteStuckInStep ==
  ASSUME InStep, WriteStuck PROVE InStep'
<1>1. pc = "write" /\ pc' = "hung"
      /\ UNCHANGED <<outq, inq, events, tx, bulkReset, bufs, res, state, lun, cmd, job, queued,
                     ignore, units, part, host, upsets>>
  BY DEF WriteStuck, bus
<1>2. Taken /\ cmd.dir = "out" /\ Outs /\ Still /\ Kinds /\ Untroubled
  BY <1>1, WriteAt DEF AtWrite
<1>3. Kinds' /\ Untroubled' /\ Taken'
  BY <1>1, <1>2, KindsKept, UntroubledKept DEF Taken
<1>4. Outs'
  BY <1>1, <1>2 DEF Outs, Still, Good, Reached
<1> QED
  BY <1>1, <1>2, <1>3, <1>4, InStepOuts DEF Serving

LEMMA WritePastEndInStep ==
  ASSUME InStep, Shape, WritePastEnd PROVE InStep'
<1>1. pc = "write" /\ pc' = "finish" /\ units' = [units EXCEPT ![lun].sense = TRUE]
      /\ UNCHANGED <<outq, inq, events, tx, bulkReset, bufs, res, state, lun, cmd, job, queued,
                     ignore, part, host, upsets>>
  BY DEF WritePastEnd, bus
<1>2. Taken /\ cmd.dir = "out" /\ Outs /\ Still /\ Kinds /\ Untroubled
      /\ cmd \in Commands /\ lun = cmd.lun
  BY <1>1, WriteAt DEF AtWrite
<1>3. Kinds' /\ Untroubled' /\ Taken'
  BY <1>1, <1>2, KindsKept, UntroubledKept DEF Taken
<1>4. Settled'
  <2>1. units'[lun].sense
    BY <1>1, <1>2, CommandIs DEF Shape, Unit
  <2> QED
    BY <1>1, <2>1 DEF Settled
<1>5. Outs'
  BY <1>1, <1>2, <1>4 DEF Outs, Still, Good, Reached
<1> QED
  BY <1>1, <1>2, <1>3, <1>5, InStepOuts DEF Serving

LEMMA WriteAskInStep ==
  ASSUME InStep, WriteAsk PROVE InStep'
<1>1. PICK n : /\ n = Least(From(cmd) - Asked, Buffer) /\ PostOut(n)
               /\ job' = [job EXCEPT !.left = @ - n, !.posted = n]
  BY DEF WriteAsk, Zenon
<1>2. /\ pc = "write" /\ pc' = "fill" /\ res' = "ok" /\ From(cmd) > Asked
      /\ cmd.lba + Asked \div Sector < Luns[lun].sectors
      /\ UNCHANGED <<inq, events, bulkReset, bufs, state, lun, cmd, queued, ignore, units,
                     part, host, upsets>>
  BY DEF WriteAsk
<1>3. /\ Taken /\ cmd.dir = "out" /\ cmd.op = "write" /\ Outs /\ AtWrite /\ Kinds /\ Untroubled
      /\ cmd \in Commands /\ lun = cmd.lun /\ cmd = host.cmd /\ cmd.op \in Moving /\ Halfway
      /\ inq = <<>> /\ outq = <<>> /\ events = <<>> /\ host.left = job.left
      /\ Asked \in Nat /\ Whole(Asked) /\ Asked <= From(cmd) /\ Whole(cmd.size)
  BY <1>2, WriteAt
<1>4. /\ cmd.size \in Nat /\ cmd.lba \in Nat /\ From(cmd) \in Nat /\ From(cmd) <= cmd.size
      /\ Whole(From(cmd)) /\ Luns[lun].sectors \in Nat /\ job.left \in 0 .. cmd.size
      /\ job.residue \in 0 .. cmd.size /\ Whole(job.left) /\ job.left <= job.residue
  BY <1>3, CommandIs DEF Taken, Outs
<1>5. Stored = Asked
  <2>1. PICK a \in Nat : a = cmd.lba + Asked \div Sector
    BY <1>3, <1>4 DEF Sector
  <2> QED
    BY <1>2, <1>3, <1>4, <2>1 DEF AtWrite
<1>6. n \in 1 .. Buffer /\ Whole(n) /\ n \in Nat \ {0} /\ Asked + n <= From(cmd)
  <2>1. PICK d \in Nat : d = From(cmd) - Asked /\ d > 0
    BY <1>2, <1>3, <1>4
  <2>3. Whole(d)
    BY <1>3, <1>4, <2>1, WholeSum
  <2>2. Whole(Buffer) /\ Buffer \in Nat \ {0}
    BY DEF Whole, Buffer, Sector
  <2> QED
    BY <1>1, <1>3, <1>4, <2>1, <2>2, <2>3 DEF Least
<1>7. /\ job'.left = job.left - n /\ job'.posted = n /\ DOMAIN job' = DOMAIN job
      /\ UNCHANGED <<job.residue, job.phase, job.from, job.cur, job.short, job.todo, job.lba>>
  BY <1>1, <1>3 DEF Kinds, NoJob
<1>8. /\ job.left - n \in 0 .. cmd.size /\ Whole(job.left - n) /\ job.left - n <= job.residue
      /\ cmd.size - (job.left - n) = Asked + n
  <2>1. Asked = cmd.size - job.left
    BY DEF Asked
  <2>2. PICK m \in Int : m = job.left - n
    BY <1>4, <1>6
  <2>3. Whole(m)
    BY <1>4, <1>6, <2>2, WholeSum
  <2>4. PICK l \in Nat : l = job.left /\ l <= cmd.size
    BY <1>4
  <2>5. m \in 0 .. cmd.size /\ cmd.size - m = Asked + n
    <3>1. PICK z, a, f \in Nat : z = cmd.size /\ a = Asked /\ f = From(cmd)
      BY <1>3, <1>4
    <3>2. a = z - l /\ a + n <= f /\ f <= z /\ m = l - n /\ n \in Nat
      BY <1>4, <1>6, <2>1, <2>2, <2>4, <3>1
    <3>3. m \in 0 .. z /\ z - m = a + n
      BY <3>2
    <3> QED
      BY <3>1, <3>3
  <2>6. m <= job.residue
    BY <1>4, <1>6, <2>2
  <2> QED
    BY <2>2, <2>3, <2>5, <2>6
<1>9. outq' = <<n>> /\ tx' \in TxKind /\ tx'["out"].count = 1 /\ tx'["out"].bytes = n
  <2>1. tx' = [tx EXCEPT !["out"] = [count |-> 1, bytes |-> n]] /\ outq' = <<n>>
    BY <1>1, <1>3 DEF PostOut
  <2>2. [count |-> 1, bytes |-> n] \in [count : {0, 1}, bytes : Int]
    BY <1>6
  <2> QED
    BY <1>3, <2>1, <2>2 DEF Kinds, TxKind
<1>10. Kinds' /\ Untroubled'
  BY <1>2, <1>3, <1>7, <1>9 DEF Kinds, Untroubled, TxKind
<1>11. Taken'
  BY <1>2, <1>3, <1>7, <1>8 DEF Taken
<1>12. Asked' = Asked + n /\ Stored' = Stored
  BY <1>2, <1>7, <1>8 DEF Asked, Stored
<1>13. Writing'
  <2>1. Halfway'
    BY <1>2, <1>3, <1>7, <1>12 DEF Halfway
  <2> QED
    BY <1>2, <1>3, <1>6, <1>12, <2>1 DEF Writing, AtWrite
<1>14. Coming(job.posted)'
  <2>1. host'.left = job'.left + n
    BY <1>2, <1>3, <1>4, <1>6, <1>7
  <2> QED
    BY <1>2, <1>3, <1>7, <1>9, <2>1 DEF Coming
<1>15. job'.lba < Luns[lun'].sectors /\ Stored' = Asked' - job'.posted
  BY <1>2, <1>3, <1>5, <1>6, <1>7, <1>12 DEF Halfway
<1>16. AtFill'
  BY <1>6, <1>7, <1>9, <1>13, <1>14, <1>15 DEF AtFill
<1>17. Outs'
  BY <1>2, <1>3, <1>7, <1>8, <1>16 DEF Outs, Good, Reached
<1> QED
  BY <1>2, <1>3, <1>10, <1>11, <1>17, InStepOuts DEF Serving

\* What came is stored as far as the volume goes.
LEMMA FilledIs ==
  ASSUME InStep, pc = "fill", WaitOver
  PROVE  /\ Taken /\ cmd.dir = "out" /\ cmd.op = "write" /\ Outs /\ AtFill /\ Kinds /\ Untroubled
         /\ cmd \in Commands /\ lun = cmd.lun /\ cmd = host.cmd /\ cmd.op \in Moving
         /\ res = "ok" /\ Actual = job.posted /\ Arrived /\ Still /\ inq = <<>>
         /\ Storable \in 1 .. job.posted /\ Whole(Storable)
         /\ Storable \in {job.posted, (Luns[lun].sectors - job.lba) * Sector}
         /\ job.lba + Storable \div Sector <= Luns[lun].sectors
<1>1. Taken /\ Outs /\ Kinds /\ Untroubled /\ AtFill
  BY AtOuts, InStepParts DEF Outs
<1>2. cmd.dir = "out" /\ cmd.op = "write" /\ Halfway /\ Coming(job.posted)
      /\ tx.out.bytes = job.posted /\ job.posted \in 1 .. Buffer /\ Whole(job.posted)
      /\ job.lba < Luns[lun].sectors
  BY <1>1 DEF AtFill, Writing
<1>3. cmd \in Commands /\ lun = cmd.lun /\ cmd = host.cmd /\ cmd.op \in Moving
  BY <1>1, <1>2 DEF Taken, Moving
<1>4. res = "ok" /\ Still /\ Actual = job.posted
  BY <1>2 DEF Coming, WaitOver, Way, Still, Actual
<1>5. Arrived
  BY <1>1, <1>4 DEF AtFill, Still
<1>6. Luns[lun].sectors \in Nat /\ job.lba \in Nat /\ job.posted \in Nat \ {0}
  BY <1>2, <1>3, CommandIs, HalfwayIs DEF Buffer, Sector
<1>7. PICK d \in Nat \ {0} : d = Luns[lun].sectors - job.lba
  BY <1>2, <1>6
<1>8. PICK m : m = Least(Least(job.posted, job.posted), d * Sector)
  OBVIOUS
<1>9. m \in 1 .. job.posted /\ m \in {job.posted, d * Sector} /\ m <= d * Sector /\ m \in Nat
  BY <1>6, <1>7, <1>8 DEF Least, Sector
<1>10. Whole(m)
  BY <1>2, <1>9 DEF Whole, Sector
<1>11. Storable = m
  <2>1. Storable = m - (m % Sector)
    BY <1>4, <1>7, <1>8 DEF Storable
  <2> QED
    BY <1>9, <1>10, <2>1 DEF Whole
<1>12. job.lba + m \div Sector <= Luns[lun].sectors
  BY <1>6, <1>7, <1>9 DEF Sector
<1> QED
  BY <1>1, <1>2, <1>3, <1>4, <1>5, <1>7, <1>9, <1>10, <1>11, <1>12 DEF Outs

LEMMA FilledInStep ==
  ASSUME InStep, Shape, Filled, Calm' PROVE InStep'
<1>1. pc = "fill" /\ WaitOver
      /\ UNCHANGED <<outq, inq, events, tx, bulkReset, bufs, res, state, lun, cmd, queued, ignore>>
  BY DEF Filled, bus
<1>2. /\ Taken /\ cmd.dir = "out" /\ cmd.op = "write" /\ Outs /\ AtFill /\ Kinds /\ Untroubled
      /\ cmd \in Commands /\ lun = cmd.lun /\ cmd = host.cmd /\ cmd.op \in Moving
      /\ res = "ok" /\ Actual = job.posted /\ Arrived /\ Still /\ inq = <<>>
  BY <1>1, FilledIs
<1>3. PICK n : n = Storable
  OBVIOUS
<1>4. n \in 1 .. job.posted /\ Whole(n)
      /\ n \in {job.posted, (Luns[lun].sectors - job.lba) * Sector}
      /\ job.lba + n \div Sector <= Luns[lun].sectors
  BY <1>1, <1>3, FilledIs
<1>5. /\ cmd.size \in Nat /\ cmd.lba \in Nat /\ From(cmd) \in Nat /\ From(cmd) <= cmd.size
      /\ Whole(From(cmd)) /\ Whole(cmd.size) /\ Luns[lun].sectors \in Nat
      /\ lun # 0 /\ lun \in Lun
  BY <1>2, CommandIs, GadgetAssumption, SMTT(60) DEF Lun
<1>6. /\ Writing /\ Halfway /\ Stored = Asked - job.posted /\ job.posted \in 1 .. 4
      /\ Whole(job.posted) /\ Asked <= From(cmd) /\ job.lba < Luns[lun].sectors
      /\ job.left \in 0 .. cmd.size /\ Asked = cmd.size - job.left
  BY <1>2 DEF AtFill, Writing, Taken, Asked, Buffer, Sector
<1>7. /\ Stored \in Nat /\ Whole(Stored) /\ Stored < From(cmd)
      /\ job.todo \in Nat \ {0} /\ Stored + job.todo = From(cmd) /\ Whole(job.todo)
      /\ job.residue = cmd.size - Stored /\ job.lba = cmd.lba + Stored \div Sector
      /\ job.lba \in Nat
  BY <1>2, <1>6, HalfwayIs DEF Halfway
<1>8. /\ n \in 1 .. 4 /\ n <= job.todo /\ ~(Actual < job.posted) /\ ~(n <= 0)
      /\ Stored + n <= Asked /\ Asked \in Nat
  <2>1. PICK p \in 1 .. 4 : p = job.posted
    BY <1>6
  <2>2. Asked \in Nat /\ Asked = Stored + p /\ p <= job.todo
    BY <1>5, <1>6, <1>7, <2>1
  <2> QED
    BY <1>2, <1>4, <1>7, <2>1, <2>2
<1>9. PICK ok \in BOOLEAN :
        /\ Access(lun, ok)
        /\ IF ok
           THEN /\ job' = [job EXCEPT !.lba = @ + n \div Sector, !.todo = @ - n,
                                      !.residue = @ - n, !.short = (Actual < job.posted)]
                /\ host' = IF Meant(n, part')
                           THEN [host EXCEPT !.good = @ + n \div Sector]
                           ELSE [host EXCEPT !.astray = TRUE]
                /\ pc' = IF (Actual < job.posted) \/ job.todo = n THEN "finish" ELSE "write"
                /\ UNCHANGED units
           ELSE /\ units' = [units EXCEPT ![lun].sense = TRUE]
                /\ pc' = "finish" /\ UNCHANGED <<job, host>>
  BY <1>2, <1>3, <1>8 DEF Filled
<1>10. host'.cmd = host.cmd /\ host'.left = host.left /\ host'.phase = host.phase
       /\ host'.good \in Nat /\ DOMAIN host' = DOMAIN host
  <2>1. PICK m \in BOOLEAN : m = Meant(n, part')
    BY DEF Meant
  <2>2. host' \in {host, [host EXCEPT !.good = @ + n \div Sector], [host EXCEPT !.astray = TRUE]}
    BY <1>9, <2>1
  <2>3. n \div Sector \in Nat
    BY <1>8 DEF Sector
  <2> QED
    BY <1>2, <2>2, <2>3 DEF Kinds
<1>11. /\ Reached' => Reached /\ Addressed(lun, part') = Luns[lun].part
       /\ upsets' = {} => Luns[lun].part \in {"sd", part'}
  BY <1>2, <1>5, <1>9, <1>10, AccessIs DEF Taken
<1>12. CASE ok
  <2>1. /\ job'.lba = job.lba + n \div Sector /\ job'.todo = job.todo - n
        /\ job'.residue = job.residue - n /\ job'.short = FALSE
        /\ DOMAIN job' = DOMAIN job
        /\ UNCHANGED <<job.left, job.from, job.cur, job.phase, job.posted>>
    <3>1. PICK f \in BOOLEAN : f = (Actual < job.posted) /\ f = FALSE
      <4>1. (Actual < job.posted) = FALSE
        BY <1>2, <1>6
      <4> QED
        BY <4>1
    <3>2. job' = [job EXCEPT !.lba = @ + n \div Sector, !.todo = @ - n,
                             !.residue = @ - n, !.short = f]
      BY <1>9, <1>12, <3>1
    <3> QED
      BY <1>2, <3>1, <3>2 DEF Kinds, NoJob
  <2>2. pc' = (IF job.todo = n THEN "finish" ELSE "write") /\ UNCHANGED units
    BY <1>8, <1>9, <1>12
  <2>3. Kinds' /\ Untroubled'
    BY <1>1, <1>2, <1>10, <1>11, <2>1 DEF Kinds, Untroubled
  <2>4. /\ job'.residue = cmd.size - (Stored + n) /\ job'.residue \in 0 .. cmd.size
        /\ Whole(job'.residue) /\ job.left <= job'.residue
    <3>1. job'.residue = cmd.size - (Stored + n) /\ job'.residue \in 0 .. cmd.size
          /\ job.left <= job'.residue
      BY <1>5, <1>6, <1>7, <1>8, <2>1
    <3>2. PICK m \in Int : m = Stored + n
      BY <1>7, <1>8
    <3>3. n \in Int /\ Stored \in Int /\ cmd.size \in Int
      BY <1>5, <1>7, <1>8
    <3>4. Whole(m)
      BY <1>4, <1>7, <3>2, <3>3, WholeSum
    <3>5. Whole(job'.residue)
      BY <1>5, <3>1, <3>2, <3>3, <3>4, WholeSum
    <3> QED
      BY <3>1, <3>5
  <2>5. Taken'
    BY <1>1, <1>2, <1>10, <2>1, <2>4 DEF Taken
  <2>6. Good(cmd.size - job.residue)'
    <3> SUFFICES ASSUME Claimed(host.cmd)', Reached'
                 PROVE  host'.good * Sector = cmd.size - job'.residue
      BY <1>1 DEF Good
    <3>1. Claimed(host.cmd) /\ Reached
      BY <1>10, <1>11 DEF Claimed, Inside
    <3>2. host.good * Sector = Stored /\ host.good \in Nat
      <4>1. host.good * Sector = cmd.size - job.residue /\ host.good \in Nat
        BY <1>2, <3>1 DEF Outs, Good, Kinds
      <4> QED
        BY <1>5, <1>7, <4>1
    <3>3. Meant(n, part')
      <4>1. Luns[lun].part = Addressed(lun, part') /\ ~Luns[lun].ro /\ ~units[lun].unmounted
        BY <1>6, <1>11 DEF Writing
      <4>2. ASSUME NEW i \in 0 .. n \div Sector - 1
            PROVE  /\ job.lba + i < Luns[lun].sectors
                   /\ bufs[OutBuf + i] = <<"data", job.lba - host.cmd.lba + i, host.tag>>
        <5>1. i \in 0 .. job.posted \div Sector - 1 /\ i \in Nat /\ job.lba + i < Luns[lun].sectors
          BY <1>4, <1>5, <1>6, <1>7, <1>8 DEF Sector
        <5>2. job.lba - host.cmd.lba + i = Stored \div Sector + i
          <6>1. PICK q \in Nat : q = Stored \div Sector
            BY <1>7 DEF Sector
          <6> QED
            BY <1>2, <1>5, <1>7, <5>1, <6>1, SMTT(60)
        <5> QED
          BY <1>2, <5>1, <5>2 DEF Arrived
      <4> QED
        BY <4>1, <4>2 DEF Meant
    <3>4. host'.good = host.good + n \div Sector
      BY <1>2, <1>9, <1>12, <3>3 DEF Kinds
    <3>5. host'.good * Sector = Stored + n
      BY <1>4, <1>8, <3>2, <3>4 DEF Whole, Sector
    <3> QED
      BY <1>5, <1>7, <1>8, <2>4, <3>5
  <2>7. Still' /\ inq' = <<>> /\ Whole(job'.left)
    BY <1>1, <1>2, <1>10, <2>1 DEF Still, Outs
  <2>8. CASE job.todo = n
    <3>1. Settled'
      <4>1. job'.residue = cmd.size - From(cmd)
        BY <1>7, <2>4, <2>8
      <4> QED
        BY <1>1, <4>1 DEF Settled
    <3>2. Outs'
      BY <1>1, <2>1, <2>2, <2>4, <2>6, <2>7, <2>8, <3>1 DEF Outs
    <3> QED
      BY <1>1, <1>2, <2>2, <2>3, <2>5, <2>8, <3>2, InStepOuts DEF Serving
  <2>9. CASE job.todo # n
    <3>1. Stored' = Stored + n
      BY <1>1, <1>5, <1>7, <1>8, <2>1 DEF Stored
    <3>2. Asked' = Asked
      BY <1>1, <2>1 DEF Asked
    <3>3. Halfway'
      <4>1. job'.todo \in 1 .. From(cmd) /\ Whole(job'.todo)
        <5>1. job'.todo \in 1 .. From(cmd)
          BY <1>5, <1>7, <1>8, <2>1, <2>9
        <5>2. n \in Int /\ job.todo \in Int
          BY <1>7, <1>8
        <5>3. Whole(job'.todo)
          BY <1>4, <1>7, <2>1, <5>2, WholeSum
        <5> QED
          BY <5>1, <5>3
      <4>2. job'.lba = cmd.lba + (Stored + n) \div Sector
        BY <1>4, <1>5, <1>7, <1>8, <2>1 DEF Whole, Sector
      <4> QED
        BY <1>1, <2>4, <3>1, <4>1, <4>2 DEF Halfway
    <3>4. Writing'
      BY <1>1, <1>6, <2>2, <3>2, <3>3 DEF Writing
    <3>5. Stored' = Asked' \/ (Stored' < Asked' /\ cmd'.lba + Asked' \div Sector > Luns[lun'].sectors)
      <4>1. CASE n = job.posted
        BY <1>6, <1>7, <1>8, <3>1, <3>2, <4>1
      <4>2. CASE n # job.posted
        <5>1. n = (Luns[lun].sectors - job.lba) * Sector /\ Stored + n < Asked
          BY <1>4, <1>6, <1>7, <1>8, <4>2
        <5>2. PICK s, q, a, p \in Nat :
                /\ s = Luns[lun].sectors /\ q = Stored \div Sector /\ a = Asked \div Sector /\ p = Asked
          BY <1>5, <1>7, <1>8, SMTT(60) DEF Sector
        <5>3. p = 2 * a /\ Stored = 2 * q
          <6>1. Whole(Asked)
            <7>1. Asked = Stored + job.posted /\ job.posted \in Int /\ Stored \in Int
              BY <1>6, <1>7, <1>8
            <7> QED
              BY <1>6, <1>7, <7>1, WholeSum
          <6> QED
            BY <1>7, <1>8, <5>2, <6>1 DEF Whole, Sector
        <5>4. n = 2 * (s - (cmd.lba + q))
          BY <1>5, <1>7, <5>1, <5>2 DEF Sector
        <5>5. cmd.lba + a > s
          BY <1>5, <1>8, <5>1, <5>2, <5>3, <5>4
        <5> QED
          BY <1>1, <3>1, <3>2, <5>1, <5>2, <5>5
      <4> QED
        BY <4>1, <4>2
    <3>6. AtWrite'
      BY <2>7, <3>4, <3>5 DEF AtWrite
    <3>7. Outs'
      BY <1>1, <2>1, <2>2, <2>4, <2>6, <2>7, <2>9, <3>6 DEF Outs
    <3> QED
      BY <1>1, <1>2, <2>2, <2>3, <2>5, <2>9, <3>7, InStepOuts DEF Serving
  <2> QED
    BY <2>8, <2>9
<1>13. CASE ~ok
  <2>1. units' = [units EXCEPT ![lun].sense = TRUE] /\ pc' = "finish" /\ UNCHANGED <<job, host>>
    BY <1>9, <1>13
  <2>2. Kinds' /\ Untroubled' /\ Taken'
    BY <1>1, <1>2, <1>11, <2>1, KindsKept DEF Untroubled, Taken
  <2>3. Settled'
    <3>1. units'[lun].sense
      BY <1>5, <2>1 DEF Shape, Unit
    <3> QED
      BY <1>1, <3>1 DEF Settled
  <2>4. Good(cmd.size - job.residue)'
    BY <1>1, <1>2, <1>11, <2>1 DEF Outs, Good, Claimed, Inside
  <2>5. Outs'
    BY <1>1, <1>2, <2>1, <2>3, <2>4 DEF Outs, Still
  <2> QED
    BY <1>1, <1>2, <2>1, <2>2, <2>5, InStepOuts DEF Serving
<1> QED
  BY <1>12, <1>13

-----------------------------------------------------------------------------
(* The end of a command.                                                   *)

\* What it takes to end a command that moves nothing to the host.
LEMMA OutsEnd ==
  ASSUME InStep, pc' = "replied", Taken, cmd.dir # "in", Outs, Still, job.left = 0, Settled,
         bulkReset' = FALSE,
         UNCHANGED <<outq, inq, events, tx, state, lun, cmd, queued, ignore, units, part, host, upsets>>,
         UNCHANGED <<job.left, job.residue, job.phase, job.short, job.cur>>,
         DOMAIN job' = DOMAIN job, job'.from \in {InBuf, OutBuf}
  PROVE  InStep'
<1>1. Kinds' /\ Untroubled'
  BY InStepParts DEF Kinds, Untroubled
<1>2. Taken'
  BY DEF Taken
<1>3. Outs'
  BY DEF Outs, Still, Settled, Good, Reached
<1> QED
  BY <1>1, <1>2, <1>3, InStepOuts DEF Serving

\* Where a command is finished nothing is excepted.
LEMMA Finishes ==
  ASSUME InStep, Finishing
  PROVE  /\ Kinds /\ Untroubled /\ Taken /\ state = "normal" /\ ~job.short /\ bulkReset' = FALSE
         /\ Ep0(state) = "normal"
         /\ cmd \in Commands /\ cmd = host.cmd
         /\ cmd.dir = "in" => Ins /\ AtFinish
         /\ cmd.dir # "in" => Outs /\ Still /\ Settled
         /\ pc = "finish"
<1>1. pc = "finish" /\ state = "normal" /\ bulkReset' = FALSE
  BY DEF Finishing
<1>2. Kinds /\ Untroubled /\ Taken
  BY <1>1, InStepParts DEF Serving
<1>3. cmd.dir = "in" => Ins /\ AtFinish
  BY <1>1, AtIns DEF Serving, Ins
<1>4. cmd.dir # "in" => Outs /\ Still /\ Settled
  BY <1>1, AtOuts DEF Serving, Outs
<1> QED
  BY <1>1, <1>2, <1>3, <1>4 DEF Taken, Untroubled, Ep0

LEMMA FinishNothingInStep ==
  ASSUME InStep, FinishNothing PROVE InStep'
<1>1. Finishing /\ state' = Ep0(state) /\ pc' = "replied"
      /\ UNCHANGED <<outq, inq, tx, job, events, lun, cmd, queued, ignore, units, part, host, upsets>>
      /\ (cmd.dir = "none" \/ (cmd.dir = "out" /\ job.residue = 0) \/ (cmd.dir = "out" /\ job.left = 0))
  BY DEF FinishNothing, finished
<1>2. /\ Kinds /\ Taken /\ cmd.dir # "in" /\ Outs /\ Still /\ Settled /\ state' = state
      /\ bulkReset' = FALSE /\ cmd \in Commands
  BY <1>1, Finishes
<1>3. job.left = 0
  <2>1. job.left \in 0 .. cmd.size /\ job.left <= job.residue /\ (cmd.dir = "none" => cmd.size = 0)
    BY <1>2, CommandIs DEF Taken, Outs
  <2> QED
    BY <1>1, <2>1
<1> QED
  BY <1>1, <1>2, <1>3, OutsEnd DEF Kinds

LEMMA FinishShortInStep ==
  ASSUME InStep, FinishShort PROVE InStep'
<1>1. Finishing /\ job.short
  BY DEF FinishShort
<1> QED
  BY <1>1, Finishes

\* A transfer to the host is posted: it is the next of what is due.
LEMMA DuePosted ==
  ASSUME NEW rest \in Nat, Due(rest), Waited(0), NEW t \in Trb, t.len > 0, t.len <= rest,
         Whole(t.len) \/ t.len = rest, Loose(host.cmd) => Whole(t.len),
         inq' = Append(inq, t), host' = host, NEW q, q = rest - t.len
  PROVE  Due(q)' /\ (inq = <<>> => inq' = <<t>>) /\ (~Loose(host.cmd) => inq = <<>>)
<1>1. t.len \in Nat /\ q \in Nat /\ rest = t.len + q /\ (t.len = rest => q = 0)
  BY DEF Trb
<1>2. Lag = IF Loose(host.cmd) THEN 1 ELSE 0
  BY DEF Lag
<1>3. CASE inq = <<>>
  <2>1. inq' = <<t>> /\ host'.left = t.len + q
    BY <1>1, <1>3 DEF Due
  <2> QED
    BY <1>1, <1>3, <2>1 DEF Due
<1>4. CASE inq # <<>>
  <2>1. Len(inq) \in {0, 1, 2} /\ Len(events) \in {0, 1, 2} /\ Len(inq) + Len(events) <= 0 + Lag
    BY DueLen DEF Waited, Outstanding
  <2>2. Len(inq) # 0
    BY <1>4 DEF Due
  <2>3. Loose(host.cmd) /\ Len(inq) = 1
    <3>1. PICK l \in {0, 1} : l = Lag /\ (l = 1 <=> Loose(host.cmd))
      BY LagIs
    <3>2. l = 1 /\ Len(inq) = 1
      BY <2>1, <2>2, <3>1
    <3> QED
      BY <3>1, <3>2
  <2>4. PICK u \in Trb : inq = <<u>> /\ u.len > 0 /\ host.left = u.len + rest
                         /\ (Whole(u.len) \/ rest = 0)
    <3>1. ASSUME NEW u \in Trb, NEW w \in Trb, inq = <<u, w>> PROVE FALSE
      <4>1. Len(inq) = 2
        BY <3>1
      <4>2. Len(inq) = 1
        BY <2>3, Zenon
      <4>3. 1 # 2
        OBVIOUS
      <4> QED
        BY <4>1, <4>2, <4>3, Zenon
    <3>2. ~ \E u, w \in Trb : inq = <<u, w>>
      BY <3>1
    <3>3. \E u \in Trb : /\ inq = <<u>> /\ u.len > 0 /\ host.left = u.len + rest
                         /\ (Whole(u.len) \/ rest = 0)
      BY <1>4, <3>2, Zenon DEF Due
    <3> QED
      BY <3>3
  <2>5. inq' = <<u, t>> /\ Loose(host'.cmd) /\ Whole(u.len) /\ Whole(t.len) /\ u.len \in Nat
    <3>1. inq' = <<u, t>>
      <4>1. inq = <<u>> /\ inq' = Append(inq, t)
        BY <2>4
      <4> QED
        BY <4>1, AppendIs
    <3>2. Whole(u.len)
      <4>1. rest # 0
        BY <1>1
      <4> QED
        BY <2>4, <4>1
    <3>3. Loose(host'.cmd) /\ Whole(t.len)
      BY <2>3
    <3> QED
      BY <2>4, <3>1, <3>2, <3>3 DEF Trb
  <2>6. host'.left = u.len + t.len + q
    BY <1>1, <2>4, <2>5
  <2> QED
    BY <1>4, <2>3, <2>4, <2>5, <2>6 DEF Due
<1> QED
  BY <1>3, <1>4

LEMMA WaitedPosted ==
  ASSUME Waited(0), Len(inq) \in {0, 1, 2}, NEW t, inq' = Append(inq, t), events' = events, host' = host,
         inq = <<>> \/ (\E u : inq = <<u>>) \/ (\E u, v : inq = <<u, v>>)
  PROVE  Waited(1)' /\ (~WaitOver' => Waited(Busy)')
<1>1. Len(events) \in {0, 1, 2} /\ Len(inq) + Len(events) <= 0 + Lag
  BY DEF Waited, Outstanding
<1>2. Len(inq') = Len(inq) + 1
  OBVIOUS
<1>3. PICK l \in {0, 1} : l = Lag /\ l = Lag'
  BY DEF Lag
<1>4. Outstanding' <= 1 + l
  BY <1>1, <1>2, <1>3 DEF Outstanding
<1>5. Waited(1)'
  BY <1>3, <1>4 DEF Waited
<1>6. ~WaitOver' => Busy' = 1
  BY DEF Busy
<1> QED
  BY <1>5, <1>6 DEF Waited

\* The ring of transfers to the host is posted to.
LEMMA PostInIs ==
  ASSUME Kinds, NEW from \in {InBuf, OutBuf}, NEW len \in Nat, PostIn(from, len)
  PROVE  /\ tx' \in TxKind /\ tx'["in"].count = 1
         /\ inq' = Append(inq, [from |-> from, len |-> len])
         /\ [from |-> from, len |-> len] \in Trb
<1>1. tx' = [tx EXCEPT !["in"] = [count |-> 1, bytes |-> len]]
      /\ inq' = Append(inq, [from |-> from, len |-> len])
  BY DEF PostIn
<1>2. [count |-> 1, bytes |-> len] \in [count : {0, 1}, bytes : Int]
  OBVIOUS
<1> QED
  BY <1>1, <1>2 DEF Kinds, TxKind, Trb

\* What is due is at most two transfers.
LEMMA DueShape ==
  ASSUME NEW r, Due(r)
  PROVE  inq = <<>> \/ (\E u : inq = <<u>>) \/ (\E u, v : inq = <<u, v>>)
  BY DEF Due

\* Buffers B hold what command c expects from sector k on, for so much; what
\* comes after it is not from a volume; the sectors that are as expected.
Starts(B, c, from, len, k) ==
  \A i \in 0 .. len \div Sector - 1 : from + i \in Memory /\ B[from + i] = Expected(c, k + i)
Beyond(B, from, len, n) ==
  \A b \in Memory : b - from >= len \div Sector /\ b - from < n \div Sector => B[b][1] # "disk"
Found(B, c, from, n, k) ==
  {i \in 0 .. n \div Sector - 1 : from + i \in Memory /\ B[from + i] = Expected(c, k + i)}
Begins(B, c, from, len, n, k) ==
  /\ from \in {InBuf, OutBuf} /\ len \in 0 .. Buffer /\ n \in Nat /\ len <= n /\ k \in Int
  /\ Starts(B, c, from, len, k) /\ Beyond(B, from, len, n)

\* The sectors of a transfer that are right are as many as were read.
LEMMA FoundIs ==
  ASSUME NEW B, NEW c, NEW from, NEW len, NEW n, NEW k, Begins(B, c, from, len, n, k)
  PROVE  Found(B, c, from, n, k) = 0 .. (len \div Sector) - 1
<1>0. /\ from \in {InBuf, OutBuf} /\ len \in 0 .. Buffer /\ n \in Nat /\ len <= n /\ k \in Int
      /\ Starts(B, c, from, len, k) /\ Beyond(B, from, len, n)
  BY DEF Begins
<1>1. PICK h \in 0 .. 2 : h = len \div Sector /\ h <= n \div Sector
  BY <1>0 DEF Buffer, Sector
<1>2. n \div Sector \in Nat /\ from \in {1, 3}
  BY <1>0 DEF Sector, InBuf, OutBuf
<1>3. ASSUME NEW i \in 0 .. n \div Sector - 1
      PROVE  (from + i \in Memory /\ B[from + i] = Expected(c, k + i)) <=> i \in 0 .. h - 1
  <2>1. CASE i \in 0 .. h - 1
    BY <1>0, <1>1, <2>1 DEF Starts
  <2>2. CASE i \notin 0 .. h - 1
    <3>1. ASSUME from + i \in Memory PROVE B[from + i][1] # "disk"
      <4>1. PICK b \in Memory : b = from + i
        BY <3>1
      <4>2. b - from = i /\ i >= h /\ i < n \div Sector
        BY <1>1, <1>2, <1>3, <2>2, <4>1
      <4> QED
        BY <1>0, <1>1, <4>1, <4>2 DEF Beyond
    <3>2. Expected(c, k + i)[1] = "disk"
      BY DEF Expected
    <3> QED
      BY <2>2, <3>1, <3>2
  <2> QED
    BY <2>1, <2>2
<1>4. 0 .. h - 1 \subseteq 0 .. n \div Sector - 1
  BY <1>1, <1>2
<1> QED
  BY <1>1, <1>3, <1>4 DEF Found

\* What the host takes from a transfer.
LEMMA RightFound ==
  ASSUME NEW t \in Trb, NEW done
  PROVE  Right(t, done) = Found(bufs, host.cmd, t.from, t.len, done \div Sector)
  BY DEF Right, Found

\* The last buffer of a read, or a reply, is all the host waits for.
LEMMA FinishReplyInStep ==
  ASSUME InStep, FinishReply PROVE InStep'
<1>1. /\ Finishing /\ state' = Ep0(state) /\ cmd.dir = "in" /\ job.residue = 0
      /\ PostIn(job.from, job.len) /\ job' = [job EXCEPT !.left = 0]
      /\ pc' = "reply" /\ res' = "ok"
      /\ UNCHANGED <<outq, bufs, events, lun, cmd, queued, ignore, units, part, host, upsets>>
  BY DEF FinishReply, finished
<1>2. /\ Kinds /\ Untroubled /\ Taken /\ state' = state /\ ~job.short /\ bulkReset' = FALSE
      /\ cmd \in Commands /\ cmd = host.cmd /\ Ins /\ AtFinish /\ state = "normal"
  BY <1>1, Finishes
<1>3. /\ Left /\ Settled /\ Waited(0) /\ Good(Moved) /\ job.len \in 1 .. cmd.size
      /\ Due(job.len) /\ job.len \in 0 .. Buffer /\ job.from \in {InBuf, OutBuf} /\ job.len \in Nat
  <2>1. job.len \in 0 .. Buffer /\ job.residue + job.len = job.len
    BY <1>1, <1>2 DEF AtFinish, Left, Buffer, Sector
  <2> QED
    BY <1>2, <2>1 DEF AtFinish, Kinds, Buffer, Sector
<1>4. PICK t : t = [from |-> job.from, len |-> job.len]
  OBVIOUS
<1>5. /\ tx' \in TxKind /\ tx'["in"].count = 1 /\ inq' = Append(inq, t) /\ t \in Trb
      /\ t.len = job.len /\ t.from = job.from
  BY <1>1, <1>2, <1>3, <1>4, PostInIs
<1>6. /\ job'.left = 0 /\ DOMAIN job' = DOMAIN job
      /\ UNCHANGED <<job.residue, job.len, job.phase, job.from, job.cur, job.short>>
  BY <1>1, <1>2 DEF Kinds, NoJob
<1>7. Kinds' /\ Untroubled'
  BY <1>1, <1>2, <1>5, <1>6 DEF Kinds, Untroubled, TxKind
<1>8. Taken'
  <2>1. Whole(0) /\ 0 \in 0 .. cmd.size
    BY <1>2, CommandIs DEF Whole, Sector
  <2> QED
    BY <1>1, <1>2, <1>6, <2>1 DEF Taken
<1>9. /\ Due(0)' /\ (inq = <<>> => inq' = <<t>>) /\ (~Loose(host.cmd) => inq = <<>>)
  <2>1. Loose(host.cmd) => Whole(t.len)
    BY <1>2, <1>3, <1>5 DEF Loose, Left, Moving
  <2>2. host' = host /\ 0 = job.len - t.len /\ t.len > 0 /\ t.len <= job.len /\ t.len = job.len
    BY <1>1, <1>3, <1>5
  <2> QED
    BY <1>3, <1>5, <2>1, <2>2, DuePosted
<1>10. Waited(Busy)'
  <2>1. ~WaitOver'
    BY <1>1, <1>5 DEF WaitOver, Way
  <2> QED
    BY <1>1, <1>3, <1>5, <2>1, WaitedPosted, DueLen, DueShape
<1>11. ASSUME NEW v \in Trb, inq' = <<v>>
       PROVE  \E r \in 0 .. 2 :
                Claimed(cmd) /\ Reached =>
                  /\ Right(v, Moved)' = 0 .. r - 1
                  /\ (host.good + r) * Sector = cmd.size - job.residue
  <2>1. PICK r \in 0 .. 2 : r = job.len \div Sector
    BY <1>3 DEF Buffer, Sector
  <2>2. ASSUME Claimed(cmd), Reached
        PROVE  Right(v, Moved)' = 0 .. r - 1 /\ (host.good + r) * Sector = cmd.size - job.residue
    <3>1. inq = <<>> /\ v = t
      <4>1. ~Loose(host.cmd)
        BY <1>2, <2>2 DEF Claimed, Loose
      <4> QED
        BY <1>9, <1>11, <4>1
    <3>2. host.left = job.len
      BY <1>3, <3>1 DEF Due
    <3>3. Holds(job.from, job.len, Moved \div Sector) /\ host.good * Sector = Moved /\ Whole(job.len)
      BY <1>2, <1>3, <2>2 DEF Left, Correct, Good, Claimed
    <3>4. Right(t, Moved) = 0 .. r - 1
      <4>1. PICK k \in Int : k = Moved \div Sector
        <5>1. Moved \in Int
          BY <1>2, <1>3, <3>2, CommandIs DEF Moved
        <5> QED
          BY <5>1 DEF Sector
      <4>2. Beyond(bufs, job.from, job.len, job.len)
        BY <1>3, <2>1 DEF Beyond, Memory, InBuf, OutBuf
      <4>3. Starts(bufs, host.cmd, job.from, job.len, k)
        BY <3>3, <4>1 DEF Holds, Starts
      <4>4. Found(bufs, host.cmd, job.from, job.len, k) = 0 .. r - 1
        <5>1. Begins(bufs, host.cmd, job.from, job.len, job.len, k)
          BY <1>3, <4>2, <4>3 DEF Begins
        <5> QED
          BY <2>1, <5>1, FoundIs
      <4> QED
        BY <1>5, <4>1, <4>4, RightFound
    <3>5. Right(v, Moved)' = 0 .. r - 1
      BY <1>1, <3>1, <3>4 DEF Right, Moved
    <3>6. (host.good + r) * Sector = cmd.size - job.residue
      <4>1. PICK g, z \in Nat : g = host.good /\ z = cmd.size
        BY <1>2, CommandIs DEF Kinds
      <4>2. g * Sector = z - job.len /\ job.len = 2 * r
        BY <1>2, <1>3, <2>1, <3>2, <3>3, <4>1 DEF Moved, Whole, Sector
      <4>3. (g + r) * 2 = z
        BY <4>2 DEF Sector
      <4> QED
        BY <1>1, <4>1, <4>3 DEF Sector
    <3> QED
      BY <3>5, <3>6
  <2> QED
    BY <2>2
<1>12. AtReply'
  <2>1. Settled'
    BY <1>1, <1>3, <1>6 DEF Settled
  <2>2. inq' # <<>>
    BY <1>5
  <2>3. Reached' = Reached
    BY <1>1 DEF Reached
  <2>4. Due(job.left)'
    BY <1>6, <1>9
  <2> QED
    BY <1>1, <1>6, <1>10, <1>11, <2>1, <2>2, <2>3, <2>4 DEF AtReply
<1>13. Ins'
  BY <1>1, <1>2, <1>12 DEF Ins
<1> QED
  BY <1>1, <1>7, <1>8, <1>13, InStepIns DEF Serving

LEMMA FinishPaddedInStep ==
  ASSUME InStep, FinishPadded PROVE InStep'
<1>1. /\ Finishing /\ state' = Ep0(state) /\ cmd.dir = "in" /\ job.residue > 0
      /\ job' = [job EXCEPT !.left = job.len + job.residue]
      /\ pc' = "pad"
      /\ UNCHANGED <<outq, inq, tx, bufs, res, events, lun, cmd, queued, ignore, units, part, host,
                     upsets>>
  BY DEF FinishPadded, finished
<1>2. /\ Kinds /\ Untroubled /\ Taken /\ state' = state /\ ~job.short /\ bulkReset' = FALSE
      /\ cmd \in Commands /\ cmd = host.cmd /\ Ins /\ AtFinish /\ state = "normal"
  BY <1>1, Finishes
<1>3. /\ job'.left = job.len + job.residue /\ DOMAIN job' = DOMAIN job
      /\ UNCHANGED <<job.residue, job.len, job.phase, job.from, job.cur, job.short>>
  BY <1>1, <1>2 DEF Kinds, NoJob
<1>4. /\ job.len \in Nat /\ job.residue \in Nat /\ cmd.size \in Nat
      /\ job.residue + job.len \in 1 .. cmd.size
      /\ (cmd.op \in Moving => Whole(job.len) /\ Whole(job.residue))
  BY <1>2, CommandIs DEF AtFinish, Left, Taken, Buffer, Sector
<1>5. PICK n \in 1 .. cmd.size : n = job'.left /\ n = job.residue + job.len /\ job.len <= n
  BY <1>3, <1>4
<1>6. Kinds' /\ Untroubled'
  BY <1>1, <1>2, <1>3 DEF Kinds, Untroubled
<1>7. Taken'
  <2>1. cmd.op \in Moving => Whole(n)
    BY <1>4, <1>5, WholeSum
  <2> QED
    BY <1>1, <1>2, <1>3, <1>5, <2>1 DEF Taken
<1>8. Left'
  BY <1>1, <1>2, <1>3 DEF AtFinish, Left, Correct, Holds, Reached, Moved
<1>9. Due(job.left)'
  BY <1>1, <1>2, <1>5 DEF AtFinish, Due
<1>10. Good(cmd.size - job.residue - job.len)'
  <2>1. ASSUME Claimed(host.cmd), Reached PROVE host.good * Sector = cmd.size - job.residue - job.len
    <3>1. inq = <<>>
      <4>1. ~Loose(host.cmd)
        BY <2>1 DEF Claimed, Loose
      <4>2. Len(inq) + Len(events) <= 0 + Lag /\ Lag = 0 /\ Len(events) \in {0, 1, 2}
        BY <1>2, <4>1 DEF AtFinish, Waited, Outstanding, Lag
      <4>3. Due(n) /\ Len(inq) \in {0, 1, 2}
        BY <1>2, <1>5, DueLen DEF AtFinish
      <4> QED
        BY <4>2, <4>3 DEF Due
    <3>2. host.left = n
      BY <1>2, <1>5, <3>1 DEF AtFinish, Due
    <3>3. host.good * Sector = cmd.size - n
      BY <1>2, <2>1, <3>2 DEF AtFinish, Good, Moved
    <3> QED
      BY <1>4, <1>5, <3>3
  <2> QED
    BY <1>1, <1>3, <2>1 DEF Good, Reached
<1>11. AtPad'
  BY <1>1, <1>2, <1>3, <1>5, <1>8, <1>9, <1>10
     DEF AtPad, AtFinish, Settled, Waited, Outstanding, Lag, Good, Moved, Reached
<1>12. Ins'
  BY <1>1, <1>2, <1>11 DEF Ins
<1> QED
  BY <1>1, <1>6, <1>7, <1>12, InStepIns DEF Serving

\* What the host sends too much is thrown away whole.
LEMMA FinishDiscardInStep ==
  ASSUME InStep, FinishDiscard PROVE InStep'
<1>1. PICK n : /\ n = Least(job.left, EpMax) /\ PostOut(n)
               /\ job' = [job EXCEPT !.left = @ - n]
               /\ pc' = IF Cells(OutBuf, n) \subseteq Memory THEN "discard" ELSE "overrun"
  BY DEF FinishDiscard
<1>2. /\ Finishing /\ state' = Ep0(state) /\ cmd.dir = "out" /\ job.left > 0 /\ res' = "ok"
      /\ UNCHANGED <<inq, bufs, events, lun, cmd, queued, ignore, units, part, host, upsets>>
  BY DEF FinishDiscard, finished
<1>3. /\ Kinds /\ Untroubled /\ Taken /\ state' = state /\ ~job.short /\ bulkReset' = FALSE
      /\ cmd \in Commands /\ cmd = host.cmd /\ Outs /\ Still /\ Settled /\ state = "normal"
  BY <1>2, Finishes
<1>4. /\ job.left \in Nat /\ job.left <= cmd.size /\ Whole(job.left) /\ job.left <= job.residue
      /\ job.residue \in Nat /\ host.left = job.left /\ inq = <<>> /\ outq = <<>> /\ events = <<>>
      /\ cmd.size \in Nat
  BY <1>3, CommandIs DEF Taken, Outs, Still
<1>5. n \in 1 .. EpMax /\ Whole(n) /\ n <= job.left /\ EpMax = 8 /\ n \in Int
      /\ (n # EpMax => n = job.left)
  <2>1. Whole(EpMax) /\ EpMax = 8
    BY DEF Whole, EpMax, Buffer, Sector
  <2> QED
    BY <1>1, <1>2, <1>4, <2>1 DEF Least
<1>6. PICK l \in Nat : l = job.left - n
  BY <1>4, <1>5
<1>7. /\ job'.left = l /\ DOMAIN job' = DOMAIN job
      /\ UNCHANGED <<job.residue, job.len, job.phase, job.from, job.cur, job.short>>
  BY <1>1, <1>3, <1>6 DEF Kinds, NoJob
<1>8. l <= cmd.size /\ l <= job.residue /\ Whole(l) /\ host.left = l + n
  <2>1. Whole(l)
    BY <1>4, <1>5, <1>6, WholeSum
  <2> QED
    BY <1>4, <1>5, <1>6, <2>1
<1>9. outq' = <<n>> /\ tx' \in TxKind /\ tx'["out"].count = 1
  <2>1. tx' = [tx EXCEPT !["out"] = [count |-> 1, bytes |-> n]] /\ outq' = <<n>>
    BY <1>1, <1>4 DEF PostOut
  <2>2. [count |-> 1, bytes |-> n] \in [count : {0, 1}, bytes : Int]
    BY <1>5
  <2> QED
    BY <1>3, <2>1, <2>2 DEF Kinds, TxKind
<1>10. Kinds' /\ Untroubled'
  BY <1>2, <1>3, <1>7, <1>9 DEF Kinds, Untroubled, TxKind
<1>11. Taken'
  BY <1>2, <1>3, <1>4, <1>7, <1>8 DEF Taken
<1>12. Throwing'
  <2>1. Coming(n)'
    BY <1>2, <1>4, <1>7, <1>8, <1>9 DEF Coming
  <2> QED
    BY <1>5, <2>1 DEF Throwing
<1>13. Cells(OutBuf, n) \subseteq Memory => l = 0
  <2>1. ASSUME n = 8 PROVE ~(Cells(OutBuf, n) \subseteq Memory)
    <3>1. 6 \in Cells(OutBuf, n) /\ 6 \notin Memory
      BY <2>1 DEF Cells, OutBuf, Sector, Memory
    <3> QED
      BY <3>1
  <2> QED
    BY <1>4, <1>5, <1>6, <2>1
<1>14. pc' \in {"discard", "overrun"} /\ (pc' = "discard" => job'.left = 0)
  <2>1. CASE Cells(OutBuf, n) \subseteq Memory
    BY <1>1, <1>7, <1>13, <2>1
  <2>2. CASE ~(Cells(OutBuf, n) \subseteq Memory)
    BY <1>1, <2>2
  <2> QED
    BY <2>1, <2>2
<1>15. Settled' /\ Good(cmd.size - job.residue)'
  BY <1>2, <1>3, <1>7 DEF Settled, Good, Outs, Reached
<1>16. Outs'
  BY <1>2, <1>4, <1>7, <1>8, <1>12, <1>14, <1>15 DEF Outs
<1> QED
  BY <1>2, <1>10, <1>11, <1>14, <1>16, InStepOuts DEF Serving

LEMMA AbandonedInStep ==
  ASSUME InStep, Abandoned PROVE InStep'
<1>1. pc \in Serving /\ state # "normal"
  BY DEF Abandoned, Serving
<1> QED
  BY <1>1, InStepParts DEF Taken

\* What a pad sends: what was read, and zeros.
LEMMA PadInStep ==
  ASSUME InStep, Shape, Pad PROVE InStep'
<1>1. PICK n :
        /\ n = Least(job.left, EpMax)
        /\ bufs' = [b \in Memory |-> IF b \in Cells(job.from, n) /\ (b - job.from) * Sector >= job.len
                                     THEN <<"zero">> ELSE bufs[b]]
        /\ PostIn(job.from, n)
        /\ job' = [job EXCEPT !.left = @ - n, !.len = 0]
        /\ pc' = IF Cells(job.from, n) \subseteq Memory THEN "reply" ELSE "overrun"
  BY DEF Pad, Zenon
<1>2. /\ pc = "pad" /\ res' = "ok"
      /\ UNCHANGED <<outq, events, bulkReset, state, lun, cmd, queued, ignore, units, part,
                     host, upsets>>
  BY DEF Pad
<1>3. /\ Kinds /\ Untroubled /\ Taken /\ Ins /\ AtPad /\ cmd.dir = "in" /\ cmd \in Commands
      /\ cmd = host.cmd
  BY <1>2, AtIns, InStepParts DEF Ins, Taken
<1>4. /\ Left /\ Settled /\ Waited(0) /\ job.left > 0 /\ job.len <= job.left /\ Due(job.left)
      /\ job.left \in Nat /\ job.left <= cmd.size /\ cmd.size \in Nat
      /\ (cmd.op \in Moving => Whole(job.left) /\ Whole(job.len))
      /\ job.len \in 0 .. Buffer /\ job.from \in {InBuf, OutBuf} /\ job.residue \in Nat
  BY <1>3, CommandIs DEF AtPad, Taken, Left, Kinds
<1>5. /\ n \in Nat /\ n > 0 /\ n <= job.left /\ EpMax = 8 /\ (n = job.left \/ n = 8)
      /\ (Whole(n) \/ n = job.left) /\ job.len <= n
      /\ (cmd.op \in Moving => Whole(n))
  <2>1. Whole(8) /\ EpMax = 8 /\ Buffer = 4
    BY DEF Whole, EpMax, Buffer, Sector
  <2> QED
    BY <1>1, <1>4, <2>1 DEF Least
<1>6. PICK l \in Nat : l = job.left - n
  BY <1>4, <1>5
<1>7. /\ job'.left = l /\ job'.len = 0 /\ DOMAIN job' = DOMAIN job
      /\ UNCHANGED <<job.residue, job.phase, job.from, job.cur, job.short>>
  BY <1>1, <1>3, <1>6 DEF Kinds, NoJob
<1>8. PICK t : t = [from |-> job.from, len |-> n]
  OBVIOUS
<1>9. /\ tx' \in TxKind /\ tx'["in"].count = 1 /\ inq' = Append(inq, t) /\ t \in Trb
      /\ t.len = n /\ t.from = job.from
  BY <1>1, <1>3, <1>4, <1>5, <1>8, PostInIs
<1>10. Kinds' /\ Untroubled'
  BY <1>2, <1>3, <1>7, <1>9 DEF Kinds, Untroubled, TxKind
<1>11. Taken'
  <2>1. cmd.op \in Moving => Whole(l)
    BY <1>4, <1>5, <1>6, WholeSum
  <2>2. l \in 0 .. cmd.size
    BY <1>4, <1>5, <1>6
  <2> QED
    BY <1>2, <1>3, <1>7, <2>1, <2>2 DEF Taken
<1>12. /\ Due(job.left)' /\ (inq = <<>> => inq' = <<t>>) /\ (~Loose(host.cmd) => inq = <<>>)
  <2>1. Loose(host.cmd) => Whole(t.len)
    BY <1>3, <1>5, <1>9 DEF Loose, Moving
  <2>2. Due(l)' /\ (inq = <<>> => inq' = <<t>>) /\ (~Loose(host.cmd) => inq = <<>>)
    <3>1. t.len > 0 /\ t.len <= job.left /\ (Whole(t.len) \/ t.len = job.left) /\ l = job.left - t.len
      BY <1>5, <1>6, <1>9
    <3>2. host' = host
      BY <1>2
    <3> QED
      BY <1>4, <1>9, <2>1, <3>1, <3>2, DuePosted
  <2> QED
    BY <1>7, <2>2
<1>13. Waited(1)' /\ (~WaitOver' => Waited(Busy)')
  BY <1>2, <1>4, <1>9, WaitedPosted, DueLen, DueShape
<1>14. CASE ~(Cells(job.from, n) \subseteq Memory)
  <2>1. pc' = "overrun"
    BY <1>1, <1>14
  <2>2. Ins'
    BY <1>2, <1>3, <1>12, <1>13, <2>1 DEF Ins
  <2> QED
    BY <1>2, <1>3, <1>10, <1>11, <2>1, <2>2, InStepIns DEF Serving
<1>15. CASE Cells(job.from, n) \subseteq Memory
  <2>1. pc' = "reply"
    BY <1>1, <1>15
  <2>2. Waited(Busy)'
    BY <1>2, <1>9, <1>13, <2>1 DEF WaitOver, Way
  <2>3. ASSUME NEW v \in Trb, inq' = <<v>>
        PROVE  \E r \in 0 .. 2 :
                 Claimed(cmd) /\ Reached =>
                   /\ Right(v, Moved)' = 0 .. r - 1
                   /\ (host.good + r) * Sector = cmd.size - job.residue
    <3>1. PICK r \in 0 .. 2 : r = job.len \div Sector
      BY <1>4 DEF Buffer, Sector
    <3>2. ASSUME Claimed(cmd), Reached
          PROVE  Right(v, Moved)' = 0 .. r - 1 /\ (host.good + r) * Sector = cmd.size - job.residue
      <4>1. inq = <<>> /\ v = t
        <5>1. ~Loose(host.cmd)
          BY <1>3, <3>2 DEF Claimed, Loose
        <5> QED
          BY <1>12, <2>3, <5>1
      <4>2. PICK k \in Int : k = Moved \div Sector
        <5>1. Moved \in Int
          BY <1>3, <1>4 DEF Moved, Kinds
        <5> QED
          BY <5>1 DEF Sector
      <4>3. \A i \in 0 .. job.len \div Sector - 1 :
              job.from + i \in Memory /\ bufs[job.from + i] = Expected(host.cmd, k + i)
        BY <1>3, <1>4, <3>2, <4>2 DEF Left, Correct, Holds
      <4>4. Starts(bufs', host.cmd, job.from, job.len, k)
        <5> USE DEF Starts
        <5> TAKE i \in 0 .. job.len \div Sector - 1
        <5>1. PICK b \in Memory : b = job.from + i
          BY <4>3
        <5>2. ~((b - job.from) * Sector >= job.len)
          BY <1>4, <5>1 DEF Sector, InBuf, OutBuf, Buffer
        <5>3. bufs'[b] = bufs[b]
          BY <1>1, <5>2
        <5> QED
          BY <4>3, <5>1, <5>3
      <4>5. Beyond(bufs', job.from, job.len, n)
        <5> SUFFICES ASSUME NEW b \in Memory, b - job.from >= job.len \div Sector,
                            b - job.from < n \div Sector
                     PROVE  bufs'[b][1] # "disk"
          BY DEF Beyond
        <5>1. Whole(job.len)
          BY <1>4, <3>2 DEF Claimed
        <5>2. b \in Cells(job.from, n) /\ (b - job.from) * Sector >= job.len
          BY <1>4, <1>5, <5>1 DEF Cells, Memory, Whole, Sector, InBuf, OutBuf, Buffer
        <5>3. bufs'[b] = <<"zero">>
          BY <1>1, <5>2
        <5> QED
          BY <5>3
      <4>6. Right(v, Moved)' = 0 .. r - 1
        <5>1. Found(bufs', host.cmd, job.from, n, k) = 0 .. r - 1
          <6>1. Begins(bufs', host.cmd, job.from, job.len, n, k)
            BY <1>4, <1>5, <4>4, <4>5 DEF Begins
          <6> QED
            BY <3>1, <6>1, FoundIs
        <5>2. Right(t, Moved)' = Found(bufs', host.cmd, job.from, n, k)
          BY <1>2, <1>9, <4>2 DEF Right, Found, Moved
        <5> QED
          BY <4>1, <5>1, <5>2
      <4>7. (host.good + r) * Sector = cmd.size - job.residue
        <5>1. host.good * Sector = cmd.size - job.residue - job.len
          BY <1>3, <3>2 DEF AtPad, Good
        <5>2. job.len = 2 * r /\ host.good \in Nat
          BY <1>3, <1>4, <3>1, <3>2 DEF Claimed, Whole, Sector, Kinds
        <5> QED
          BY <1>4, <5>1, <5>2 DEF Sector
      <4> QED
        BY <4>6, <4>7
    <3> QED
      BY <3>2
  <2>4. AtReply'
    <3>1. Settled'
      BY <1>2, <1>4, <1>7 DEF Settled
    <3>2. inq' # <<>>
      BY <1>9
    <3>3. Reached' = Reached
      BY <1>2 DEF Reached
    <3> QED
      BY <1>2, <1>7, <1>12, <2>2, <2>3, <3>1, <3>2, <3>3 DEF AtReply
  <2>5. Ins'
    BY <1>2, <1>3, <2>1, <2>4 DEF Ins
  <2> QED
    BY <1>2, <1>3, <1>10, <1>11, <2>1, <2>5, InStepIns DEF Serving
<1> QED
  BY <1>14, <1>15

\* Nothing is on its way to a host whose command is a sound one.
LEMMA NoneDue ==
  ASSUME NEW rest, Due(rest), Waited(0), Claimed(host.cmd) PROVE inq = <<>>
<1>1. Lag = 0
  BY DEF Claimed, Loose, Lag
<1>2. Len(inq) + Len(events) <= 0 + 0 /\ Len(events) \in {0, 1, 2} /\ Len(inq) \in {0, 1, 2}
  BY <1>1, DueLen DEF Waited, Outstanding
<1> QED
  BY <1>2 DEF Due

LEMMA RepliedInStep ==
  ASSUME InStep, Replied PROVE InStep'
<1>1. /\ pc \in {"reply", "discard"} /\ WaitOver
      /\ pc' = (IF pc = "reply" /\ job.left > 0 THEN "pad" ELSE "replied")
      /\ job' = IF pc' = "replied" /\ pc = "reply" THEN [job EXCEPT !.from = InBuf] ELSE job
      /\ UNCHANGED <<outq, inq, events, tx, bulkReset, bufs, res, state, lun, cmd, queued, ignore,
                     units, part, host, upsets>>
  BY DEF Replied, bus
<1>2. Kinds /\ Untroubled
  BY InStepParts
<1>3. CASE pc = "discard"
  <2>1. Taken /\ cmd.dir # "in" /\ Outs /\ Throwing /\ job.left = 0 /\ Settled
    BY <1>3, AtOuts DEF Outs
  <2>2. Still
    BY <1>1, <1>3, <2>1 DEF Throwing, Coming, WaitOver, Way, Still
  <2>3. pc' = "replied" /\ job' = job
    BY <1>1, <1>3
  <2>4. bulkReset' = FALSE
    BY <1>1, <1>2 DEF Untroubled, Kinds
  <2> QED
    BY <1>1, <1>2, <2>1, <2>2, <2>3, <2>4, OutsEnd DEF Kinds
<1>4. CASE pc = "reply"
  <2>1. Taken /\ cmd.dir = "in" /\ Ins /\ AtReply /\ cmd = host.cmd /\ cmd \in Commands
    BY <1>4, AtIns DEF Ins, Taken
  <2>2. job.left \in Nat /\ job.residue \in Nat /\ cmd.size \in Nat
    BY <2>1, CommandIs DEF Taken
  <2>3. Settled /\ Waited(0) /\ Due(job.left) /\ (job.left > 0 => job.len = 0)
        /\ (inq = <<>> => Good(cmd.size - job.residue))
    BY <1>1, <2>1 DEF AtReply, Busy
  <2>4. Good(cmd.size - job.residue)
    <3>1. Claimed(host.cmd) => inq = <<>>
      BY <2>3, NoneDue
    <3> QED
      BY <2>3, <3>1 DEF Good
  <2>5. CASE job.left > 0
    <3>1. pc' = "pad" /\ job' = job /\ job.len = 0
      BY <1>1, <1>4, <2>3, <2>5
    <3>2. Kinds' /\ Untroubled' /\ Taken'
      BY <1>1, <1>2, <2>1, <3>1, KindsKept, UntroubledKept DEF Taken
    <3>3. Left'
      BY <3>1 DEF Left, Correct, Holds, Whole, Buffer, Sector
    <3>4. Settled' /\ Waited(0)' /\ Due(job.left)'
      BY <1>1, <2>3, <3>1 DEF Settled, Waited, Outstanding, Lag, Due
    <3>5. Good(cmd.size - job.residue - job.len)'
      <4>1. cmd.size - job.residue - job.len = cmd.size - job.residue
        BY <2>2, <3>1
      <4> QED
        BY <1>1, <2>4, <3>1, <4>1 DEF Good, Reached
    <3>6. AtPad'
      BY <2>2, <2>5, <3>1, <3>3, <3>4, <3>5 DEF AtPad
    <3>7. Ins'
      BY <1>1, <2>1, <3>1, <3>6 DEF Ins
    <3> QED
      BY <1>1, <2>1, <3>1, <3>2, <3>7, InStepIns DEF Serving
  <2>6. CASE ~(job.left > 0)
    <3>1. pc' = "replied" /\ job' = [job EXCEPT !.from = InBuf] /\ job.left = 0
      BY <1>1, <1>4, <2>2, <2>6
    <3>2. /\ job'.from = InBuf /\ DOMAIN job' = DOMAIN job
          /\ UNCHANGED <<job.residue, job.left, job.len, job.phase, job.cur, job.short>>
      BY <1>2, <3>1 DEF Kinds, NoJob
    <3>3. Kinds' /\ Untroubled' /\ Taken'
      BY <1>1, <1>2, <2>1, <3>2 DEF Kinds, Untroubled, Taken
    <3>4. Settled' /\ Waited(0)' /\ Due(0)' /\ Good(cmd.size - job.residue)'
      BY <1>1, <2>3, <2>4, <3>1, <3>2 DEF Settled, Waited, Outstanding, Lag, Due, Good, Reached
    <3>5. Ins'
      BY <1>1, <2>1, <3>1, <3>4 DEF Ins, AtReplied
    <3> QED
      BY <1>1, <2>1, <3>1, <3>3, <3>5, InStepIns DEF Serving
  <2> QED
    BY <2>5, <2>6
<1> QED
  BY <1>1, <1>3, <1>4

\* The status that is sent is true.
LEMMA AnswerInStep ==
  ASSUME InStep, Shape, Answer PROVE InStep'
<1>1. /\ pc = "replied"
      /\ bufs' = [bufs EXCEPT ![job.from] = <<"csw", job.tag, Status, job.residue>>]
      /\ PostIn(job.from, 1) /\ job' = [job EXCEPT !.len = 1]
      /\ pc' = "status" /\ res' = "ok"
      /\ UNCHANGED <<outq, events, bulkReset, state, lun, cmd, queued, ignore, units, part, host,
                     upsets>>
  BY DEF Answer, SendStatus
<1>2. Kinds /\ Untroubled /\ Taken /\ cmd = host.cmd /\ cmd \in Commands
  BY <1>1, InStepParts DEF Serving, Taken
<1>3. /\ Settled /\ Waited(0) /\ Good(cmd.size - job.residue) /\ outq = <<>>
      /\ \/ inq = <<>> /\ host.left = 0
         \/ /\ Loose(host.cmd) /\ host.cmd.dir = "in"
            /\ \E t \in Trb : t.len = host.left /\ t.len > 0 /\ inq = <<t>>
  <2>1. CASE cmd.dir = "in"
    <3>1. AtReplied /\ outq = <<>>
      BY <1>1, <2>1, AtIns DEF Ins, Serving
    <3>2. CASE inq = <<>>
      BY <3>1, <3>2 DEF AtReplied, Due
    <3>3. CASE inq # <<>>
      <4>1. Len(inq) + Len(events) <= 0 + Lag /\ Len(events) \in {0, 1, 2} /\ Due(0)
        BY <3>1 DEF AtReplied, Waited, Outstanding
      <4>2. Len(inq) \in {1, 2}
        BY <3>3, <4>1 DEF Due
      <4>3. Len(inq) = 1 /\ Lag = 1
        BY <4>1, <4>2, LagIs, SMTT(60)
      <4>4. Loose(host.cmd)
        BY <4>3, LagIs
      <4>5. PICK t \in Trb : inq = <<t>> /\ t.len > 0 /\ host.left = t.len + 0
        BY <3>3, <4>1, <4>3 DEF Due
      <4>6. t.len = host.left
        BY <4>5 DEF Trb
      <4> QED
        BY <1>2, <2>1, <3>1, <4>4, <4>5, <4>6 DEF AtReplied
    <3> QED
      BY <3>2, <3>3
  <2>2. CASE cmd.dir # "in"
    <3>1. Outs /\ Still /\ job.left = 0 /\ Settled /\ inq = <<>>
      BY <1>1, <2>2, AtOuts DEF Outs, Serving
    <3> QED
      BY <3>1, LagIs DEF Outs, Still, Waited, Outstanding
  <2> QED
    BY <2>1, <2>2
<1>4. PICK t : t = [from |-> job.from, len |-> 1]
  OBVIOUS
<1>5. /\ tx' \in TxKind /\ tx'["in"].count = 1 /\ inq' = Append(inq, t) /\ t \in Trb
  BY <1>1, <1>2, <1>4, PostInIs DEF Kinds
<1>6. /\ DOMAIN job' = DOMAIN job
      /\ UNCHANGED <<job.residue, job.left, job.phase, job.from, job.cur, job.short>>
  BY <1>1, <1>2 DEF Kinds, NoJob
<1>7. Kinds' /\ Untroubled'
  BY <1>1, <1>2, <1>5, <1>6 DEF Kinds, Untroubled, TxKind
<1>8. Waited(Busy)'
  <2>1. ~WaitOver'
    BY <1>1, <1>5 DEF WaitOver, Way
  <2>2. Len(inq) \in {0, 1, 2} /\ (inq = <<>> \/ \E u : inq = <<u>>)
    BY <1>3
  <2> QED
    BY <1>1, <1>3, <1>5, <2>1, <2>2, WaitedPosted
<1>9. Truth(bufs[job.from][3], bufs[job.from][4])'
  <2>1. bufs'[job.from] = <<"csw", job.tag, Status, job.residue>>
    <3>1. job.from \in Memory
      BY <1>2 DEF Kinds, InBuf, OutBuf, Memory
    <3> QED
      BY <1>1, <3>1 DEF Shape
  <2>2. bufs'[job'.from][3] = Status /\ bufs'[job'.from][4] = job.residue
    BY <1>6, <2>1
  <2>3. ASSUME Claimed(host.cmd), Reached
        PROVE  /\ Status = "pass" => job.residue = host.cmd.size - From(host.cmd)
               /\ host.good * Sector = host.cmd.size - job.residue
    BY <1>2, <1>3, <2>3 DEF Status, Settled, Claimed, Good
  <2>4. Truth(Status, job.residue)'
    <3>1. Reached' = Reached /\ host' = host
      BY <1>1 DEF Reached
    <3>2. job'.residue = job.residue /\ Status' = Status
      BY <1>1, <1>6 DEF Status
    <3> QED
      BY <2>3, <3>1, <3>2 DEF Truth
  <2>5. Status' = Status
    BY <1>1, <1>6 DEF Status
  <2> QED
    BY <1>6, <2>2, <2>4, <2>5 DEF Truth
<1>10. OnItsWay'
  <2>1. host'.phase = Phase(host'.cmd, host'.left)
    BY <1>1, <1>2 DEF Taken
  <2>2. CASE inq = <<>> /\ host.left = 0
    <3>1. inq' = <<[from |-> job'.from, len |-> 1]>>
      BY <1>4, <1>5, <1>6, <2>2
    <3> QED
      BY <1>1, <1>9, <2>1, <2>2, <3>1 DEF OnItsWay
  <2>3. CASE inq # <<>>
    <3>1. PICK u \in Trb : u.len = host.left /\ u.len > 0 /\ inq = <<u>>
      BY <1>3, <2>3
    <3>2. inq' = <<u, t>> /\ t = [from |-> job'.from, len |-> 1]
      BY <1>4, <1>5, <1>6, <3>1, AppendIs
    <3>3. Loose(host.cmd) /\ host.cmd.dir = "in"
      BY <1>3, <2>3
    <3> QED
      BY <1>1, <1>9, <2>1, <3>1, <3>2, <3>3 DEF OnItsWay
  <2>4. ASSUME NEW u \in Trb, inq = <<u>> PROVE inq # <<>>
    BY <2>4
  <2> QED
    BY <1>3, <2>2, <2>3, <2>4
<1>11. AtStatus'
  BY <1>1, <1>2, <1>3, <1>8, <1>10 DEF AtStatus, Taken
<1> QED
  BY <1>1, <1>7, <1>11, InStepStatus

\* The gadget is done with a command; it may not have waited for its status.
LEMMA StatusOverInStep ==
  ASSUME InStep, StatusOver PROVE InStep'
<1>1. /\ pc = "status" /\ WaitOver /\ pc' = "top" /\ job' = [NoJob EXCEPT !.from = job.from]
      /\ UNCHANGED <<outq, inq, events, tx, bulkReset, state, lun, queued, ignore, part, host,
                     upsets>>
  BY DEF StatusOver
<1>2. Kinds /\ Untroubled /\ AtStatus
  BY <1>1, InStepParts
<1>3. outq = <<>> /\ ~queued /\ state = "normal" /\ Waited(0) /\ (Idle \/ OnItsWay)
  BY <1>1, <1>2 DEF AtStatus, Busy
<1>4. DOMAIN job' = DOMAIN NoJob /\ job'.from = job.from /\ job'.cur = InBuf /\ job'.short = FALSE
  BY <1>1 DEF NoJob
<1>5. Kinds' /\ Untroubled'
  BY <1>1, <1>2, <1>4 DEF Kinds, Untroubled
<1>6. events \in {<<>>, <<InDone>>, <<InDone, InDone>>}
  BY <1>3 DEF Waited
<1>10. Len(inq) + Len(events) <= 0 + Lag /\ Len(events) \in {0, 1, 2} /\ Lag \in {0, 1}
  BY <1>3, LagIs DEF Waited, Outstanding
<1>7. Listening'
  BY <1>1, <1>3 DEF Listening
<1>8. CASE Idle
  <2>1. Len(inq) = 0
    BY <1>8 DEF Idle
  <2>2. Len(events) \in {0, 1}
    BY <1>10, <2>1
  <2>3. events \in {<<>>, <<InDone>>}
    BY <1>6, <2>2
  <2>4. Idle'
    BY <1>1, <1>8 DEF Idle, Truth, Reached
  <2>5. Ready'
    BY <1>1, <1>7, <2>3, <2>4 DEF Ready
  <2> QED
    BY <1>1, <1>5, <2>5, InStepReady DEF ReadyAt
<1>9. CASE OnItsWay
  <2>1. Len(inq) \in {1, 2}
    BY <1>9 DEF OnItsWay
  <2>2. Len(inq) = 1 /\ Len(events) = 0 /\ Lag = 1
    <3>1. PICK a, b, l \in Nat : a = Len(inq) /\ b = Len(events) /\ l = Lag
      BY <1>10, <2>1
    <3>2. a + b <= l /\ a \in {1, 2} /\ l \in {0, 1}
      BY <1>10, <2>1, <3>1
    <3>3. a = 1 /\ b = 0 /\ l = 1
      BY <3>2
    <3> QED
      BY <3>1, <3>3
  <2>3. events = <<>> /\ Loose(host.cmd)
    BY <1>6, <2>2, LagIs
  <2>4. host.left = 0 /\ inq = <<[from |-> job.from, len |-> 1]>>
    <3>1. ASSUME NEW t \in Trb, inq = <<t, [from |-> job.from, len |-> 1]>> PROVE FALSE
      BY <2>2, <3>1
    <3> QED
      BY <1>9, <3>1 DEF OnItsWay
  <2>5. host.phase = "status" /\ ~Claimed(host.cmd) /\ job.from \in {InBuf, OutBuf}
    BY <1>2, <1>9, <2>3, <2>4 DEF OnItsWay, Phase, Loose, Claimed, Kinds
  <2>6. Late'
    BY <1>1, <2>3, <2>4, <2>5 DEF Late
  <2>7. Ready'
    BY <1>1, <1>7, <2>6 DEF Ready
  <2> QED
    BY <1>1, <1>5, <2>7, InStepReady DEF ReadyAt
<1> QED
  BY <1>3, <1>8, <1>9

-----------------------------------------------------------------------------
(* The host.                                                               *)

\* What an event appends.
LEMMA AppendDone ==
  ASSUME NEW e, events' = Append(events, e), events \in {<<>>, <<InDone>>}
  PROVE  events' \in {<<e>>, <<InDone, e>>} /\ (events = <<>> => events' = <<e>>)
<1>1. CASE events = <<>>
  BY <1>1
<1>2. CASE events = <<InDone>>
  <2>1. events' = <<InDone, e>>
    BY <1>2, AppendIs
  <2> QED
    BY <1>2, <2>1
<1> QED
  BY <1>1, <1>2

\* A step of the host leaves the device alone.
LEMMA HostFrame ==
  ASSUME SendCommand \/ SendData \/ TakeData \/ TakeStatus
  PROVE  UNCHANGED <<tx, bulkReset, pc, res, state, lun, cmd, job, queued, ignore, units,
                     timeouts, part, upsets>>
  BY DEF SendCommand, SendData, TakeData, TakeStatus, device, Zenon

LEMMA HostUntroubled ==
  ASSUME Untroubled, SendCommand \/ SendData \/ TakeData \/ TakeStatus PROVE Untroubled'
  BY HostFrame, UntroubledKept

LEMMA HostKinds ==
  ASSUME Kinds, SendCommand \/ SendData \/ TakeData \/ TakeStatus,
         DOMAIN host' = DOMAIN host, host'.left \in Nat, host'.good \in Nat
  PROVE  Kinds'
  BY HostFrame DEF Kinds

\* A command that is carried out, and a host that waits for its end.
LEMMA TakenPhase ==
  ASSUME Taken
  PROVE  /\ host.phase \in {"status", "in", "out", "none"} /\ host.phase # "idle"
         /\ host.phase = "in" => cmd.dir = "in"
         /\ host.phase = "out" => cmd.dir = "out"
         /\ host.phase = "status" => host.left = 0
         /\ host.phase \in {"in", "out"} => host.left # 0
  BY CommandIs DEF Taken, Phase

\* When nothing is posted or a command is carried out no command is sent.
LEMMA SendCommandInStep ==
  ASSUME InStep, Shape, SendCommand PROVE InStep'
<1>1. host.phase = "idle" /\ outq # <<>> /\ outq' = Tail(outq)
      /\ Completed("out", TRUE, Head(outq) - 1) /\ inq' = inq
  BY DEF SendCommand
<1>2. PICK c \in Commands :
        /\ host' = [host EXCEPT !.cmd = c, !.tag = 1 - @, !.left = c.size, !.good = 0,
                      !.astray = FALSE, !.status = "none", !.residue = 0,
                      !.phase = IF c.size = 0 THEN "status" ELSE c.dir]
        /\ bufs' = [bufs EXCEPT ![OutBuf] = <<"cbw", c, 1 - host.tag>>]
  BY DEF SendCommand, Zenon
<1>3. Kinds /\ Untroubled /\ Untroubled'
  BY InStepParts, HostUntroubled
<1>4. /\ host'.cmd = c /\ host'.left = c.size /\ host'.good = 0
      /\ host'.phase = Phase(c, c.size) /\ DOMAIN host' = DOMAIN host
  BY <1>2, <1>3 DEF Kinds, Phase
<1>5. Kinds'
  BY <1>3, <1>4, CommandIs, HostKinds
<1>6. UNCHANGED <<tx, pc, res, state, queued>>
  BY HostFrame
<1>7. pc \notin Serving
  BY <1>1, InStepParts, TakenPhase
<1>8. pc # "status"
  BY <1>1, InStepParts DEF AtStatus
<1>9. CASE pc \in ReadyAt
  <2>1. Ready
    BY <1>9, InStepParts
  <2>2. ~Late /\ ~Sent
    BY <1>1, CommandIs DEF Late, Sent, Phase
  <2>3. Idle /\ events \in {<<>>, <<InDone>>} /\ Listening
    BY <2>1, <2>2 DEF Ready
  <2>4. queued /\ outq = <<1>> /\ tx.out = [count |-> 1, bytes |-> 1]
    BY <1>1, <2>3 DEF Listening
  <2>5. outq' = <<>> /\ Head(outq) = 1
    BY <1>1, <2>4
  <2>6. events' = Append(events, OutDone)
    <3>1. Head(outq) - 1 = 0
      BY <2>5
    <3>2. Completed("out", TRUE, 0)
      BY <1>1, <3>1
    <3> QED
      BY <3>2 DEF Completed, OutDone
  <2>7. events' \in {<<OutDone>>, <<InDone, OutDone>>}
    BY <2>3, <2>6, AppendDone
  <2>8. bufs'[OutBuf] = <<"cbw", c, 1 - host.tag>>
    <3>1. OutBuf \in Memory
      BY DEF OutBuf, Memory
    <3> QED
      BY <1>2, <3>1 DEF Shape
  <2>9. bufs'[OutBuf][1] = "cbw" /\ bufs'[OutBuf][2] = c
    BY <2>8
  <2>10. Unheard'
    BY <1>4, <1>6, <2>4, <2>7, <2>9 DEF Unheard
  <2>11. Sent'
    BY <1>1, <1>4, <2>3, <2>5 DEF Sent, Idle
  <2>12. Ready'
    BY <1>6, <2>1, <2>4, <2>10, <2>11 DEF Ready
  <2> QED
    BY <1>3, <1>5, <1>6, <1>9, <2>12, InStepReady
<1> QED
  BY <1>7, <1>8, <1>9, InStepParts

\* What the host sends is what the device waits for.
LEMMA SentComes ==
  ASSUME Kinds, Taken, SendData, NEW n \in Nat \ {0}, Whole(n), Coming(n)
  PROVE  /\ Coming(n)' /\ outq' = <<>> /\ DOMAIN host' = DOMAIN host
         /\ host'.left \in Nat /\ host'.good = host.good /\ host'.cmd = host.cmd
         /\ host'.tag = host.tag /\ host'.phase = Phase(cmd, host'.left)
         /\ host.left = job.left + n /\ inq' = inq
         /\ bufs' = [b \in Memory |->
                       IF b - OutBuf \in 0 .. n \div Sector - 1
                       THEN <<"data", (host.cmd.size - host.left) \div Sector + b - OutBuf, host.tag>>
                       ELSE bufs[b]]
<1>1. host.phase = "out" /\ outq # <<>> /\ outq' = Tail(outq) /\ inq' = inq
  BY DEF SendData
<1>2. outq = <<n>> /\ events = <<>> /\ tx.out.count = 1 /\ host.left = job.left + n /\ res = "ok"
  BY <1>1 DEF Coming
<1>3. Head(outq) = n /\ outq' = <<>> /\ ~(n % Sector # 0)
  BY <1>1, <1>2 DEF Whole
<1>4. job.left \in Nat /\ cmd = host.cmd
  BY CommandIs DEF Taken
<1>5. Least(n, host.left) = n
  BY <1>2, <1>4 DEF Least
<1>6. /\ host' = [host EXCEPT !.left = @ - n, !.phase = IF n = host.left THEN "status" ELSE "out"]
      /\ bufs' = [b \in Memory |->
                    IF b - OutBuf \in 0 .. n \div Sector - 1
                    THEN <<"data", (host.cmd.size - host.left) \div Sector + b - OutBuf, host.tag>>
                    ELSE bufs[b]]
      /\ Completed("out", TRUE, n - n)
  BY <1>3, <1>5 DEF SendData
<1>7. /\ host'.left = job.left /\ DOMAIN host' = DOMAIN host /\ host'.good = host.good
      /\ host'.cmd = host.cmd /\ host'.tag = host.tag
      /\ host'.phase = IF n = host.left THEN "status" ELSE "out"
  <2>1. host.left - n = job.left
    BY <1>2, <1>4
  <2> QED
    BY <1>6, <2>1 DEF Kinds
<1>8. n = host.left <=> job.left = 0
  BY <1>2, <1>4
<1>9. cmd.dir = "out"
  BY <1>1, TakenPhase
<1>10. host'.phase = Phase(cmd, host'.left)
  BY <1>7, <1>8, <1>9 DEF Phase
<1>11. events' = <<OutDone>>
  <2>1. n - n = 0
    OBVIOUS
  <2>2. events' = Append(events, OutDone)
    BY <1>6, <2>1 DEF Completed, OutDone
  <2> QED
    BY <1>2, <2>2
<1>12. UNCHANGED <<tx, res, job>>
  BY HostFrame
<1>13. Coming(n)'
  BY <1>2, <1>3, <1>7, <1>11, <1>12 DEF Coming
<1> QED
  BY <1>1, <1>2, <1>3, <1>4, <1>6, <1>7, <1>10, <1>13

LEMMA SendDataInStep ==
  ASSUME InStep, SendData PROVE InStep'
<1>1. host.phase = "out" /\ outq # <<>>
  BY DEF SendData
<1>2. Kinds /\ Untroubled /\ Untroubled'
  BY InStepParts, HostUntroubled
<1>3. UNCHANGED <<tx, bulkReset, pc, res, state, lun, cmd, job, queued, ignore, units, part, upsets>>
  BY HostFrame
<1>4. pc \notin ReadyAt
  <2>1. ~(Idle \/ Late \/ Sent)
    BY <1>1 DEF Idle, Late, Sent
  <2> QED
    BY <2>1, InStepParts DEF Ready
<1>5. pc # "status"
  BY <1>1, InStepParts DEF AtStatus
<1>6. CASE pc \in Serving
  <2>1. Taken
    BY <1>6, InStepParts
  <2>2. cmd.dir = "out" /\ Outs /\ cmd = host.cmd /\ cmd \in Commands
    BY <1>1, <1>6, <2>1, TakenPhase, AtOuts DEF Taken
  <2>3. ~Still
    BY <1>1 DEF Still
  <2>4. pc \in {"fill", "discard", "overrun"}
    BY <2>2, <2>3 DEF Outs, AtWrite
  <2>5. PICK n \in Nat \ {0} : /\ Whole(n) /\ Coming(n)
                               /\ (pc = "fill" => n = job.posted)
                               /\ (pc # "fill" => n \in 1 .. EpMax)
    <3>1. CASE pc = "fill"
      <4>1. job.posted \in Nat \ {0} /\ Whole(job.posted) /\ Coming(job.posted)
        BY <2>2, <3>1 DEF Outs, AtFill, Buffer, Sector
      <4> QED
        BY <3>1, <4>1
    <3>2. CASE pc # "fill"
      <4>1. PICK m \in 1 .. EpMax : Whole(m) /\ Coming(m)
        BY <2>2, <2>4, <3>2 DEF Outs, Throwing
      <4>2. m \in Nat \ {0}
        BY DEF EpMax, Buffer, Sector
      <4> QED
        BY <3>2, <4>1, <4>2
    <3> QED
      BY <3>1, <3>2
  <2>6. /\ Coming(n)' /\ outq' = <<>> /\ DOMAIN host' = DOMAIN host
        /\ host'.left \in Nat /\ host'.good = host.good /\ host'.cmd = host.cmd
        /\ host'.tag = host.tag /\ host'.phase = Phase(cmd, host'.left)
        /\ host.left = job.left + n /\ inq' = inq
        /\ bufs' = [b \in Memory |->
                      IF b - OutBuf \in 0 .. n \div Sector - 1
                      THEN <<"data", (host.cmd.size - host.left) \div Sector + b - OutBuf, host.tag>>
                      ELSE bufs[b]]
    BY <1>2, <2>1, <2>5, SentComes
  <2>7. Kinds'
    BY <1>2, <2>6, HostKinds DEF Kinds
  <2>8. Taken'
    BY <1>3, <2>1, <2>6 DEF Taken
  <2>9. Good(cmd.size - job.residue)' /\ Settled' = Settled
    BY <1>3, <2>2, <2>6 DEF Outs, Good, Reached, Settled
  <2>10. CASE pc = "fill"
    <3>1. AtFill /\ n = job.posted /\ n \in 1 .. 4
      BY <2>2, <2>5, <2>10 DEF Outs, AtFill, Buffer, Sector
    <3>2. Writing' /\ Stored' = Stored /\ Asked' = Asked
      BY <1>3, <3>1 DEF AtFill, Writing, Halfway, Stored, Asked
    <3>3. host.cmd.size - host.left = Stored
      <4>1. PICK s \in Nat : s = Stored
        BY <2>2, <3>1, HalfwayIs DEF AtFill, Writing, Moving
      <4>2. PICK l \in Nat : l = job.left
        BY <2>1, <2>2, CommandIs DEF Taken
      <4>3. PICK z \in Nat : z = cmd.size
        BY <2>2, CommandIs
      <4>4. s = (z - l) - n
        BY <3>1, <4>1, <4>2, <4>3 DEF AtFill, Asked
      <4>5. z - (l + n) = s
        BY <4>4
      <4> QED
        BY <2>2, <2>6, <4>1, <4>2, <4>3, <4>5
    <3>4. Arrived'
      <4>1. ASSUME NEW i \in 0 .. n \div Sector - 1
            PROVE  bufs'[OutBuf + i] = <<"data", Stored \div Sector + i, host.tag>>
        <5>1. PICK b \in Memory : b = OutBuf + i /\ b - OutBuf = i /\ i \in Int
          BY <3>1 DEF Sector, OutBuf, Memory
        <5>2. bufs'[b] = <<"data", Stored \div Sector + b - OutBuf, host.tag>>
          BY <2>6, <3>3, <5>1
        <5>3. PICK q \in Int : q = Stored \div Sector
          BY <2>2, <3>1, HalfwayIs DEF AtFill, Writing, Moving, Sector
        <5>4. q + b - OutBuf = q + i
          BY <5>1, <5>3 DEF OutBuf
        <5> QED
          BY <5>1, <5>2, <5>3, <5>4
      <4> QED
        BY <1>3, <2>6, <3>1, <3>2, <4>1 DEF Arrived
    <3>5. Coming(job.posted)'
      BY <1>3, <2>6, <3>1
    <3>6. AtFill'
      BY <1>3, <3>1, <3>2, <3>4, <3>5 DEF AtFill
    <3>7. Outs'
      BY <1>3, <2>2, <2>6, <2>9, <2>10, <3>6 DEF Outs
    <3> QED
      BY <1>2, <1>3, <1>6, <2>2, <2>7, <2>8, <3>7, InStepOuts
  <2>11. CASE pc # "fill"
    <3>1. Throwing'
      BY <2>5, <2>6, <2>11 DEF Throwing
    <3>2. Outs'
      BY <1>3, <2>2, <2>4, <2>6, <2>9, <2>11, <3>1 DEF Outs
    <3> QED
      BY <1>2, <1>3, <1>6, <2>2, <2>7, <2>8, <3>2, InStepOuts
  <2> QED
    BY <2>10, <2>11
<1> QED
  BY <1>4, <1>5, <1>6, InStepParts

\* A command that moves data to the host has some due.
LEMMA InsDue ==
  ASSUME Ins, Taken
  PROVE  \E r \in Nat : Due(r)
<1>1. pc \in {"read", "sent"} => Due(job.residue)
  BY DEF Ins, AtSent, Reading
<1>2. pc = "finish" => Due(job.residue + job.len) /\ job.residue + job.len \in Nat
  BY CommandIs DEF Ins, AtFinish, Taken
<1>3. pc \in {"pad", "reply", "overrun"} => Due(job.left)
  BY DEF Ins, AtPad, AtReply
<1>4. pc = "replied" => Due(0)
  BY DEF Ins, AtReplied
<1>5. job.residue \in Nat /\ job.left \in Nat
  BY CommandIs DEF Taken
<1> QED
  BY <1>1, <1>2, <1>3, <1>4, <1>5 DEF Ins

LEMMA DueLeft ==
  ASSUME NEW r \in Nat, Due(r), inq # <<>> PROVE host.left # 0
<1>1. CASE \E t \in Trb : inq = <<t>> /\ t.len > 0 /\ host.left = t.len + r
  <2>1. PICK t \in Trb : t.len > 0 /\ host.left = t.len + r
    BY <1>1
  <2> QED
    BY <2>1 DEF Trb
<1>2. CASE \E t, u \in Trb : t.len > 0 /\ u.len > 0 /\ host.left = t.len + u.len + r
  <2>1. PICK t, u \in Trb : t.len > 0 /\ u.len > 0 /\ host.left = t.len + u.len + r
    BY <1>2
  <2> QED
    BY <2>1 DEF Trb
<1> QED
  BY <1>1, <1>2 DEF Due

\* The host takes what it recognises, or gives up.
LEMMA TakeStatusInStep ==
  ASSUME InStep, TakeStatus PROVE host'.phase = "lost" \/ InStep'
<1> SUFFICES ASSUME host'.phase # "lost" PROVE InStep'
  OBVIOUS
<1>1. /\ host.phase = "status" /\ inq # <<>> /\ inq' = Tail(inq) /\ Completed("in", TRUE, 0)
      /\ UNCHANGED <<outq, bufs>>
  BY DEF TakeStatus
<1>2. PICK b : b = bufs[Head(inq).from]
  OBVIOUS
<1>3. /\ Kinds /\ Untroubled /\ Untroubled'
  BY InStepParts, HostUntroubled
<1>4. b[1] = "csw" /\ b[2] = host.tag
      /\ host' = [host EXCEPT !.phase = "idle", !.status = b[3], !.residue = b[4]]
  <2>1. CASE Head(inq).len = 1 /\ b[1] = "csw" /\ b[2] = host.tag
    BY <1>2, <2>1 DEF TakeStatus
  <2>2. CASE ~(Head(inq).len = 1 /\ b[1] = "csw" /\ b[2] = host.tag)
    <3>1. host' = [host EXCEPT !.phase = "lost"]
      BY <1>2, <2>2 DEF TakeStatus
    <3> QED
      BY <1>3, <3>1 DEF Kinds
  <2> QED
    BY <2>1, <2>2
<1>5. /\ host'.phase = "idle" /\ host'.status = b[3] /\ host'.residue = b[4]
      /\ UNCHANGED <<host.cmd, host.left, host.good>> /\ DOMAIN host' = DOMAIN host
  BY <1>3, <1>4 DEF Kinds
<1>6. Kinds'
  BY <1>3, <1>5, HostKinds DEF Kinds
<1>7. UNCHANGED <<tx, pc, res, state, job, queued, part, upsets>>
  BY HostFrame
<1>8. events' = Append(events, InDone)
  BY <1>1 DEF Completed, InDone
<1>9. ASSUME NEW f, inq = <<[from |-> f, len |-> 1]>>, Truth(bufs[f][3], bufs[f][4])
      PROVE  Idle'
  <2>1. Head(inq) = [from |-> f, len |-> 1] /\ inq' = <<>>
    BY <1>1, <1>9
  <2>2. b = bufs[f]
    BY <1>2, <2>1
  <2>3. Truth(host.status, host.residue)'
    BY <1>5, <1>7, <1>9, <2>2 DEF Truth, Claimed, Reached
  <2> QED
    BY <1>5, <2>1, <2>3 DEF Idle
<1>10. pc \notin Serving
  <2> SUFFICES ASSUME pc \in Serving PROVE FALSE
    OBVIOUS
  <2>1. Taken /\ host.left = 0
    BY <1>1, InStepParts, TakenPhase
  <2>2. cmd.dir = "in" /\ Ins
    BY <1>1, InStepParts DEF Outs
  <2> QED
    BY <1>1, <2>1, <2>2, InsDue, DueLeft
<1>11. CASE pc \in ReadyAt
  <2>1. Late /\ Listening /\ Ready
    BY <1>1, <1>11, InStepParts DEF Ready, Idle, Sent
  <2>2. PICK f \in {InBuf, OutBuf} : inq = <<[from |-> f, len |-> 1]>>
    BY <2>1 DEF Late
  <2>3. Idle'
    BY <1>9, <2>1, <2>2 DEF Late, Truth
  <2>4. events' = <<InDone>>
    BY <1>8, <2>1 DEF Late
  <2>5. Listening'
    BY <1>1, <1>7, <2>1 DEF Listening
  <2>6. Ready'
    BY <1>7, <2>1, <2>3, <2>4, <2>5 DEF Ready
  <2> QED
    BY <1>3, <1>6, <1>7, <1>11, <2>6, InStepReady
<1>12. CASE pc = "status"
  <2>1. AtStatus
    BY <1>12, InStepParts
  <2>2. OnItsWay
    BY <1>1, <2>1 DEF AtStatus, Idle
  <2>3. host.left = 0
    <3>1. CASE host.left # 0
      <4>1. host.phase = "in"
        BY <2>2, <3>1 DEF OnItsWay, Phase
      <4> QED
        BY <1>1, <4>1
    <3> QED
      BY <3>1
  <2>4. inq = <<[from |-> job.from, len |-> 1]>>
    <3>1. ASSUME NEW t \in Trb, t.len = host.left, t.len > 0 PROVE FALSE
      BY <2>3, <3>1
    <3> QED
      BY <2>2, <3>1 DEF OnItsWay
  <2>5. Idle'
    BY <1>9, <2>2, <2>4 DEF OnItsWay
  <2>6. Waited(Busy)'
    <3>1. PICK l \in {0, 1} : l = Lag /\ l = Lag'
      BY <1>5 DEF Lag
    <3>2. PICK w \in {0, 1} : w = Busy /\ w = Busy'
      BY <1>7 DEF Busy, WaitOver
    <3>3. events \in {<<>>, <<InDone>>, <<InDone, InDone>>} /\ 1 + Len(events) <= w + l
      BY <2>1, <2>4, <3>1, <3>2 DEF AtStatus, Waited, Outstanding
    <3>4. events \in {<<>>, <<InDone>>}
      BY <3>3
    <3>5. events' \in {<<InDone>>, <<InDone, InDone>>} /\ (events = <<>> => events' = <<InDone>>)
      BY <1>8, <3>4, AppendDone
    <3>6. Len(events') = 1 + Len(events)
      <4>1. CASE events = <<>>
        BY <3>5, <4>1
      <4>2. CASE events = <<InDone>>
        <5>1. events' = <<InDone, InDone>>
          BY <1>8, <4>2, AppendIs
        <5> QED
          BY <4>2, <5>1
      <4> QED
        BY <3>4, <4>1, <4>2
    <3>7. Len(inq') = 0
      BY <2>5 DEF Idle
    <3>8. Outstanding' <= w + l
      BY <3>3, <3>4, <3>6, <3>7 DEF Outstanding
    <3> QED
      BY <3>1, <3>2, <3>5, <3>8 DEF Waited
  <2>7. AtStatus'
    BY <1>1, <1>7, <2>1, <2>5, <2>6 DEF AtStatus
  <2> QED
    BY <1>3, <1>6, <1>7, <1>12, <2>7, InStepStatus
<1> QED
  BY <1>10, <1>11, <1>12, InStepParts

\* One more event of a transfer to the host.
LEMMA OneMoreDone ==
  ASSUME events' = Append(events, InDone), events \in {<<>>, <<InDone>>}
  PROVE  /\ events' \in {<<InDone>>, <<InDone, InDone>>} /\ Len(events') = Len(events) + 1
         /\ (events = <<>> => events' = <<InDone>>)
<1>1. events' \in {<<InDone>>, <<InDone, InDone>>} /\ (events = <<>> => events' = <<InDone>>)
  BY AppendDone
<1>2. CASE events = <<>>
  BY <1>1, <1>2
<1>3. CASE events = <<InDone>>
  <2>1. events' = <<InDone, InDone>>
    BY <1>3, AppendIs
  <2>2. Len(events') = 2 /\ Len(events) = 1
    BY <1>3, <2>1
  <2>3. events # <<>>
    BY <1>3
  <2> QED
    BY <2>1, <2>2, <2>3
<1> QED
  BY <1>1, <1>2, <1>3

\* What the host takes was posted, and is reported: as much is outstanding.
LEMMA WaitedTaken ==
  ASSUME NEW n \in {0, 1}, Waited(n), Len(inq) \in {1, 2}, Len(inq') = Len(inq) - 1,
         host'.cmd = host.cmd, events' = Append(events, InDone)
  PROVE  Waited(n)' /\ Outstanding' = Outstanding
<1>1. PICK l \in {0, 1} : l = Lag /\ l = Lag'
  BY DEF Lag
<1>2. events \in {<<>>, <<InDone>>, <<InDone, InDone>>} /\ Len(inq) + Len(events) <= n + l
  BY <1>1 DEF Waited, Outstanding
<1>3. events \in {<<>>, <<InDone>>}
  <2>1. ASSUME events = <<InDone, InDone>> PROVE FALSE
    <3>1. Len(events) = 2
      BY <2>1
    <3> QED
      BY <1>2, <3>1
  <2> QED
    BY <1>2, <2>1
<1>4. events' \in {<<InDone>>, <<InDone, InDone>>} /\ Len(events') = Len(events) + 1
  BY <1>3, OneMoreDone
<1>5. Len(events) \in Nat
  BY <1>3
<1>6. Len(inq') + Len(events') = Len(inq) + Len(events)
  BY <1>4, <1>5
<1>7. Outstanding' = Outstanding
  BY <1>6 DEF Outstanding
<1>8. Outstanding' <= n + l
  BY <1>2, <1>7 DEF Outstanding
<1> QED
  BY <1>1, <1>4, <1>7, <1>8 DEF Waited

LEMMA RightFinite ==
  ASSUME NEW t \in Trb, NEW done
  PROVE  Cardinality(Right(t, done)) \in Nat
<1>1. PICK h \in Nat : h = t.len \div Sector
  BY DEF Trb, Sector
<1>2. Right(t, done) \subseteq 0 .. h - 1
  BY <1>1 DEF Right
<1>3. IsFiniteSet(0 .. h - 1)
  BY FS_Interval
<1> QED
  <2>1. PICK A, B : A = Right(t, done) /\ B = 0 .. h - 1
    OBVIOUS
  <2>2. IsFiniteSet(A)
    BY <1>2, <1>3, <2>1, FS_Subset
  <2> QED
    BY <2>1, <2>2, FS_CardinalityType

LEMMA RightCount ==
  ASSUME NEW r \in Nat PROVE Cardinality(0 .. r - 1) = r
  BY FS_Interval

\* What the host takes from a transfer that is due.
LEMMA DueTaken ==
  ASSUME Kinds, Taken, TakeData, NEW r \in Nat, Due(r)
  PROVE  /\ cmd.dir = "in" /\ inq' = Tail(inq) /\ events' = Append(events, InDone)
         /\ Len(inq) \in {1, 2} /\ Len(inq') = Len(inq) - 1
         /\ DOMAIN host' = DOMAIN host /\ host'.cmd = host.cmd /\ host'.good \in Nat
         /\ host'.left \in Nat /\ host'.phase = Phase(cmd, host'.left) /\ Due(r)'
         /\ Loose(host.cmd) \/ inq' = <<>>
         /\ \E t \in Trb :
              /\ t = Head(inq) /\ t.len > 0 /\ host.left = host'.left + t.len
              /\ (Whole(t.len) \/ r = 0) /\ (inq' = <<>> => inq = <<t>>)
              /\ host'.good = host.good + Cardinality(Right(t, Moved))
<1>1. /\ host.phase = "in" /\ inq # <<>> /\ inq' = Tail(inq) /\ Completed("in", TRUE, 0)
      /\ UNCHANGED <<outq, bufs>>
  BY DEF TakeData
<1>2. cmd.dir = "in" /\ cmd = host.cmd
  BY <1>1, TakenPhase DEF Taken
<1>3. events' = Append(events, InDone)
  BY <1>1 DEF Completed, InDone
<1>4. ASSUME NEW t \in Trb, t = Head(inq), t.len > 0, NEW l \in Nat, host.left = t.len + l,
             Whole(t.len) \/ l = 0
      PROVE  /\ DOMAIN host' = DOMAIN host /\ host'.cmd = host.cmd /\ host'.good \in Nat
             /\ host'.left = l /\ host'.phase = Phase(cmd, host'.left)
             /\ host'.good = host.good + Cardinality(Right(t, Moved))
  <2>1. t.len \in Nat
    BY DEF Trb
  <2>2. ~(t.len > host.left) /\ host.left - t.len = l
    BY <1>4, <2>1
  <2>3. (t.len = host.left \/ t.len % Sector # 0 \/ t.len = 0) <=> l = 0
    BY <1>4, <2>1 DEF Whole
  <2>4. host' = [host EXCEPT
                   !.left = @ - t.len,
                   !.phase = IF t.len = host.left \/ t.len % Sector # 0 \/ t.len = 0
                             THEN "status" ELSE "in",
                   !.good = @ + Cardinality(Right(t, host.cmd.size - host.left))]
    BY <1>4, <2>2 DEF TakeData
  <2>5. /\ DOMAIN host' = DOMAIN host /\ host'.cmd = host.cmd /\ host'.left = l
        /\ host'.good = host.good + Cardinality(Right(t, Moved))
        /\ host'.phase = IF l = 0 THEN "status" ELSE "in"
    BY <2>2, <2>3, <2>4 DEF Kinds, Moved
  <2>6. host'.good \in Nat
    BY <2>5, RightFinite DEF Kinds
  <2> QED
    BY <1>2, <2>5, <2>6 DEF Phase
<1>5. CASE \E t \in Trb : /\ inq = <<t>> /\ t.len > 0 /\ host.left = t.len + r
                          /\ (Whole(t.len) \/ r = 0)
  <2>1. PICK t \in Trb : /\ inq = <<t>> /\ t.len > 0 /\ host.left = t.len + r
                         /\ (Whole(t.len) \/ r = 0)
    BY <1>5
  <2>2. Head(inq) = t /\ inq' = <<>> /\ Len(inq) = 1 /\ Len(inq') = 0
    BY <1>1, <2>1
  <2>3. /\ DOMAIN host' = DOMAIN host /\ host'.cmd = host.cmd /\ host'.good \in Nat
        /\ host'.left = r /\ host'.phase = Phase(cmd, host'.left)
        /\ host'.good = host.good + Cardinality(Right(t, Moved))
    BY <1>4, <2>1, <2>2
  <2>4. Due(r)'
    BY <2>2, <2>3 DEF Due
  <2>5. host.left = host'.left + t.len
    BY <2>1, <2>3 DEF Trb
  <2> QED
    BY <1>1, <1>2, <1>3, <2>1, <2>2, <2>3, <2>4, <2>5
<1>6. CASE \E t, u \in Trb : /\ Loose(host.cmd) /\ inq = <<t, u>> /\ t.len > 0 /\ u.len > 0
                             /\ host.left = t.len + u.len + r /\ Whole(t.len) /\ Whole(u.len)
  <2>1. PICK t, u \in Trb : /\ Loose(host.cmd) /\ inq = <<t, u>> /\ t.len > 0 /\ u.len > 0
                            /\ host.left = t.len + u.len + r /\ Whole(t.len) /\ Whole(u.len)
    BY <1>6
  <2>2. Head(inq) = t /\ inq' = <<u>> /\ Len(inq) = 2 /\ Len(inq') = 1
    BY <1>1, <2>1
  <2>3. PICK l \in Nat : l = u.len + r /\ host.left = t.len + l
    BY <2>1 DEF Trb
  <2>4. /\ DOMAIN host' = DOMAIN host /\ host'.cmd = host.cmd /\ host'.good \in Nat
        /\ host'.left = l /\ host'.phase = Phase(cmd, host'.left)
        /\ host'.good = host.good + Cardinality(Right(t, Moved))
    BY <1>4, <2>1, <2>2, <2>3
  <2>5. Due(r)'
    BY <2>1, <2>2, <2>3, <2>4 DEF Due
  <2>6. host.left = host'.left + t.len
    BY <2>3, <2>4 DEF Trb
  <2>7. inq' # <<>>
    BY <2>2
  <2> QED
    BY <1>1, <1>2, <1>3, <2>1, <2>2, <2>4, <2>5, <2>6, <2>7
<1> QED
  BY <1>1, <1>5, <1>6 DEF Due

\* The host takes data, which counts where it is what was asked for.
LEMMA TakeDataInStep ==
  ASSUME InStep, TakeData PROVE InStep'
<1>1. host.phase = "in" /\ inq # <<>> /\ UNCHANGED <<outq, bufs>>
  BY DEF TakeData
<1>2. Kinds /\ Untroubled /\ Untroubled'
  BY InStepParts, HostUntroubled
<1>3. UNCHANGED <<tx, bulkReset, pc, res, state, lun, cmd, job, queued, ignore, units, part, upsets>>
  BY HostFrame
<1>4. pc \notin ReadyAt
  <2>1. ~(Idle \/ Late \/ Sent)
    BY <1>1 DEF Idle, Late, Sent
  <2> QED
    BY <2>1, InStepParts DEF Ready
<1>5. CASE pc = "status"
  <2>1. AtStatus /\ OnItsWay
    BY <1>1, <1>5, InStepParts DEF AtStatus, Idle
  <2>2. host.left # 0
    BY <1>1, <2>1 DEF OnItsWay, Phase
  <2>3. PICK t \in Trb : /\ Loose(host.cmd) /\ host.cmd.dir = "in" /\ t.len = host.left /\ t.len > 0
                         /\ inq = <<t, [from |-> job.from, len |-> 1]>>
    BY <2>1, <2>2 DEF OnItsWay
  <2>4. Head(inq) = t /\ inq' = <<[from |-> job.from, len |-> 1]>>
    BY <2>3 DEF TakeData
  <2>5. t.len \in Nat /\ ~(t.len > host.left) /\ host.left - t.len = 0
    BY <2>3 DEF Trb
  <2>6. host' = [host EXCEPT
                   !.left = @ - t.len,
                   !.phase = IF t.len = host.left \/ t.len % Sector # 0 \/ t.len = 0
                             THEN "status" ELSE "in",
                   !.good = @ + Cardinality(Right(t, host.cmd.size - host.left))]
    BY <2>4, <2>5 DEF TakeData
  <2>7. /\ DOMAIN host' = DOMAIN host /\ host'.cmd = host.cmd /\ host'.left = 0
        /\ host'.phase = "status" /\ host'.good \in Nat
    <3>1. /\ DOMAIN host' = DOMAIN host /\ host'.cmd = host.cmd /\ host'.left = 0
          /\ host'.phase = "status"
          /\ host'.good = host.good + Cardinality(Right(t, host.cmd.size - host.left))
      BY <1>2, <2>3, <2>5, <2>6 DEF Kinds
    <3> QED
      BY <1>2, <3>1, RightFinite DEF Kinds
  <2>8. Kinds'
    BY <1>2, <2>7, HostKinds
  <2>9. OnItsWay'
    <3>1. Truth(bufs[job.from][3], bufs[job.from][4])'
      BY <2>3, <2>7 DEF Truth, Claimed, Loose
    <3> QED
      BY <1>3, <2>4, <2>7, <3>1 DEF OnItsWay, Phase
  <2>10. Waited(Busy)'
    <3>1. PICK w \in {0, 1} : w = Busy /\ w = Busy'
      BY <1>3 DEF Busy, WaitOver
    <3>2. Len(inq) = 2 /\ Len(inq') = 1
      BY <2>3, <2>4
    <3>3. events' = Append(events, InDone)
      BY DEF TakeData, Completed, InDone
    <3>4. Waited(w)
      BY <2>1, <3>1 DEF AtStatus
    <3>5. Waited(w)'
      BY <2>7, <3>2, <3>3, <3>4, WaitedTaken
    <3> QED
      BY <3>1, <3>5 DEF Waited
  <2>11. AtStatus'
    BY <1>1, <1>3, <2>1, <2>9, <2>10 DEF AtStatus
  <2> QED
    BY <1>2, <1>3, <1>5, <2>8, <2>11, InStepStatus
<1>6. CASE pc \in Serving
  <2>1. Taken /\ cmd.dir = "in" /\ Ins /\ cmd = host.cmd /\ cmd \in Commands
    <3>1. Taken
      BY <1>6, InStepParts
    <3> QED
      BY <1>1, <1>6, <3>1, TakenPhase, AtIns DEF Taken
  <2>2. /\ cmd.size \in Nat /\ job.residue \in Nat /\ job.left \in Nat
        /\ host.left \in Nat /\ host.good \in Nat
    BY <1>2, <2>1, CommandIs DEF Taken, Kinds
  <2>3. ASSUME NEW r \in Nat, Due(r)
        PROVE  Kinds' /\ Taken'
    <3>1. /\ DOMAIN host' = DOMAIN host /\ host'.cmd = host.cmd /\ host'.good \in Nat
          /\ host'.left \in Nat /\ host'.phase = Phase(cmd, host'.left)
      BY <1>2, <2>1, <2>3, DueTaken
    <3> QED
      BY <1>2, <1>3, <2>1, <3>1, HostKinds DEF Taken
  <2>4. Kinds' /\ Taken' /\ cmd'.dir = "in" /\ cmd'.op = cmd.op
    BY <1>3, <2>1, <2>3, InsDue
  <2>5. host'.cmd = host.cmd
    BY <2>1, <2>4, <1>3 DEF Taken
  <2>6. Reached' = Reached
    BY <1>3, <2>5 DEF Reached
  <2>7. ASSUME NEW r \in Nat, Due(r), Waited(0)
        PROVE  Due(r)' /\ Waited(0)' /\ ~Claimed(host.cmd)
    <3>1. ~Claimed(host.cmd)
      BY <1>1, <2>7, NoneDue
    <3>2. /\ Due(r)' /\ Len(inq) \in {1, 2} /\ Len(inq') = Len(inq) - 1
          /\ events' = Append(events, InDone)
      BY <1>2, <2>1, <2>7, DueTaken
    <3>3. PICK n \in {0, 1} : n = 0
      OBVIOUS
    <3> QED
      BY <2>5, <2>7, <3>1, <3>2, <3>3, WaitedTaken
  <2>8. CASE pc = "finish"
    <3>1. AtFinish /\ job.residue + job.len \in Nat
      BY <2>1, <2>2, <2>8 DEF Ins, AtFinish
    <3>2. Due(job.residue + job.len)' /\ Waited(0)' /\ ~Claimed(host'.cmd)
      <4>1. PICK r \in Nat : r = job.residue + job.len /\ Due(r) /\ Waited(0)
        BY <3>1 DEF AtFinish
      <4>2. Due(r)' /\ Waited(0)' /\ ~Claimed(host'.cmd)
        BY <2>5, <2>7, <4>1
      <4> QED
        BY <1>3, <4>1, <4>2 DEF Due
    <3>3. AtFinish'
      BY <1>3, <3>1, <3>2 DEF AtFinish, Left, Correct, Settled, Good
    <3> QED
      BY <1>1, <1>2, <1>3, <1>6, <2>1, <2>4, <2>8, <3>3, InStepIns DEF Ins
  <2>9. CASE pc = "pad"
    <3>1. AtPad
      BY <2>1, <2>9 DEF Ins
    <3>2. Due(job.left)' /\ Waited(0)' /\ ~Claimed(host'.cmd)
      <4>1. PICK r \in Nat : r = job.left /\ Due(r) /\ Waited(0)
        BY <2>2, <3>1 DEF AtPad
      <4>2. Due(r)' /\ Waited(0)' /\ ~Claimed(host'.cmd)
        BY <2>5, <2>7, <4>1
      <4> QED
        BY <1>3, <4>1, <4>2 DEF Due
    <3>3. AtPad'
      BY <1>3, <3>1, <3>2 DEF AtPad, Left, Correct, Settled, Good
    <3> QED
      BY <1>1, <1>2, <1>3, <1>6, <2>1, <2>4, <2>9, <3>3, InStepIns DEF Ins
  <2>10. CASE pc = "replied"
    <3>1. AtReplied
      BY <2>1, <2>10 DEF Ins
    <3>2. Due(0)' /\ Waited(0)' /\ ~Claimed(host'.cmd)
      BY <2>5, <2>7, <3>1 DEF AtReplied
    <3>3. AtReplied'
      BY <1>3, <3>1, <3>2 DEF AtReplied, Settled, Good
    <3> QED
      BY <1>1, <1>2, <1>3, <1>6, <2>1, <2>4, <2>10, <3>3, InStepIns DEF Ins
  <2>11. CASE pc = "overrun"
    <3>1. Waited(1) /\ Due(job.left)
      BY <2>1, <2>11 DEF Ins
    <3>2. Due(job.left)' /\ Waited(1)'
      <4>1. PICK r \in Nat : r = job.left /\ Due(r)
        BY <2>2, <3>1
      <4>2. /\ Due(r)' /\ Len(inq) \in {1, 2} /\ Len(inq') = Len(inq) - 1
            /\ events' = Append(events, InDone)
        BY <1>2, <2>1, <4>1, DueTaken
      <4>3. PICK n \in {0, 1} : n = 1
        OBVIOUS
      <4>4. Waited(1)'
        BY <2>5, <3>1, <4>2, <4>3, WaitedTaken
      <4> QED
        BY <1>3, <4>1, <4>2, <4>4 DEF Due
    <3> QED
      BY <1>1, <1>2, <1>3, <1>6, <2>1, <2>4, <2>11, <3>2, InStepIns DEF Ins
  <2>12. CASE pc = "reply"
    <3>1. AtReply
      BY <2>1, <2>12 DEF Ins
    <3>2. PICK l \in Nat : l = job.left /\ Due(l)
      BY <2>2, <3>1 DEF AtReply
    <3>3. /\ inq' = Tail(inq) /\ Due(l)' /\ Len(inq) \in {1, 2} /\ Len(inq') = Len(inq) - 1
          /\ events' = Append(events, InDone)
          /\ Loose(host.cmd) \/ inq' = <<>>
      BY <1>2, <2>1, <3>2, DueTaken
    <3>4. PICK t \in Trb :
            /\ (inq' = <<>> => inq = <<t>>)
            /\ host'.good = host.good + Cardinality(Right(t, Moved))
      BY <1>2, <2>1, <3>2, DueTaken
    <3>5. Waited(Busy)'
      <4>1. PICK w \in {0, 1} : w = Busy /\ w = Busy'
        BY <1>3 DEF Busy, WaitOver
      <4>2. Waited(w)
        BY <3>1, <4>1 DEF AtReply
      <4>3. Waited(w)'
        BY <2>5, <3>3, <4>2, WaitedTaken
      <4> QED
        BY <4>1, <4>3 DEF Waited
    <3>6. ASSUME inq' = <<>> PROVE Good(cmd.size - job.residue)'
      <4> SUFFICES ASSUME Claimed(cmd), Reached
                   PROVE  host'.good * Sector = cmd.size - job.residue
        BY <1>3, <2>1, <2>5, <2>6 DEF Good
      <4>1. inq = <<t>>
        BY <3>4, <3>6
      <4>2. PICK r \in 0 .. 2 : /\ Right(t, Moved) = 0 .. r - 1
                                /\ (host.good + r) * Sector = cmd.size - job.residue
        BY <3>1, <4>1 DEF AtReply
      <4>3. Cardinality(Right(t, Moved)) = r
        BY <4>2, RightCount
      <4> QED
        BY <3>4, <4>2, <4>3
    <3>7. ASSUME NEW v \in Trb, inq' = <<v>> PROVE ~Claimed(cmd)
      <4>1. inq' # <<>>
        BY <3>7
      <4>2. Loose(cmd)
        BY <2>1, <3>3, <4>1
      <4> QED
        BY <4>2 DEF Loose, Claimed
    <3>8. AtReply'
      <4>1. Due(job.left)'
        BY <1>3, <3>2, <3>3 DEF Due
      <4>2. Settled'
        BY <1>3, <3>1 DEF AtReply, Settled
      <4>3. 0 \in 0 .. 2 /\ (job'.left > 0 => job'.len = 0)
        BY <1>3, <3>1 DEF AtReply
      <4> QED
        BY <1>3, <3>5, <3>6, <3>7, <4>1, <4>2, <4>3 DEF AtReply
    <3> QED
      BY <1>1, <1>2, <1>3, <1>6, <2>1, <2>4, <2>12, <3>8, InStepIns DEF Ins
  <2>13. CASE pc \in {"read", "sent"}
    <3>1. Reading /\ (pc = "sent" => AtSent)
      BY <2>1, <2>13 DEF Ins, AtSent
    <3>2. PICK l \in Nat \ {0} : l = job.residue /\ Due(l)
      BY <2>1, <3>1, HalfwayIs DEF Reading, Moving
    <3>3. /\ inq' = Tail(inq) /\ Due(l)' /\ Len(inq) \in {1, 2} /\ Len(inq') = Len(inq) - 1
          /\ events' = Append(events, InDone)
      BY <1>2, <2>1, <3>2, DueTaken
    <3>4. Len(inq) = 1 /\ events = <<>> /\ Outstanding = 1
      <4>1. events \in {<<>>, <<InDone>>} /\ Len(inq) + Len(events) <= 1
        BY <3>1 DEF Reading, Outstanding
      <4>2. events = <<>>
        <5>1. ASSUME events = <<InDone>> PROVE FALSE
          <6>1. Len(events) = 1
            BY <5>1
          <6> QED
            BY <3>3, <4>1, <6>1
        <5> QED
          BY <4>1, <5>1
      <4>3. Len(events) = 0
        BY <4>2
      <4>4. Len(inq) = 1
        BY <3>3, <4>1, <4>3
      <4> QED
        BY <4>2, <4>3, <4>4 DEF Outstanding
    <3>5. inq' = <<>> /\ events' = <<InDone>> /\ Outstanding' = 1
      <4>1. Len(inq') = 0 /\ Due(l)'
        BY <3>3, <3>4
      <4>2. inq' = <<>>
        BY <4>1 DEF Due
      <4>3. events' = <<InDone>>
        BY <3>3, <3>4, AppendDone
      <4> QED
        BY <4>2, <4>3 DEF Outstanding
    <3>6. PICK t \in Trb :
            /\ inq = <<t>> /\ t.len > 0 /\ host.left = host'.left + t.len /\ host'.left \in Nat
            /\ Whole(t.len)
            /\ host'.good = host.good + Cardinality(Right(t, Moved))
      BY <1>2, <2>1, <3>2, <3>5, DueTaken
    <3>7. Good(Moved)'
      <4> SUFFICES ASSUME Claimed(host.cmd), Reached PROVE host'.good * Sector = Moved'
        BY <2>5, <2>6 DEF Good
      <4>1. t.from \in {InBuf, OutBuf} /\ t.len \in 0 .. Buffer /\ t.len \in Nat
            /\ Holds(t.from, t.len, Moved \div Sector)
        BY <3>1, <3>6 DEF Reading, Correct, Trb
      <4>2. PICK k \in Int : k = Moved \div Sector
        <5>1. Moved \in Int
          BY <2>1, <2>2 DEF Moved
        <5> QED
          BY <5>1 DEF Sector
      <4>3. Begins(bufs, host.cmd, t.from, t.len, t.len, k)
        <5>1. Beyond(bufs, t.from, t.len, t.len)
          BY <4>1 DEF Beyond, Memory, InBuf, OutBuf, Sector
        <5>2. Starts(bufs, host.cmd, t.from, t.len, k)
          BY <4>1, <4>2 DEF Holds, Starts
        <5> QED
          <6>1. t.len <= t.len
            BY <4>1
          <6> QED
            BY <4>1, <5>1, <5>2, <6>1 DEF Begins
      <4>4. PICK r \in Nat : r = t.len \div Sector /\ t.len = 2 * r
        BY <3>6, <4>1 DEF Whole, Sector
      <4>5. Right(t, Moved) = 0 .. r - 1
        <5>1. Found(bufs, host.cmd, t.from, t.len, k) = 0 .. r - 1
          BY <4>3, <4>4, FoundIs
        <5> QED
          BY <4>2, <5>1, RightFound
      <4>6. host'.good = host.good + r
        BY <3>6, <4>5, RightCount
      <4>7. host.good * Sector = Moved
        BY <3>1 DEF Reading, Good
      <4> QED
        <5>1. PICK g, a, b, z \in Nat : g = host.good /\ a = host.left /\ b = host'.left /\ z = cmd.size
          BY <2>2, <3>6
        <5>2. g * 2 = z - a /\ a = b + 2 * r
          BY <2>1, <3>6, <4>4, <4>7, <5>1 DEF Moved, Sector
        <5>3. (g + r) * 2 = z - b
          BY <5>2
        <5>4. Moved' = z - b
          BY <2>1, <2>5, <5>1 DEF Moved
        <5>5. host'.good = g + r
          BY <4>6, <5>1
        <5> QED
          BY <5>3, <5>4, <5>5 DEF Sector
    <3>8. Reading'
      <4>1. Due(job.residue)'
        BY <1>3, <3>2, <3>3 DEF Due
      <4>2. Halfway' /\ (job'.first \/ WaitOver' <=> job.first \/ WaitOver)
        BY <1>3, <3>1 DEF Reading, Halfway, Stored, WaitOver
      <4>3. ~(job.first \/ WaitOver)
        BY <3>1, <3>4 DEF Reading
      <4>4. \A v \in Trb : inq' # <<v>>
        BY <3>5
      <4> QED
        BY <1>3, <3>1, <3>5, <3>7, <4>1, <4>2, <4>3, <4>4 DEF Reading
    <3>9. AtSent => AtSent'
      <4>1. Stored' = Stored
        BY <1>3 DEF Stored
      <4> QED
        BY <1>1, <1>3, <2>5, <2>6, <3>8, <4>1 DEF AtSent, Correct, Holds, ReadSize
    <3> QED
      BY <1>1, <1>2, <1>3, <1>6, <2>1, <2>4, <2>13, <3>1, <3>8, <3>9, InStepIns DEF Ins
  <2> QED
    BY <2>1, <2>8, <2>9, <2>10, <2>11, <2>12, <2>13 DEF Ins
<1> QED
  BY <1>4, <1>5, <1>6, InStepParts

-----------------------------------------------------------------------------
(* The whole.                                                              *)

\* A step that changes none of what InStep speaks of.
still == <<outq, inq, events, tx, bulkReset, bufs, pc, res, state, lun, cmd, job, queued, ignore,
           units, part, host, upsets>>

LEMMA StillInStep ==
  ASSUME InStep, UNCHANGED still PROVE InStep'
<1>1. UNCHANGED <<outq, inq, events, tx, bulkReset, bufs, pc, res, state, lun, cmd, job, queued,
                  ignore, units, part, host, upsets>>
  BY DEF still
<1>2. Kinds => Kinds'
  BY <1>1, KindsKept
<1>3. Untroubled => Untroubled'
  BY <1>1, UntroubledKept
<1>4. WaitOver' = WaitOver /\ Reached' = Reached /\ Moved' = Moved /\ Stored' = Stored
      /\ Asked' = Asked
  BY <1>1 DEF WaitOver, Reached, Moved, Stored, Asked
<1>5. Ready => Ready'
  <2>1. Idle => Idle'
    BY <1>1, <1>4 DEF Idle, Truth
  <2>2. Late => Late'
    BY <1>1 DEF Late
  <2>3. Listening => Listening'
    BY <1>1 DEF Listening
  <2>4. Sent => Sent'
    BY <1>1 DEF Sent
  <2>5. Unheard => Unheard'
    BY <1>1 DEF Unheard
  <2>6. Dropped => Dropped'
    BY <1>1 DEF Dropped
  <2> QED
    BY <1>1, <2>1, <2>2, <2>3, <2>4, <2>5, <2>6 DEF Ready
<1>6. \A n \in {0, 1} : Waited(n) => Waited(n)'
  BY <1>1 DEF Waited, Outstanding, Lag
<1>7. Waited(Busy) => Waited(Busy)'
  BY <1>1, <1>4 DEF Waited, Outstanding, Lag, Busy
<1>8. AtStatus => AtStatus'
  <2>1. Idle => Idle'
    BY <1>1, <1>4 DEF Idle, Truth
  <2>2. OnItsWay => OnItsWay'
    BY <1>1, <1>4 DEF OnItsWay, Truth
  <2> QED
    BY <1>1, <1>7, <2>1, <2>2 DEF AtStatus
<1>9. Taken => Taken'
  BY <1>1 DEF Taken
<1>10. Settled => Settled'
  BY <1>1 DEF Settled
<1>11. Halfway => Halfway'
  BY <1>1, <1>4 DEF Halfway
<1>12. \A r : (Due(r) => Due(r)') /\ (Good(r) => Good(r)') /\ (Coming(r) => Coming(r)')
  BY <1>1, <1>4 DEF Due, Good, Coming
<1>13. Outs => Outs'
  <2>1. Still => Still'
    BY <1>1 DEF Still
  <2>2. Writing => Writing'
    BY <1>1, <1>4, <1>11 DEF Writing
  <2>3. AtWrite => AtWrite'
    BY <1>1, <1>4, <2>1, <2>2 DEF AtWrite
  <2>4. Coming(job.posted) => Coming(job.posted)'
    BY <1>1 DEF Coming
  <2>5. AtFill => AtFill'
    BY <1>1, <1>4, <2>2, <2>4 DEF AtFill, Arrived
  <2>6. Throwing => Throwing'
    BY <1>12 DEF Throwing
  <2>7. Good(cmd.size - job.residue) => Good(cmd.size - job.residue)'
    BY <1>1, <1>4 DEF Good
  <2> QED
    BY <1>1, <1>10, <2>1, <2>3, <2>5, <2>6, <2>7 DEF Outs
<1>14. Ins => Ins'
  <2>1. Good(Moved) => Good(Moved)'
    BY <1>1, <1>4 DEF Good
  <2>2. Reading => Reading'
    BY <1>1, <1>4, <1>11, <2>1 DEF Reading, Due, Outstanding, Correct, Holds
  <2>3. AtSent => AtSent'
    BY <1>1, <1>4, <2>2 DEF AtSent, Correct, Holds, ReadSize
  <2>4. Left => Left'
    BY <1>1, <1>4 DEF Left, Correct, Holds
  <2>5. AtFinish => AtFinish'
    BY <1>1, <1>6, <1>10, <2>1, <2>4 DEF AtFinish, Due
  <2>6. AtPad => AtPad'
    BY <1>1, <1>4, <1>6, <1>10, <2>1, <2>4 DEF AtPad, Due, Good
  <2>7. AtReply => AtReply'
    BY <1>1, <1>4, <1>7, <1>10 DEF AtReply, Due, Good, Right
  <2>8. AtReplied => AtReplied'
    BY <1>1, <1>4, <1>6, <1>10 DEF AtReplied, Due, Good
  <2>9. Waited(1) /\ Due(job.left) => Waited(1)' /\ Due(job.left)'
    BY <1>1, <1>6 DEF Due
  <2> QED
    BY <1>1, <2>2, <2>3, <2>5, <2>6, <2>7, <2>8, <2>9 DEF Ins
<1> QED
  BY <1>1, <1>2, <1>3, <1>5, <1>8, <1>9, <1>13, <1>14 DEF InStep


\* The host gave up; only a reset gets it out of that.
Lost == host.phase = "lost" /\ "phase" \in DOMAIN host

LEMMA CalmBefore ==
  ASSUME [Next]_vars, Calm' PROVE Calm
<1>1. CASE upsets' = upsets
  BY <1>1 DEF Calm
<1>2. CASE \E k : Upset(k)
  BY <1>2, CalmUpset
<1>3. CASE UNCHANGED vars
  BY <1>1, <1>3 DEF vars
<1>4. CASE Transport \/ SendCommand
  BY <1>1, <1>4, HostFrame DEF Transport
<1>5. CASE StopEarly \/ BulkReset
  BY <1>2, <1>5 DEF StopEarly, BulkReset
<1>6. CASE Buttons \/ Sleep
  BY <1>1, <1>6 DEF Buttons, Sleep
<1>7. CASE TimeOut
  BY <1>1, <1>7, NotServed
<1>8. CASE Filled \/ ReadAccess \/ Received
  <2>1. ASSUME NEW l, NEW ok, Access(l, ok) PROVE Calm
    BY <1>1, <1>2, <2>1 DEF Access
  <2>2. ASSUME NEW l, Switched(l) PROVE Calm
    BY <1>1, <1>2, <2>2 DEF Switched
  <2>3. CASE ReadAccess
    BY <2>1, <2>3 DEF ReadAccess
  <2>4. CASE Received
    BY <2>2, <2>4 DEF Received
  <2>5. CASE Filled
    BY <1>1, <2>1, <2>5 DEF Filled
  <2> QED
    BY <1>8, <2>3, <2>4, <2>5
<1>9. CASE EpOperation \/ HandleException \/ PastLuns \/ GetCommand \/ NoneReceived \/ ReadPastEnd
           \/ ReadSent \/ WriteStuck \/ WritePastEnd \/ WriteAsk \/ Abandoned \/ FinishNothing
           \/ FinishReply \/ FinishPadded \/ FinishShort \/ FinishDiscard \/ Pad \/ Replied
           \/ Answer \/ StatusOver
  <2>1. upsets' = upsets
    BY <1>9 DEF EpOperation, HandleException, PastLuns, GetCommand, NoneReceived, ReadPastEnd,
       ReadSent, WriteStuck, WritePastEnd, WriteAsk, Abandoned, FinishNothing, FinishReply,
       FinishPadded, FinishShort, FinishDiscard, Pad, Replied, Answer, StatusOver, finished
  <2> QED
    BY <1>1, <2>1
<1> QED
  BY <1>3, <1>4, <1>5, <1>6, <1>7, <1>8, <1>9 DEF Next, Device

LEMMA LostKept ==
  ASSUME Lost, [Next]_vars, Calm' PROVE Lost'
<1>1. CASE host' = host
  BY <1>1 DEF Lost
<1>2. CASE Transport \/ SendCommand
  BY <1>2 DEF Lost, Transport, SendData, TakeData, TakeStatus, SendCommand
<1>3. CASE StopEarly \/ BulkReset
  <2>1. \E k \in {"early", "reset"} : Upset(k)
    BY <1>3 DEF StopEarly, BulkReset
  <2> QED
    BY <2>1, CalmUpset
<1>4. CASE Filled
  <2>1. \/ host' = host
        \/ host' = [host EXCEPT !.good = @ + Storable \div Sector]
        \/ host' = [host EXCEPT !.astray = TRUE]
    BY <1>4 DEF Filled
  <2> QED
    BY <2>1 DEF Lost
<1>5. CASE Buttons \/ Sleep \/ UNCHANGED vars
  BY <1>1, <1>5 DEF Buttons, Sleep, vars
<1>6. CASE Device /\ ~Filled
  <2>1. host' = host
    BY <1>6 DEF Device, EpOperation, TimeOut, HandleException, PastLuns, GetCommand, NoneReceived,
       Received, ReadPastEnd, ReadAccess, ReadSent, WriteStuck, WritePastEnd, WriteAsk, Abandoned,
       FinishNothing, FinishReply, FinishPadded, FinishShort, FinishDiscard, Pad, Replied, Answer,
       StatusOver, finished
  <2> QED
    BY <1>1, <2>1
<1> QED
  BY <1>2, <1>3, <1>4, <1>5, <1>6 DEF Next

LEMMA DeviceInStep ==
  ASSUME InStep, Shape, Device \/ Buttons, Calm' PROVE InStep'
<1>1. CASE EpOperation
  BY <1>1, EpOperationInStep
<1>2. CASE TimeOut
  BY <1>2, TimeOutInStep
<1>3. CASE HandleException \/ PastLuns \/ Buttons
  BY <1>3, TopInStep
<1>4. CASE GetCommand
  BY <1>4, GetCommandInStep
<1>5. CASE NoneReceived
  BY <1>5, NoneReceivedInStep
<1>6. CASE Received
  BY <1>6, ReceivedInStep
<1>7. CASE ReadPastEnd
  BY <1>7, ReadPastEndInStep
<1>8. CASE ReadAccess
  BY <1>8, ReadAccessInStep
<1>9. CASE ReadSent
  BY <1>9, ReadSentInStep
<1>10. CASE WriteStuck
  BY <1>10, WriteStuckInStep
<1>11. CASE WritePastEnd
  BY <1>11, WritePastEndInStep
<1>12. CASE WriteAsk
  BY <1>12, WriteAskInStep
<1>13. CASE Filled
  BY <1>13, FilledInStep
<1>14. CASE Abandoned
  BY <1>14, AbandonedInStep
<1>15. CASE FinishNothing
  BY <1>15, FinishNothingInStep
<1>16. CASE FinishReply
  BY <1>16, FinishReplyInStep
<1>17. CASE FinishPadded
  BY <1>17, FinishPaddedInStep
<1>18. CASE FinishShort
  BY <1>18, FinishShortInStep
<1>19. CASE FinishDiscard
  BY <1>19, FinishDiscardInStep
<1>20. CASE Pad
  BY <1>20, PadInStep
<1>21. CASE Replied
  BY <1>21, RepliedInStep
<1>22. CASE Answer
  BY <1>22, AnswerInStep
<1>23. CASE StatusOver
  BY <1>23, StatusOverInStep
<1> QED
  BY <1>1, <1>2, <1>3, <1>4, <1>5, <1>6, <1>7, <1>8, <1>9, <1>10, <1>11, <1>12, <1>13, <1>14,
     <1>15, <1>16, <1>17, <1>18, <1>19, <1>20, <1>21, <1>22, <1>23 DEF Device

\* What a calm behaviour keeps.
Agreed == Calm => Lost \/ InStep

LEMMA InitAgreed == Init => Agreed
<1> SUFFICES ASSUME Init PROVE InStep
  BY DEF Agreed
<1>1. Kinds
  <2>1. [out |-> [count |-> 0, bytes |-> 0], in |-> [count |-> 0, bytes |-> 0]] \in TxKind
    BY DEF TxKind
  <2> QED
    BY <2>1 DEF Init, Kinds, TxKind, NoJob
<1>2. Untroubled
  BY DEF Init, Untroubled, NoJob
<1>3. Ready
  <2>1. Idle
    BY DEF Init, Idle
  <2>2. Listening /\ events = <<>>
    BY DEF Init, Listening
  <2>3. pc # "cbw"
    BY DEF Init
  <2> QED
    BY <2>1, <2>2, <2>3 DEF Ready
<1>4. pc = "top"
  BY DEF Init
<1> QED
  BY <1>1, <1>2, <1>3, <1>4 DEF InStep, ReadyAt, Serving

LEMMA StepAgreed == Agreed /\ Shape /\ [Next]_vars => Agreed'
<1> SUFFICES ASSUME Agreed, Shape, [Next]_vars, Calm' PROVE Lost' \/ InStep'
  BY DEF Agreed
<1>1. Lost \/ InStep
  BY CalmBefore DEF Agreed
<1>2. CASE Lost
  BY <1>2, LostKept
<1>3. CASE InStep
  <2>1. CASE Device \/ Buttons
    BY <1>3, <2>1, DeviceInStep
  <2>2. CASE SendCommand
    BY <1>3, <2>2, SendCommandInStep
  <2>3. CASE SendData
    BY <1>3, <2>3, SendDataInStep
  <2>4. CASE TakeData
    BY <1>3, <2>4, TakeDataInStep
  <2>5. CASE TakeStatus
    <3>1. DOMAIN host' = DOMAIN host
      BY <2>5 DEF TakeStatus
    <3>2. "phase" \in DOMAIN host
      BY <1>3, InStepParts DEF Kinds
    <3> QED
      BY <1>3, <2>5, <3>1, <3>2, TakeStatusInStep DEF Lost
  <2>6. CASE StopEarly \/ BulkReset
    <3>1. \E k \in {"early", "reset"} : Upset(k)
      BY <2>6 DEF StopEarly, BulkReset
    <3> QED
      BY <3>1, CalmUpset
  <2>7. CASE Sleep
    BY <1>3, <2>7, StillInStep DEF Sleep, still, bus
  <2>8. CASE UNCHANGED vars
    BY <1>3, <2>8, StillInStep DEF vars, still, bus
  <2> QED
    BY <2>1, <2>2, <2>3, <2>4, <2>5, <2>6, <2>7, <2>8 DEF Next, Transport
<1> QED
  BY <1>1, <1>2, <1>3

LEMMA AgreedAnswers == Agreed => AnswersTrue
<1> SUFFICES ASSUME Agreed, Told, Calm, Inside(host.cmd), Reached
             PROVE  /\ host.status = "pass" => host.residue = host.cmd.size - From(host.cmd)
                    /\ host.good * Sector = host.cmd.size - host.residue
  BY DEF AnswersTrue
<1>1. InStep
  BY DEF Agreed, Lost, Told
<1>2. host.phase = "idle" /\ host.status # "none" /\ Claimed(host.cmd)
  BY DEF Told, Claimed, Moving
<1>3. Idle
  <2>1. pc \notin Serving
    BY <1>1, <1>2, InStepParts, TakenPhase
  <2>2. CASE pc \in ReadyAt
    <3>1. Ready
      BY <1>1, <2>2, InStepParts
    <3>2. ~Late /\ ~Sent
      BY <1>2, CommandIs DEF Late, Sent, Phase
    <3> QED
      BY <3>1, <3>2 DEF Ready
  <2>3. CASE pc = "status"
    <3>1. AtStatus
      BY <1>1, <2>3, InStepParts
    <3>2. ~OnItsWay
      BY <1>2 DEF OnItsWay, Phase
    <3> QED
      BY <3>1, <3>2 DEF AtStatus
  <2> QED
    BY <1>1, <2>1, <2>2, <2>3, InStepParts
<1> QED
  BY <1>2, <1>3 DEF Idle, Truth

\* An answer to a read or a write of a calm host is true: what passed was
\* moved whole, and of what failed what is reported as moved was, with every
\* sector the one that was asked for; for all volumes, commands and lengths,
\* whatever accesses fail (_scsi_read, _scsi_write, _finish_reply,
\* _pad_with_zeros, _throw_away_data, _send_status).
THEOREM AnswersTrueHolds == Spec => []AnswersTrue
<1>1. Shape /\ InOrder /\ Agreed /\ [Next]_vars => Agreed'
  BY StepAgreed
<1> QED
  BY <1>1, InitShape, StepShape, InitAgreed, AgreedAnswers, PTL DEF Spec

-----------------------------------------------------------------------------
(* Nothing goes astray.                                                    *)
(*                                                                         *)
(* While no access fails and no wait is given up that the host would have  *)
(* ended, the transfers of the device and of the host meet: what is posted *)
(* for a command is what the host moves for it.  After a reset by the host *)
(* they need not: its next command block may go into a transfer that was   *)
(* posted for the data of the last command (Stale, then Doomed).  That     *)
(* command is not received, since its transfer came with bytes missing, and*)
(* the host waits for a status with a tag that no status has.              *)

Tame == upsets \cap {"fault", "pause"} = {}

\* The host has not reset the device yet.
Fresh == "reset" \notin upsets

\* Events: none of a transfer from the host; one, with so much of it missing;
\* none of one that succeeded; one that succeeded with some of it missing.
Event == {e \in [ep : {"in", "out", "reset"}, ok : BOOLEAN, rest : Nat] :
            e.ep # "out" => e.ok /\ e.rest = 0}
FromHost(e) == e.ep = "out" /\ e.ok
NoOut(evs) == \A i \in 1 .. Len(evs) : evs[i].ep # "out"
OneOut(evs, rest) ==
  \E k \in 1 .. Len(evs) :
     /\ FromHost(evs[k]) /\ evs[k].rest = rest
     /\ \A i \in 1 .. Len(evs) : i # k => evs[i].ep # "out"
NoneCame(evs) == \A i \in 1 .. Len(evs) : ~FromHost(evs[i])
Missing(evs) == \E i \in 1 .. Len(evs) : FromHost(evs[i]) /\ evs[i].rest > 0

\* The transfers q carry what is from l down to p, a short one at the end only.
InTrb == [from : Memory, len : Nat]
Chain(q, l, p) ==
  \E f \in [0 .. Len(q) -> Nat] :
     /\ f[0] = l /\ f[Len(q)] = p
     /\ \A i \in 1 .. Len(q) : /\ q[i].len > 0 /\ f[i] = f[i - 1] - q[i].len
                               /\ Whole(q[i].len) \/ f[i] = 0

\* Kinds of values.
Sorts ==
  /\ outq \in Seq(Nat \ {0}) /\ inq \in Seq(InTrb) /\ events \in Seq(Event)
  /\ tx \in TxKind
  /\ DOMAIN job = DOMAIN NoJob
  /\ job.from \in {InBuf, OutBuf} /\ job.cur \in {InBuf, OutBuf}
  /\ job.left \in Nat /\ job.len \in Nat /\ job.lba \in Nat
  /\ job.residue \in Int /\ job.todo \in Int
  /\ DOMAIN host = {"phase", "cmd", "tag", "left", "good", "astray", "status", "residue"}
  /\ host.left \in Nat /\ host.tag \in {0, 1}
  /\ host.phase = "out" => host.left > 0 /\ Whole(host.left)

\* What holds of a tame behaviour wherever the device is.
Sane ==
  /\ Sorts /\ ~host.astray
  /\ lun # 0 => Luns[lun].part \in {"sd", part}
  /\ Fresh => /\ ~bulkReset /\ state # "reset"
              /\ \A i \in 1 .. Len(events) : events[i].ep # "reset"
              /\ pc = "top" \/ pc \in Terminal \/ state = "normal"

\* Transfers from the host: none, one that waits, one that came but for n - m.
Clear == outq = <<>> /\ NoOut(events)
Waiting(n) == outq = <<n>> /\ tx["out"] = [count |-> 1, bytes |-> n] /\ NoOut(events)
Came(n, m) ==
  /\ outq = <<>>
  /\ \/ tx["out"] = [count |-> 1, bytes |-> n] /\ OneOut(events, n - m)
     \/ tx["out"] = [count |-> 0, bytes |-> m] /\ NoOut(events) /\ res = "ok" /\ pc # "top"

\* Transfers to the host: it takes what is posted, and p more is to come.
Takes(p) ==
  \/ host.phase = "lost"
  \/ host.phase = "in" /\ host.left > 0 /\ Chain(inq, host.left, p)
  \/ host.phase \in {"status", "out"} /\ inq = <<>> /\ p = 0

\* It takes what is posted, and the status after it.
Closes ==
  \/ host.phase = "lost"
  \/ host.phase = "idle" /\ inq = <<>>
  \/ host.phase \in {"status", "out"} /\ Len(inq) = 1
  \/ /\ host.phase = "in" /\ host.left > 0
     /\ \E q \in Seq(InTrb), t \in InTrb : inq = Append(q, t) /\ Chain(q, host.left, 0)

\* A host that resets the device forgets the command that is carried out.
Gone == ~Fresh /\ host.phase = "idle" /\ inq = <<>>
Sends(n) == n = 0 \/ (host.phase = "out" /\ host.left = n) \/ Gone

\* A command block is waited for.
AtTop == pc \in {"top", "cbw"} /\ queued /\ state # "abort"
Asks == AtTop /\ ~ignore /\ Waiting(1) /\ (Fresh => Closes)

\* It has come.
Heard ==
  /\ AtTop /\ ~ignore /\ Came(1, 1)
  /\ bufs[OutBuf] = <<"cbw", host.cmd, host.tag>> /\ host.cmd \in Commands
  /\ Fresh => /\ inq = <<>> /\ host.left = host.cmd.size
              /\ host.phase = Phase(host.cmd, host.left)
  /\ host.cmd.dir = "out" => \/ host.phase = "out" /\ host.left = host.cmd.size
                             \/ host.phase = "idle" /\ inq = <<>>

\* Data came for it: the transfer failed, and the device waits for ever.
Deaf == AtTop /\ outq = <<>> /\ tx["out"].count = 1 /\ NoneCame(events)

\* Nothing is wanted from the host, or no more.
ToCome ==
  CASE pc \in {"read", "sent"} -> job.residue
    [] pc = "finish" -> IF cmd.dir = "in" THEN job.residue + job.len ELSE 0
    [] pc \in {"pad", "reply"} -> job.left
    [] OTHER -> 0

Parted ==
  /\ Clear /\ ~queued /\ ~ignore
  /\ pc \in {"read", "sent", "finish", "pad", "reply", "replied", "status", "top"}
  /\ pc \in {"read", "sent"} =>
       /\ cmd.dir = "in" /\ lun # 0
       /\ job.todo > 0 /\ Whole(job.todo) /\ job.todo <= job.residue
  /\ pc = "sent" => job.len > 0 /\ Whole(job.len) /\ job.len <= job.todo
  /\ pc = "finish" => /\ cmd.dir # "out"
                      /\ cmd.dir = "in" => job.residue >= 0 /\ job.residue + job.len > 0
  /\ pc = "pad" => job.left > 0
  /\ Fresh => IF pc = "status" \/ (pc = "top" /\ state # "abort") THEN Closes ELSE Takes(ToCome)

\* A write, or data that is thrown away.
Loaded ==
  \A i \in 0 .. job.posted \div Sector - 1 :
     bufs[OutBuf + i] = <<"data", job.lba - cmd.lba + i, host.tag>>

Writes ==
  /\ Clear /\ Sends(job.left)
  /\ cmd.lba + Asked \div Sector < Luns[lun].sectors => job.lba = cmd.lba + Asked \div Sector

Fills ==
  /\ job.posted \in 1 .. Buffer /\ Whole(job.posted) /\ job.left + job.posted <= cmd.size
  /\ job.lba = cmd.lba + (cmd.size - (job.left + job.posted)) \div Sector
  /\ job.lba < Luns[lun].sectors
  /\ \/ /\ Waiting(job.posted)
        /\ Gone \/ (res = "ok" /\ host.phase = "out" /\ host.left = job.left + job.posted)
     \/ res = "ok" /\ Came(job.posted, job.posted) /\ Sends(job.left) /\ Loaded
     \/ res = "ok" /\ Came(job.posted, 0)

Storing ==
  /\ cmd.op = "write" /\ lun = cmd.lun /\ ~Luns[lun].ro /\ ~units[lun].unmounted
  /\ pc = "write" => Writes
  /\ pc = "fill" => Fills

Throws ==
  /\ res = "ok"
  /\ \/ \E n \in 1 .. EpMax : Waiting(n) /\ Whole(n) /\ host.phase = "out"
     \/ outq = <<>> /\ tx["out"].count = 1 /\ \E r \in Nat : OneOut(events, r)
     \/ Clear /\ tx["out"].count = 0

Accepts ==
  /\ ~queued /\ ~ignore /\ cmd = host.cmd /\ cmd \in Commands /\ cmd.dir = "out"
  /\ job.tag = host.tag
  /\ Fresh => inq = <<>> /\ host.phase \in {"out", "status"}
  /\ Whole(job.left) /\ job.left <= cmd.size
  /\ pc \in {"write", "fill", "finish", "discard"}
  /\ pc \in {"write", "fill"} => Storing
  /\ pc = "finish" => Clear /\ (job.short \/ Sends(job.left))
  /\ pc = "discard" => Throws

\* Statuses with the tag of the host.
Signed(t) == bufs[t.from][1] = "csw" /\ bufs[t.from][2] = host.tag
Unsigned(t) == bufs[t.from][1] = "csw" /\ bufs[t.from][2] # host.tag
Tails == {"finish", "discard", "replied", "status", "top", "cbw"}
Answering == pc \in {"fill", "finish", "discard", "replied"} \/ (pc = "top" /\ state = "abort")

\* The next command will go into a transfer that was for the data of the last.
Stale ==
  /\ ~Fresh /\ host.phase = "idle" /\ NoOut(events) /\ pc \in Tails
  /\ outq # <<>> /\ outq[1] > 1
  /\ \A i \in 1 .. Len(inq) : ~Unsigned(inq[i])
  /\ Answering => job.tag = host.tag
  /\ pc = "status" => state # "abort"
  /\ pc = "finish" => cmd.dir = "out"
  /\ pc = "cbw" => queued
  /\ queued => /\ pc \in {"top", "cbw"} /\ state # "abort"
               /\ tx["out"] = [count |-> 1, bytes |-> 1]

\* It has: the host waits for the status of a command that was not received.
Doomed ==
  /\ ~Fresh /\ host.phase # "idle" /\ pc \in Tails \cup {"fill"}
  /\ \A i \in 1 .. Len(inq) : ~Signed(inq[i])
  /\ Answering => job.tag # host.tag
  /\ pc = "status" => state # "abort"
  /\ pc \in {"fill", "finish"} => cmd.dir = "out"
  /\ pc = "cbw" => queued
  /\ pc = "fill" => /\ lun # 0 /\ job.posted \in 1 .. Buffer /\ Whole(job.posted)
                    /\ res # "ok" \/ Came(job.posted, 1)
  /\ bufs[OutBuf][1] # "cbw" \/ NoneCame(events) \/ Missing(events)
  /\ queued => /\ pc \in {"top", "cbw"} /\ state # "abort" /\ tx["out"].bytes <= 1
               /\ bufs[OutBuf][1] # "cbw" \/ tx["out"].bytes <= 0 \/ tx["out"].count = 1

Ended == pc \in Terminal \/ (pc = "top" /\ state = "exit")

Places == Asks \/ Heard \/ Deaf \/ Parted \/ Accepts \/ Stale \/ Doomed \/ Ended
Kept == Sane /\ Places
Guarded == Tame => Kept

\* Events are added at the end.
LEMMA EventsAdded ==
  ASSUME NEW evs \in Seq(Event), NEW e \in Event, NEW new, new = Append(evs, e)
  PROVE  /\ new \in Seq(Event) /\ Len(evs) \in Nat /\ Len(new) = Len(evs) + 1
         /\ new[Len(new)] = e /\ Len(new) \in 1 .. Len(new)
         /\ \A i \in 1 .. Len(evs) : new[i] = evs[i] /\ i \in 1 .. Len(new)
         /\ \A i \in 1 .. Len(new) : i = Len(new) \/ i \in 1 .. Len(evs)
<1>1. Len(evs) \in Nat /\ new \in Seq(Event) /\ Len(new) = Len(evs) + 1
  OBVIOUS
<1>2. new[Len(new)] = e
  BY <1>1
<1>3. \A i \in 1 .. Len(evs) : new[i] = evs[i]
  BY <1>1
<1> QED
  BY <1>1, <1>2, <1>3

LEMMA OtherAdded ==
  ASSUME NEW evs \in Seq(Event), NEW e \in Event, e.ep # "out", NEW new, new = Append(evs, e)
  PROVE  /\ NoOut(evs) => NoOut(new)
         /\ \A r : OneOut(evs, r) => OneOut(new, r)
         /\ NoneCame(evs) => NoneCame(new)
         /\ Missing(evs) => Missing(new)
<1>1. /\ new[Len(new)] = e
      /\ \A i \in 1 .. Len(evs) : new[i] = evs[i] /\ i \in 1 .. Len(new)
      /\ \A i \in 1 .. Len(new) : i = Len(new) \/ i \in 1 .. Len(evs)
  BY EventsAdded
<1>2. \A i \in 1 .. Len(new) : new[i].ep # "out" \/ (i \in 1 .. Len(evs) /\ new[i] = evs[i])
  BY <1>1
<1>3. ASSUME NEW r, OneOut(evs, r) PROVE OneOut(new, r)
  <2>1. PICK k \in 1 .. Len(evs) : /\ FromHost(evs[k]) /\ evs[k].rest = r
                                   /\ \A i \in 1 .. Len(evs) : i # k => evs[i].ep # "out"
    BY <1>3 DEF OneOut
  <2>2. k \in 1 .. Len(new) /\ FromHost(new[k]) /\ new[k].rest = r
    BY <1>1, <2>1
  <2>3. \A i \in 1 .. Len(new) : i # k => new[i].ep # "out"
    BY <1>2, <2>1
  <2> QED
    BY <2>2, <2>3 DEF OneOut
<1>4. NoOut(evs) => NoOut(new)
  BY <1>2 DEF NoOut
<1>5. NoneCame(evs) => NoneCame(new)
  BY <1>2 DEF NoneCame, FromHost
<1>6. Missing(evs) => Missing(new)
  BY <1>1 DEF Missing
<1> QED
  BY <1>3, <1>4, <1>5, <1>6

LEMMA OutAdded ==
  ASSUME NEW evs \in Seq(Event), NEW e \in Event, e.ep = "out", NEW new, new = Append(evs, e)
  PROVE  /\ e.ok /\ NoOut(evs) => OneOut(new, e.rest)
         /\ e.ok /\ e.rest > 0 => Missing(new)
         /\ ~e.ok /\ NoneCame(evs) => NoneCame(new)
         /\ Missing(evs) => Missing(new)
<1>1. /\ new[Len(new)] = e /\ Len(new) \in 1 .. Len(new)
      /\ \A i \in 1 .. Len(evs) : new[i] = evs[i] /\ i \in 1 .. Len(new)
      /\ \A i \in 1 .. Len(new) : i = Len(new) \/ i \in 1 .. Len(evs)
  BY EventsAdded
<1>2. ASSUME e.ok, NoOut(evs) PROVE OneOut(new, e.rest)
  <2>1. PICK k : k = Len(new)
    OBVIOUS
  <2>2. k \in 1 .. Len(new) /\ FromHost(new[k]) /\ new[k].rest = e.rest
    BY <1>1, <1>2, <2>1 DEF FromHost
  <2>3. \A i \in 1 .. Len(new) : i # k => new[i].ep # "out"
    BY <1>1, <1>2, <2>1 DEF NoOut
  <2> QED
    BY <2>2, <2>3 DEF OneOut
<1>3. ASSUME e.ok, e.rest > 0 PROVE Missing(new)
  BY <1>1, <1>3 DEF Missing, FromHost
<1>4. ASSUME ~e.ok, NoneCame(evs) PROVE NoneCame(new)
  BY <1>1, <1>4 DEF NoneCame, FromHost
<1>5. Missing(evs) => Missing(new)
  BY <1>1 DEF Missing
<1> QED
  BY <1>2, <1>3, <1>4, <1>5

LEMMA NoOutNoneCame == ASSUME NEW evs PROVE NoOut(evs) => NoneCame(evs)
  BY DEF NoOut, NoneCame, FromHost

\* What one event does.
LEMMA HandleOne ==
  ASSUME NEW s, DOMAIN s = Handling, s.tx \in TxKind, NEW e \in Event, NEW h, h = HandleEvent(s, e)
  PROVE  /\ DOMAIN h = Handling /\ h.tx \in TxKind /\ h.res \in {"ok", "error"}
         /\ h.reset = (IF e.ep = "reset" THEN TRUE ELSE s.reset)
         /\ e.ep # "out" \/ e.ok => h.res = "ok"
         /\ ~FromHost(e) => h.tx["out"] = s.tx["out"]
         /\ FromHost(e) => /\ h.tx["out"].count = 0
                           /\ h.tx["out"].bytes = s.tx["out"].bytes - e.rest
<1>0. /\ e.ep \in {"in", "out", "reset"} /\ e.ok \in BOOLEAN /\ e.rest \in Nat
      /\ e.ep # "out" => e.ok /\ e.rest = 0
  BY DEF Event
<1>1. CASE e.ep = "reset"
  <2>1. h = [s EXCEPT !.reset = TRUE, !.res = "ok"]
    BY <1>1 DEF HandleEvent
  <2>2. DOMAIN h = Handling /\ h.tx = s.tx /\ h.reset = TRUE /\ h.res = "ok"
    BY <2>1 DEF Handling
  <2> QED
    BY <1>1, <2>2 DEF FromHost
<1>2. CASE e.ep # "reset" /\ ~e.ok
  <2>1. h = [s EXCEPT !.res = "error"]
    BY <1>2 DEF HandleEvent
  <2>2. DOMAIN h = Handling /\ h.tx = s.tx /\ h.reset = s.reset /\ h.res = "error"
    BY <2>1 DEF Handling
  <2> QED
    BY <1>0, <1>2, <2>2 DEF FromHost
<1>3. CASE e.ep # "reset" /\ e.ok
  <2>1. PICK w \in {"in", "out"} : w = e.ep
    BY <1>0, <1>3
  <2>2. PICK v : v = [count |-> IF s.tx[w].count > 0 THEN s.tx[w].count - 1 ELSE 0,
                      bytes |-> s.tx[w].bytes - e.rest]
    OBVIOUS
  <2>3. s.tx[w].count \in {0, 1} /\ s.tx[w].bytes \in Int
    BY <2>1 DEF TxKind
  <2>4. v \in [count : {0, 1}, bytes : Int] /\ v.count = 0 /\ v.bytes = s.tx[w].bytes - e.rest
    BY <1>0, <2>2, <2>3
  <2>5. h = [s EXCEPT !.tx[w] = v, !.res = "ok"]
    <3>1. ~(e.ep = "in" /\ e.rest # 0)
      BY <1>0
    <3> QED
      BY <1>3, <2>1, <2>2, <3>1 DEF HandleEvent
  <2>6. DOMAIN h = Handling /\ h.tx = [s.tx EXCEPT ![w] = v] /\ h.reset = s.reset /\ h.res = "ok"
    BY <2>5 DEF Handling
  <2>7. h.tx \in TxKind /\ h.tx[w] = v /\ (w # "out" => h.tx["out"] = s.tx["out"])
    BY <2>1, <2>4, <2>6 DEF TxKind
  <2> QED
    BY <1>3, <2>1, <2>4, <2>6, <2>7 DEF FromHost
<1> QED
  BY <1>1, <1>2, <1>3

\* What a wait does.
LEMMA WaitHandles ==
  ASSUME Sorts, EpOperation
  PROVE  /\ tx' \in TxKind /\ events' = <<>> /\ events # <<>> /\ res' \in {"ok", "error"}
         /\ NoOut(events) => tx'["out"] = tx["out"] /\ res' = "ok"
         /\ NoneCame(events) => tx'["out"] = tx["out"]
         /\ \A r \in Int : OneOut(events, r) =>
              tx'["out"] = [count |-> 0, bytes |-> tx["out"].bytes - r] /\ res' = "ok"
         /\ tx'["out"].bytes <= tx["out"].bytes
         /\ Missing(events) => tx'["out"].bytes < tx["out"].bytes
         /\ (\A i \in 1 .. Len(events) : events[i].ep # "reset") => bulkReset' = bulkReset
<1>1. PICK n \in Nat : n = Len(events)
  BY DEF Sorts
<1>2. events \in Seq(Event) /\ events # <<>> /\ events' = <<>> /\ n > 0
  BY <1>1 DEF Sorts, EpOperation
<1>3. \A i \in 1 .. n : events[i] \in Event
  BY <1>1, <1>2
<1>4. PICK h : h = [i \in 0 .. n |-> Handled[i]]
  OBVIOUS
<1>5. h[0] = Before /\ \A i \in 1 .. n : h[i] = HandleEvent(h[i - 1], events[i])
  <2>1. Handled[0] = Before /\ \A i \in 1 .. n : Handled[i] = HandleEvent(Handled[i - 1], events[i])
    BY <1>1, HandledSteps
  <2>2. \A i \in 1 .. n : i - 1 \in 0 .. n /\ i \in 0 .. n
    OBVIOUS
  <2> QED
    BY <1>4, <2>1, <2>2
<1>6. tx' = h[n].tx /\ bulkReset' = h[n].reset /\ res' = h[n].res
  BY <1>1, <1>4 DEF EpOperation
<1>7. DOMAIN h[0] = Handling /\ h[0].tx = tx /\ h[0].reset = bulkReset /\ h[0].res = "ok"
  BY <1>5 DEF Before, Handling
<1> DEFINE Fine(i) == DOMAIN h[i] = Handling /\ h[i].tx \in TxKind /\ h[i].res \in {"ok", "error"}
<1>8. \A i \in 0 .. n : Fine(i)
  <2> SUFFICES ASSUME NEW m \in 0 .. n PROVE Fine(m)
    OBVIOUS
  <2> DEFINE T == {i \in 0 .. n : Fine(i)}
  <2>1. 0 \in T
    BY <1>7 DEF Sorts
  <2>2. ASSUME NEW i \in 1 .. m, i - 1 \in T PROVE i \in T
    <3>1. i \in 1 .. n /\ Fine(i - 1) /\ events[i] \in Event /\ h[i] = HandleEvent(h[i - 1], events[i])
      BY <1>3, <1>5, <2>2
    <3>2. PICK r, e, g : r = h[i - 1] /\ e = events[i] /\ g = h[i]
      OBVIOUS
    <3>3. DOMAIN r = Handling /\ r.tx \in TxKind /\ e \in Event /\ g = HandleEvent(r, e)
      BY <3>1, <3>2
    <3>4. DOMAIN g = Handling /\ g.tx \in TxKind /\ g.res \in {"ok", "error"}
      BY <3>3, HandleOne
    <3> QED
      BY <3>1, <3>2, <3>4
  <2> HIDE DEF T
  <2>3. m \in T
    BY <2>1, <2>2, HandedOn
  <2> QED
    BY <2>3 DEF T
<1> HIDE DEF Fine
<1>9. ASSUME NEW i \in 1 .. n
      PROVE  /\ i - 1 \in 0 .. n /\ i \in 0 .. n /\ events[i] \in Event
             /\ h[i - 1].tx \in TxKind /\ h[i].tx \in TxKind
             /\ h[i].reset = (IF events[i].ep = "reset" THEN TRUE ELSE h[i - 1].reset)
             /\ events[i].ep # "out" \/ events[i].ok => h[i].res = "ok"
             /\ ~FromHost(events[i]) => h[i].tx["out"] = h[i - 1].tx["out"]
             /\ FromHost(events[i]) =>
                  /\ h[i].tx["out"].count = 0
                  /\ h[i].tx["out"].bytes = h[i - 1].tx["out"].bytes - events[i].rest
  <2>1. i - 1 \in 0 .. n /\ i \in 0 .. n /\ Fine(i - 1) /\ events[i] \in Event
        /\ h[i] = HandleEvent(h[i - 1], events[i])
    BY <1>3, <1>5, <1>8
  <2>2. PICK r, e, g : r = h[i - 1] /\ e = events[i] /\ g = h[i]
    OBVIOUS
  <2>3. DOMAIN r = Handling /\ r.tx \in TxKind /\ e \in Event /\ g = HandleEvent(r, e)
    BY <2>1, <2>2 DEF Fine
  <2>4. /\ g.tx \in TxKind /\ g.reset = (IF e.ep = "reset" THEN TRUE ELSE r.reset)
        /\ e.ep # "out" \/ e.ok => g.res = "ok"
        /\ ~FromHost(e) => g.tx["out"] = r.tx["out"]
        /\ FromHost(e) => /\ g.tx["out"].count = 0
                          /\ g.tx["out"].bytes = r.tx["out"].bytes - e.rest
    BY <2>3, HandleOne, ZenonT(60)
  <2> QED
    BY <2>1, <2>2, <2>3, <2>4
<1>10. tx' \in TxKind /\ res' \in {"ok", "error"}
  BY <1>6, <1>8 DEF Fine
<1>11. ASSUME NoneCame(events) PROVE tx'["out"] = tx["out"]
  <2> DEFINE T == {i \in 0 .. n : h[i].tx["out"] = tx["out"]}
  <2>1. 0 \in T
    BY <1>7
  <2>2. ASSUME NEW i \in 1 .. n, i - 1 \in T PROVE i \in T
    BY <1>1, <1>9, <1>11, <2>2 DEF NoneCame
  <2> HIDE DEF T
  <2>3. n \in T
    BY <2>1, <2>2, HandedOn
  <2> QED
    BY <1>6, <2>3 DEF T
<1>12. ASSUME NEW r, NoOut(events) \/ OneOut(events, r) PROVE res' = "ok"
  <2>1. n \in 1 .. n
    BY <1>2
  <2>2. events[n].ep # "out" \/ events[n].ok
    BY <1>1, <1>12, <2>1 DEF NoOut, OneOut, FromHost
  <2> QED
    BY <1>6, <1>9, <2>1, <2>2
<1>13. ASSUME NEW r \in Int, OneOut(events, r)
       PROVE  tx'["out"] = [count |-> 0, bytes |-> tx["out"].bytes - r]
  <2>1. PICK k \in 1 .. n : /\ FromHost(events[k]) /\ events[k].rest = r
                            /\ \A i \in 1 .. n : i # k => events[i].ep # "out"
    BY <1>1, <1>13 DEF OneOut
  <2> DEFINE T == {i \in 0 .. n : IF i < k THEN h[i].tx["out"] = tx["out"]
                                  ELSE /\ h[i].tx["out"].count = 0
                                       /\ h[i].tx["out"].bytes = tx["out"].bytes - r}
  <2>2. 0 \in T
    BY <1>7, <2>1
  <2>3. ASSUME NEW i \in 1 .. n, i - 1 \in T PROVE i \in T
    <3>1. CASE i = k
      <4>1. h[i - 1].tx["out"] = tx["out"]
        BY <2>3, <3>1
      <4>2. /\ h[i].tx["out"].count = 0
            /\ h[i].tx["out"].bytes = h[i - 1].tx["out"].bytes - r
        BY <1>9, <2>1, <3>1
      <4> QED
        BY <3>1, <4>1, <4>2
    <3>2. CASE i # k
      <4>1. h[i].tx["out"] = h[i - 1].tx["out"]
        BY <1>9, <2>1, <3>2 DEF FromHost
      <4>2. i < k <=> i - 1 < k
        BY <3>2
      <4> QED
        BY <1>9, <2>3, <4>1, <4>2
    <3> QED
      BY <3>1, <3>2
  <2> HIDE DEF T
  <2>4. n \in T
    BY <2>2, <2>3, HandedOn
  <2>5. h[n].tx["out"].count = 0 /\ h[n].tx["out"].bytes = tx["out"].bytes - r
    BY <2>1, <2>4 DEF T
  <2>6. tx'["out"] \in [count : {0, 1}, bytes : Int]
    BY <1>10 DEF TxKind
  <2> QED
    BY <1>6, <2>5, <2>6
<1>14. ASSUME NEW i \in 1 .. n
       PROVE  /\ h[i].tx["out"].bytes <= h[i - 1].tx["out"].bytes
              /\ h[i - 1].tx["out"].bytes \in Int /\ h[i].tx["out"].bytes \in Int
              /\ FromHost(events[i]) /\ events[i].rest > 0 =>
                   h[i].tx["out"].bytes < h[i - 1].tx["out"].bytes
  <2>1. h[i - 1].tx["out"].bytes \in Int /\ h[i].tx["out"].bytes \in Int
    BY <1>9 DEF TxKind
  <2>2. events[i].rest \in Nat
    BY <1>9 DEF Event
  <2>3. PICK a, b, r : a = h[i].tx["out"].bytes /\ b = h[i - 1].tx["out"].bytes /\ r = events[i].rest
    OBVIOUS
  <2>4. a = b \/ a = b - r
    BY <1>9, <2>3
  <2>5. FromHost(events[i]) => a = b - r
    BY <1>9, <2>3
  <2>6. a \in Int /\ b \in Int /\ r \in Nat
    BY <2>1, <2>2, <2>3
  <2>7. a <= b /\ (r > 0 /\ a = b - r => a < b)
    BY <2>4, <2>6
  <2> QED
    BY <2>1, <2>3, <2>5, <2>7
<1>15. tx["out"].bytes \in Int
  BY DEF Sorts, TxKind
<1>16. tx'["out"].bytes <= tx["out"].bytes
  <2> DEFINE T == {i \in 0 .. n : h[i].tx["out"].bytes \in Int /\ h[i].tx["out"].bytes <= tx["out"].bytes}
  <2>1. 0 \in T
    BY <1>7, <1>15
  <2>2. ASSUME NEW i \in 1 .. n, i - 1 \in T PROVE i \in T
    BY <1>9, <1>14, <1>15, <2>2
  <2> HIDE DEF T
  <2>3. n \in T
    BY <2>1, <2>2, HandedOn
  <2> QED
    BY <1>6, <2>3 DEF T
<1>17. ASSUME Missing(events) PROVE tx'["out"].bytes < tx["out"].bytes
  <2>1. PICK k \in 1 .. n : FromHost(events[k]) /\ events[k].rest > 0
    BY <1>1, <1>17 DEF Missing
  <2> DEFINE T == {i \in 0 .. n : /\ h[i].tx["out"].bytes \in Int
                                  /\ h[i].tx["out"].bytes <= tx["out"].bytes
                                  /\ i >= k => h[i].tx["out"].bytes < tx["out"].bytes}
  <2>2. 0 \in T
    BY <1>7, <1>15, <2>1
  <2>3. ASSUME NEW i \in 1 .. n, i - 1 \in T PROVE i \in T
    <3>1. i = k => h[i].tx["out"].bytes < h[i - 1].tx["out"].bytes
      BY <1>14, <2>1
    <3> QED
      BY <1>9, <1>14, <1>15, <2>3, <3>1, SMTT(60)
  <2> HIDE DEF T
  <2>4. n \in T
    BY <2>2, <2>3, HandedOn
  <2> QED
    BY <1>6, <2>1, <2>4 DEF T
<1>18. ASSUME \A i \in 1 .. n : events[i].ep # "reset" PROVE bulkReset' = bulkReset
  <2> DEFINE T == {i \in 0 .. n : h[i].reset = bulkReset}
  <2>1. 0 \in T
    BY <1>7
  <2>2. ASSUME NEW i \in 1 .. n, i - 1 \in T PROVE i \in T
    BY <1>9, <1>18, <2>2
  <2> HIDE DEF T
  <2>3. n \in T
    BY <2>1, <2>2, HandedOn
  <2> QED
    BY <1>6, <2>3 DEF T
<1> QED
  BY <1>1, <1>2, <1>10, <1>11, <1>12, <1>13, <1>16, <1>17, <1>18, NoOutNoneCame

\* Chains.
LEMMA ChainNone ==
  ASSUME NEW l \in Nat PROVE Chain(<<>>, l, l)
<1>1. PICK f : f = [i \in 0 .. 0 |-> l]
  OBVIOUS
<1>2. PICK q : q = <<>>
  OBVIOUS
<1>3. Len(q) = 0 /\ f \in [0 .. 0 -> Nat] /\ f[0] = l
  BY <1>1, <1>2
<1>4. Chain(q, l, l)
  BY <1>3 DEF Chain
<1> QED
  BY <1>2, <1>4

LEMMA ChainStarts ==
  ASSUME NEW q \in Seq(InTrb), NEW l, NEW p, Chain(q, l, p)
  PROVE  l \in Nat /\ p \in Nat /\ (q = <<>> => l = p)
<1>1. Len(q) \in Nat /\ (q = <<>> => Len(q) = 0)
  OBVIOUS
<1>2. PICK f \in [0 .. Len(q) -> Nat] : f[0] = l /\ f[Len(q)] = p
  BY DEF Chain
<1>3. f[0] \in Nat /\ f[Len(q)] \in Nat
  BY <1>1, <1>2
<1> QED
  BY <1>1, <1>2, <1>3

LEMMA ChainAppend ==
  ASSUME NEW q \in Seq(InTrb), NEW l, NEW p, Chain(q, l, p), NEW t \in InTrb, t.len > 0,
         NEW r \in Nat, r = p - t.len, Whole(t.len) \/ r = 0
  PROVE  Chain(Append(q, t), l, r)
<1>1. PICK n \in Nat : n = Len(q)
  OBVIOUS
<1>2. PICK f \in [0 .. n -> Nat] :
        /\ f[0] = l /\ f[n] = p
        /\ \A i \in 1 .. n : q[i].len > 0 /\ f[i] = f[i - 1] - q[i].len /\ (Whole(q[i].len) \/ f[i] = 0)
  BY <1>1 DEF Chain
<1>3. PICK s : s = Append(q, t)
  OBVIOUS
<1>4. Len(s) = n + 1 /\ s[n + 1] = t /\ \A i \in 1 .. n : s[i] = q[i]
  BY <1>1, <1>3
<1>5. PICK g : g = [i \in 0 .. n + 1 |-> IF i = n + 1 THEN r ELSE f[i]]
  OBVIOUS
<1>6. g \in [0 .. n + 1 -> Nat] /\ g[0] = l /\ g[n + 1] = r
  BY <1>2, <1>5
<1>7. ASSUME NEW i \in 1 .. n + 1
      PROVE  s[i].len > 0 /\ g[i] = g[i - 1] - s[i].len /\ (Whole(s[i].len) \/ g[i] = 0)
  <2>1. CASE i = n + 1
    <3>1. g[i - 1] = p
      BY <1>2, <1>5, <2>1
    <3> QED
      BY <1>4, <1>6, <2>1, <3>1
  <2>2. CASE i # n + 1
    <3>1. i \in 1 .. n /\ i - 1 \in 0 .. n /\ i \in 0 .. n
      BY <2>2
    <3>2. g[i] = f[i] /\ g[i - 1] = f[i - 1]
      BY <1>5, <2>2, <3>1
    <3> QED
      BY <1>2, <1>4, <3>1, <3>2
  <2> QED
    BY <2>1, <2>2
<1>8. Chain(s, l, r)
  BY <1>4, <1>6, <1>7, ZenonT(60) DEF Chain
<1> QED
  BY <1>3, <1>8

LEMMA ChainTail ==
  ASSUME NEW q \in Seq(InTrb), q # <<>>, NEW l, NEW p, Chain(q, l, p), NEW t, t = Head(q)
  PROVE  /\ t \in InTrb /\ t.len \in Nat /\ t.len > 0 /\ l - t.len \in Nat
         /\ Whole(t.len) \/ l - t.len = 0
         /\ Tail(q) \in Seq(InTrb) /\ Chain(Tail(q), l - t.len, p)
<1>1. PICK n \in Nat : n = Len(q) /\ n > 0
  OBVIOUS
<1>2. PICK f \in [0 .. n -> Nat] :
        /\ f[0] = l /\ f[n] = p
        /\ \A i \in 1 .. n : q[i].len > 0 /\ f[i] = f[i - 1] - q[i].len /\ (Whole(q[i].len) \/ f[i] = 0)
  BY <1>1 DEF Chain
<1>3. PICK s : s = Tail(q)
  OBVIOUS
<1>4. PICK m \in Nat : m = n - 1
  BY <1>1
<1>5. s \in Seq(InTrb) /\ Len(s) = m /\ t = q[1] /\ t \in InTrb
  BY <1>1, <1>3, <1>4
<1>6. \A i \in 1 .. m : s[i] = q[i + 1]
  BY <1>1, <1>3, <1>4
<1>7. PICK g : g = [i \in 0 .. m |-> f[i + 1]]
  OBVIOUS
<1>8. g \in [0 .. m -> Nat] /\ g[0] = f[1] /\ g[m] = p
  BY <1>1, <1>2, <1>4, <1>7
<1>9. ASSUME NEW i \in 1 .. m
      PROVE  s[i].len > 0 /\ g[i] = g[i - 1] - s[i].len /\ (Whole(s[i].len) \/ g[i] = 0)
  <2>1. PICK j \in 1 .. n : j = i + 1 /\ j - 1 = i
    BY <1>4
  <2>2. s[i] = q[j] /\ g[i] = f[j] /\ g[i - 1] = f[j - 1]
    BY <1>6, <1>7, <2>1
  <2> QED
    BY <1>2, <2>2
<1>10. Chain(s, f[1], p)
  BY <1>5, <1>8, <1>9 DEF Chain
<1>11. 1 \in 1 .. n
  BY <1>1
<1>12. t.len > 0 /\ f[1] = l - t.len /\ (Whole(t.len) \/ f[1] = 0)
  BY <1>2, <1>5, <1>11
<1>13. f[1] \in Nat
  BY <1>2, <1>11
<1> QED
  BY <1>3, <1>5, <1>10, <1>12, <1>13 DEF InTrb

LEMMA ChainOver ==
  ASSUME NEW q \in Seq(InTrb), NEW l, l = 0, NEW p, Chain(q, l, p)
  PROVE  q = <<>> /\ p = 0
<1>1. ASSUME q # <<>> PROVE FALSE
  <2>1. PICK t : t = Head(q)
    OBVIOUS
  <2>2. t.len \in Nat /\ t.len > 0 /\ l - t.len \in Nat
    BY <1>1, <2>1, ChainTail
  <2> QED
    BY <2>2
<1> QED
  BY <1>1, ChainStarts

\* What upsets a tame behaviour.
LEMMA TameUpset ==
  ASSUME NEW k, Upset(k), Tame' PROVE k \notin {"fault", "pause"} /\ Tame
  BY DEF Upset, Tame

LEMMA SortsKept ==
  ASSUME Sorts, UNCHANGED <<outq, inq, events, tx, job, host>> PROVE Sorts'
  BY DEF Sorts

\* A wait that is over in vain: the host would not have moved anything.
LEMMA TimeOutKept ==
  ASSUME Kept, TimeOut, Tame' PROVE Kept'
<1>1. /\ pc \in Waits /\ ~WaitOver /\ events = <<>> /\ res' = "timeout"
      /\ UNCHANGED <<bus, pc, state, lun, cmd, job, queued, ignore, units, timeouts, part, host,
                     asleep>>
  BY DEF TimeOut
<1>2. ~Served /\ upsets' = upsets
  BY TameUpset DEF TimeOut
<1>3. UNCHANGED <<outq, inq, events, tx, bulkReset, bufs>>
  BY <1>1 DEF bus
<1>4. Sane'
  <2>1. Sorts'
    BY <1>1, <1>3, SortsKept DEF Kept, Sane
  <2> QED
    BY <1>1, <1>2, <1>3, <2>1 DEF Kept, Sane, Fresh, Terminal
<1>5. /\ res = "ok" /\ Len(events) = 0
      /\ pc \in {"cbw", "fill", "discard"} => tx["out"].count # 0
  BY <1>1 DEF WaitOver, Way
<1>6. \A r : ~OneOut(events, r)
  BY <1>5 DEF OneOut
<1>7. \A n, m : pc \in {"cbw", "fill", "discard"} => ~Came(n, m)
  BY <1>5, <1>6 DEF Came
<1>8. ASSUME NEW n, Waiting(n), pc \in {"cbw", "fill", "discard"} PROVE host.phase # "out"
  <2>1. outq # <<>>
    BY <1>8 DEF Waiting
  <2> QED
    BY <1>2, <1>8, <2>1 DEF Served, Way
<1>9. \A n : Waiting(n) => Waiting(n)'
  BY <1>3 DEF Waiting
<1>10. \A n : Sends(n) => Sends(n)'
  BY <1>1, <1>2, <1>3 DEF Sends, Gone, Fresh
<1>11. CASE Asks
  <2>1. Waiting(1)'
    BY <1>9, <1>11 DEF Asks
  <2>2. Asks'
    BY <1>1, <1>2, <1>3, <1>11, <2>1 DEF Asks, AtTop, Fresh, Closes
  <2> QED
    BY <1>4, <2>2 DEF Kept, Places
<1>12. CASE Heard
  BY <1>1, <1>7, <1>12 DEF Heard, AtTop, Waits
<1>13. CASE Deaf
  <2>1. Deaf'
    BY <1>1, <1>3, <1>13 DEF Deaf, AtTop
  <2> QED
    BY <1>4, <2>1 DEF Kept, Places
<1>14. CASE Parted
  <2>1. Parted'
    BY <1>1, <1>2, <1>3, <1>14 DEF Parted, Clear, Fresh, Closes, Takes, ToCome, Waits
  <2> QED
    BY <1>4, <2>1 DEF Kept, Places
<1>15. CASE Accepts
  <2>1. CASE pc = "fill"
    <3>1. Storing /\ Fills /\ Waiting(job.posted) /\ Gone
      BY <1>7, <1>8, <1>15, <2>1 DEF Accepts, Storing, Fills
    <3>2. Gone' /\ Waiting(job.posted)'
      BY <1>1, <1>2, <1>3, <3>1 DEF Gone, Fresh, Waiting
    <3>3. Fills'
      BY <1>1, <2>1, <3>1, <3>2 DEF Fills
    <3>5. Storing'
      BY <1>1, <2>1, <3>1, <3>3 DEF Storing
    <3>4. Accepts'
      BY <1>1, <1>2, <1>3, <1>15, <2>1, <3>5 DEF Accepts, Fresh
    <3> QED
      BY <1>4, <3>4 DEF Kept, Places
  <2>2. CASE pc = "discard"
    BY <1>5, <1>6, <1>8, <1>15, <2>2 DEF Accepts, Throws
  <2> QED
    BY <1>1, <1>15, <2>1, <2>2 DEF Accepts, Waits
<1>16. CASE Stale
  <2>1. Stale'
    BY <1>1, <1>2, <1>3, <1>16 DEF Stale, Fresh, Unsigned, Answering
  <2> QED
    BY <1>4, <2>1 DEF Kept, Places
<1>17. CASE Doomed
  <2>1. Doomed'
    BY <1>1, <1>2, <1>3, <1>17 DEF Doomed, Fresh, Signed, Answering
  <2> QED
    BY <1>4, <2>1 DEF Kept, Places
<1> QED
  BY <1>1, <1>4, <1>11, <1>12, <1>13, <1>14, <1>15, <1>16, <1>17
  DEF Kept, Places, Ended, Waits, Terminal

LEMMA EpOperationKept ==
  ASSUME Kept, EpOperation, Tame' PROVE Kept'
<1>1. /\ pc \in Waits /\ ~WaitOver /\ events' = <<>>
      /\ UNCHANGED <<outq, inq, bufs, pc, state, lun, cmd, job, queued, ignore, units, timeouts,
                     part, host, asleep, upsets>>
  BY DEF EpOperation
<1>2. Sorts
  BY DEF Kept, Sane
<1>3. /\ tx' \in TxKind /\ res' \in {"ok", "error"}
      /\ NoOut(events) => tx'["out"] = tx["out"] /\ res' = "ok"
      /\ NoneCame(events) => tx'["out"] = tx["out"]
      /\ \A r \in Int : OneOut(events, r) =>
           tx'["out"] = [count |-> 0, bytes |-> tx["out"].bytes - r] /\ res' = "ok"
      /\ tx'["out"].bytes <= tx["out"].bytes
      /\ Missing(events) => tx'["out"].bytes < tx["out"].bytes
      /\ (\A i \in 1 .. Len(events) : events[i].ep # "reset") => bulkReset' = bulkReset
  BY <1>2, WaitHandles
<1>4. Len(events') = 0 /\ NoOut(events') /\ NoneCame(events') /\ events' \in Seq(Event)
  BY <1>1 DEF NoOut, NoneCame
<1>5. Sane'
  <2>1. Sorts'
    BY <1>1, <1>2, <1>3, <1>4 DEF Sorts
  <2> QED
    BY <1>1, <1>3, <1>4, <2>1 DEF Kept, Sane, Fresh, Terminal
<1>6. res = "ok" /\ (pc \in {"cbw", "fill", "discard"} => tx["out"].count # 0)
  BY <1>1 DEF WaitOver, Way
<1>7. ASSUME NEW n, Waiting(n)
      PROVE  res' = "ok" /\ outq' = <<n>> /\ tx'["out"] = [count |-> 1, bytes |-> n]
  BY <1>1, <1>3, <1>7 DEF Waiting
<1>8. ASSUME NEW n \in Int, NEW m \in Int, Came(n, m), pc \in {"cbw", "fill", "discard"}
      PROVE  outq' = <<>> /\ tx'["out"] = [count |-> 0, bytes |-> m] /\ res' = "ok" /\ pc' # "top"
  <2>1. PICK r \in Int : r = n - m
    OBVIOUS
  <2>2. outq = <<>> /\ tx["out"] = [count |-> 1, bytes |-> n] /\ OneOut(events, r)
    BY <1>6, <1>8, <2>1 DEF Came
  <2>3. tx'["out"] = [count |-> 0, bytes |-> tx["out"].bytes - r] /\ res' = "ok"
    BY <1>3, <2>2
  <2>4. tx["out"].bytes - r = m
    BY <2>1, <2>2
  <2> QED
    BY <1>1, <1>8, <2>2, <2>3, <2>4
<1>9. \A n : Sends(n) => Sends(n)'
  BY <1>1 DEF Sends, Gone, Fresh
<1>10. CASE Asks
  <2>1. Waiting(1)'
    BY <1>4, <1>7, <1>10 DEF Asks, Waiting
  <2>2. Asks'
    BY <1>1, <1>10, <2>1 DEF Asks, AtTop, Fresh, Closes
  <2> QED
    BY <1>5, <2>2 DEF Kept, Places
<1>11. CASE Heard
  <2>1. Came(1, 1) /\ pc = "cbw"
    BY <1>1, <1>11 DEF Heard, AtTop, Waits
  <2>2. Came(1, 1)'
    BY <1>4, <1>8, <2>1 DEF Came
  <2>3. Heard'
    BY <1>1, <1>11, <2>2 DEF Heard, AtTop, Fresh, Phase
  <2> QED
    BY <1>5, <2>3 DEF Kept, Places
<1>12. CASE Deaf
  <2>1. Deaf'
    BY <1>1, <1>3, <1>4, <1>12 DEF Deaf, AtTop
  <2> QED
    BY <1>5, <2>1 DEF Kept, Places
<1>13. CASE Parted
  <2>1. Parted'
    BY <1>1, <1>4, <1>13 DEF Parted, Clear, Fresh, Closes, Takes, ToCome
  <2> QED
    BY <1>5, <2>1 DEF Kept, Places
<1>14. CASE Accepts /\ pc = "fill"
  <2>1. Storing /\ Fills /\ job.posted \in 1 .. Buffer
    BY <1>14 DEF Accepts, Storing, Fills
  <2>2. PICK n \in Int : n = job.posted
    BY <2>1 DEF Buffer, Sector
  <2>3. \/ Waiting(job.posted)' /\ res' = "ok" /\ Waiting(job.posted)
        \/ Came(job.posted, job.posted)' /\ res' = "ok" /\ Sends(job.left)' /\ Loaded'
        \/ Came(job.posted, 0)' /\ res' = "ok"
    <3>1. ASSUME Waiting(n) PROVE Waiting(job.posted)' /\ res' = "ok"
      BY <1>1, <1>4, <1>7, <2>2, <3>1 DEF Waiting
    <3>2. ASSUME Came(n, n) PROVE Came(job.posted, job.posted)' /\ res' = "ok"
      BY <1>1, <1>4, <1>8, <1>14, <2>2, <3>2 DEF Came
    <3>3. ASSUME Came(n, 0) PROVE Came(job.posted, 0)' /\ res' = "ok"
      BY <1>1, <1>4, <1>8, <1>14, <2>2, <3>3 DEF Came
    <3>4. Sends(job.left) => Sends(job.left)'
      BY <1>1 DEF Sends, Gone, Fresh
    <3>5. Loaded => Loaded'
      BY <1>1 DEF Loaded
    <3>6. Waiting(n) \/ (Came(n, n) /\ Sends(job.left) /\ Loaded) \/ Came(n, 0)
      BY <2>1, <2>2 DEF Fills
    <3> QED
      BY <2>2, <3>1, <3>2, <3>3, <3>4, <3>5, <3>6
  <2>4. Waiting(job.posted) /\ Waiting(job.posted)' =>
          (Gone \/ (host.phase = "out" /\ host.left = job.left + job.posted))'
    <3>1. (~Came(n, n) /\ ~Came(n, 0)) \/ ~Waiting(n)
      BY <2>2 DEF Came, Waiting
    <3>2. Waiting(n) => Gone \/ (host.phase = "out" /\ host.left = job.left + job.posted)
      BY <2>1, <2>2, <3>1 DEF Fills
    <3>3. Gone => Gone'
      BY <1>1 DEF Gone, Fresh
    <3> QED
      BY <1>1, <2>2, <3>2, <3>3
  <2>5. Fills'
    BY <1>1, <2>1, <2>3, <2>4 DEF Fills
  <2>6. Storing'
    BY <1>1, <1>14, <2>1, <2>5 DEF Storing
  <2>7. Accepts'
    BY <1>1, <1>14, <2>6 DEF Accepts, Fresh
  <2> QED
    BY <1>5, <2>7 DEF Kept, Places
<1>15. CASE Accepts /\ pc = "discard"
  <2>1. Throws
    BY <1>15 DEF Accepts
  <2>2. Throws'
    <3>1. CASE \E n \in 1 .. EpMax : Waiting(n) /\ Whole(n) /\ host.phase = "out"
      <4>1. PICK n \in 1 .. EpMax : Waiting(n) /\ Whole(n) /\ host.phase = "out"
        BY <3>1
      <4>2. Waiting(n)' /\ res' = "ok"
        BY <1>4, <1>7, <4>1 DEF Waiting
      <4> QED
        BY <1>1, <4>1, <4>2 DEF Throws
    <3>2. CASE outq = <<>> /\ \E r \in Nat : OneOut(events, r)
      <4>0. PICK r \in Nat : OneOut(events, r)
        BY <3>2
      <4>1. tx'["out"] = [count |-> 0, bytes |-> tx["out"].bytes - r] /\ res' = "ok"
        BY <1>3, <4>0
      <4> QED
        BY <1>1, <1>4, <3>2, <4>1 DEF Throws, Clear
    <3> QED
      BY <1>6, <1>15, <2>1, <3>1, <3>2 DEF Throws
  <2>3. Accepts'
    BY <1>1, <1>15, <2>2 DEF Accepts, Fresh
  <2> QED
    BY <1>5, <2>3 DEF Kept, Places
<1>16. CASE Stale
  <2>1. Stale'
    BY <1>1, <1>3, <1>4, <1>16 DEF Stale, Fresh, Unsigned, Answering
  <2> QED
    BY <1>5, <2>1 DEF Kept, Places
<1>17. CASE Doomed
  <2>1. pc = "fill" => Came(job.posted, 1)'
    <3>1. ASSUME pc = "fill" PROVE Came(job.posted, 1)'
      <4>1. Came(job.posted, 1) /\ job.posted \in 1 .. Buffer
        BY <1>6, <1>17, <3>1 DEF Doomed
      <4>2. PICK n \in Int : n = job.posted
        BY <4>1 DEF Buffer, Sector
      <4>3. outq' = <<>> /\ tx'["out"] = [count |-> 0, bytes |-> 1] /\ res' = "ok" /\ pc' # "top"
        BY <1>8, <3>1, <4>1, <4>2
      <4> QED
        BY <1>4, <4>3 DEF Came
    <3> QED
      BY <3>1
  <2>2. queued => /\ tx'["out"].bytes <= 1
                  /\ \/ bufs[OutBuf][1] # "cbw" \/ tx'["out"].bytes <= 0
                     \/ tx'["out"].count = 1
    <3>1. tx'["out"].bytes \in Int /\ tx["out"].bytes \in Int
      BY <1>2, <1>3 DEF Sorts, TxKind
    <3>2. queued => /\ tx["out"].bytes <= 1
                    /\ bufs[OutBuf][1] # "cbw" \/ tx["out"].bytes <= 0 \/ tx["out"].count = 1
      BY <1>17 DEF Doomed
    <3>3. bufs[OutBuf][1] # "cbw" \/ NoneCame(events) \/ Missing(events)
      BY <1>17 DEF Doomed
    <3> QED
      BY <1>3, <3>1, <3>2, <3>3
  <2>3. Doomed'
    BY <1>1, <1>4, <1>17, <2>1, <2>2 DEF Doomed, Fresh, Signed, Answering
  <2> QED
    BY <1>5, <2>3 DEF Kept, Places
<1> QED
  BY <1>1, <1>5, <1>10, <1>11, <1>12, <1>13, <1>14, <1>15, <1>16, <1>17
  DEF Kept, Places, Accepts, Ended, Waits, Terminal

\* What is posted.
LEMMA InPosted ==
  ASSUME Sorts, NEW from \in Memory, NEW len \in Nat, PostIn(from, len),
         NEW t, t = [from |-> from, len |-> len]
  PROVE  /\ tx' \in TxKind /\ tx'["out"] = tx["out"] /\ t \in InTrb
         /\ inq' = Append(inq, t) /\ inq' \in Seq(InTrb) /\ Len(inq) \in Nat
         /\ Len(inq') = Len(inq) + 1 /\ inq'[Len(inq) + 1] = t
         /\ \A i \in 1 .. Len(inq) : inq'[i] = inq[i]
         /\ inq = <<>> => Len(inq') = 1
<1>1. tx' = [tx EXCEPT !["in"] = [count |-> 1, bytes |-> len]] /\ inq' = Append(inq, t)
  BY DEF PostIn
<1>2. t \in InTrb
  BY DEF InTrb
<1>3. [count |-> 1, bytes |-> len] \in [count : {0, 1}, bytes : Int]
  OBVIOUS
<1>4. inq \in Seq(InTrb) /\ tx \in TxKind
  BY DEF Sorts
<1>5. tx' \in TxKind /\ tx'["out"] = tx["out"]
  BY <1>1, <1>3, <1>4 DEF TxKind
<1>6. /\ inq' \in Seq(InTrb) /\ Len(inq) \in Nat
      /\ Len(inq') = Len(inq) + 1 /\ inq'[Len(inq) + 1] = t
      /\ \A i \in 1 .. Len(inq) : inq'[i] = inq[i]
  BY <1>1, <1>2, <1>4
<1> QED
  BY <1>1, <1>2, <1>5, <1>6

LEMMA OutPosted ==
  ASSUME Sorts, NEW n \in Nat \ {0}, PostOut(n)
  PROVE  /\ tx' \in TxKind /\ tx'["out"] = [count |-> 1, bytes |-> n]
         /\ outq' \in Seq(Nat \ {0})
         /\ outq = <<>> => outq' = <<n>>
         /\ outq # <<>> => outq' # <<>> /\ outq'[1] = outq[1]
<1>1. tx' = [tx EXCEPT !["out"] = [count |-> 1, bytes |-> n]] /\ outq' = Append(outq, n)
  BY DEF PostOut
<1>2. [count |-> 1, bytes |-> n] \in [count : {0, 1}, bytes : Int]
  OBVIOUS
<1>3. outq \in Seq(Nat \ {0}) /\ tx \in TxKind
  BY DEF Sorts
<1>4. tx' \in TxKind /\ tx'["out"] = [count |-> 1, bytes |-> n]
  BY <1>1, <1>2, <1>3 DEF TxKind
<1>5. outq' \in Seq(Nat \ {0})
  BY <1>1, <1>3
<1>6. outq = <<>> => outq' = <<n>>
  BY <1>1
<1>7. outq # <<>> => outq' # <<>> /\ outq'[1] = outq[1]
  BY <1>1, <1>3
<1> QED
  BY <1>4, <1>5, <1>6, <1>7

\* A status is posted, under the tag of the job.
LEMMA StatusSent ==
  ASSUME Sorts, Shape, SendStatus, UNCHANGED <<outq, events, host>>
  PROVE  /\ Sorts' /\ tx'["out"] = tx["out"] /\ pc' = "status"
         /\ Takes(0) => Closes'
         /\ bufs'[OutBuf] = bufs[OutBuf] \/ bufs'[OutBuf][1] # "cbw"
         /\ (\A i \in 1 .. Len(inq) : ~Unsigned(inq[i])) /\ job.tag = host.tag =>
              (\A i \in 1 .. Len(inq) : ~Unsigned(inq[i]))'
         /\ (\A i \in 1 .. Len(inq) : ~Signed(inq[i])) /\ job.tag # host.tag =>
              (\A i \in 1 .. Len(inq) : ~Signed(inq[i]))'
<1>1. PICK v : v = <<"csw", job.tag, Status, job.residue>>
  OBVIOUS
<1>2. v[1] = "csw" /\ v[2] = job.tag
  BY <1>1
<1>3. job.from \in Memory /\ inq \in Seq(InTrb) /\ job' = [job EXCEPT !.len = 1]
  BY DEF Sorts, Memory, InBuf, OutBuf, SendStatus
<1>4. PICK t : t = [from |-> job.from, len |-> 1]
  OBVIOUS
<1>5. PostIn(job.from, 1) /\ pc' = "status" /\ bufs' = [bufs EXCEPT ![job.from] = v]
  BY <1>1 DEF SendStatus
<1>6. /\ tx' \in TxKind /\ tx'["out"] = tx["out"] /\ t \in InTrb
      /\ inq' = Append(inq, t) /\ inq' \in Seq(InTrb) /\ Len(inq) \in Nat
      /\ Len(inq') = Len(inq) + 1 /\ inq'[Len(inq) + 1] = t
      /\ \A i \in 1 .. Len(inq) : inq'[i] = inq[i]
      /\ inq = <<>> => Len(inq') = 1
  BY <1>3, <1>4, <1>5, InPosted
<1>7. Sorts'
  BY <1>3, <1>6 DEF Sorts, NoJob
<1>8. \A b \in Memory : bufs'[b] = IF b = job.from THEN v ELSE bufs[b]
  BY <1>3, <1>5 DEF Shape
<1>9. \A i \in 1 .. Len(inq') : i = Len(inq) + 1 \/ i \in 1 .. Len(inq)
  BY <1>6
<1>10. \A i \in 1 .. Len(inq') : inq'[i] = t \/ (i \in 1 .. Len(inq) /\ inq'[i] = inq[i])
  BY <1>6, <1>9
<1>11. \A i \in 1 .. Len(inq) : inq[i].from \in Memory
  <2>1. \A i \in 1 .. Len(inq) : inq[i] \in InTrb
    BY <1>3
  <2> QED
    BY <2>1 DEF InTrb
<1>12. \A i \in 1 .. Len(inq') :
         \/ bufs'[inq'[i].from] = v
         \/ i \in 1 .. Len(inq) /\ bufs'[inq'[i].from] = bufs[inq[i].from]
  BY <1>3, <1>4, <1>8, <1>10, <1>11
<1>13. ASSUME \A i \in 1 .. Len(inq) : ~Unsigned(inq[i]), job.tag = host.tag
       PROVE  (\A i \in 1 .. Len(inq) : ~Unsigned(inq[i]))'
  BY <1>2, <1>12, <1>13 DEF Unsigned
<1>14. ASSUME \A i \in 1 .. Len(inq) : ~Signed(inq[i]), job.tag # host.tag
       PROVE  (\A i \in 1 .. Len(inq) : ~Signed(inq[i]))'
  BY <1>2, <1>12, <1>14 DEF Signed
<1>15. Takes(0) => Closes'
  BY <1>3, <1>6 DEF Takes, Closes
<1>16. bufs'[OutBuf] = bufs[OutBuf] \/ bufs'[OutBuf][1] # "cbw"
  BY <1>2, <1>8 DEF Memory, OutBuf
<1> QED
  BY <1>5, <1>6, <1>7, <1>13, <1>14, <1>15, <1>16

\* The head of the loop.
LEMMA HandleExceptionKept ==
  ASSUME Kept, Shape, HandleException, Tame' PROVE Kept'
<1>1. /\ pc = "top" /\ state # "normal" /\ lun # 0 /\ state' = "normal"
      /\ ignore' = (ignore /\ state # "reset")
      /\ UNCHANGED <<outq, events, bulkReset, lun, cmd, queued, timeouts, part, host, asleep,
                     upsets>>
  BY DEF HandleException
<1>2. Sane
  BY DEF Kept
<1>3. CASE state = "abort"
  <2>1. SendStatus
    BY <1>3 DEF HandleException
  <2>2. /\ Sorts' /\ tx'["out"] = tx["out"] /\ pc' = "status"
        /\ Takes(0) => Closes'
        /\ bufs'[OutBuf] = bufs[OutBuf] \/ bufs'[OutBuf][1] # "cbw"
        /\ (\A i \in 1 .. Len(inq) : ~Unsigned(inq[i])) /\ job.tag = host.tag =>
             (\A i \in 1 .. Len(inq) : ~Unsigned(inq[i]))'
        /\ (\A i \in 1 .. Len(inq) : ~Signed(inq[i])) /\ job.tag # host.tag =>
             (\A i \in 1 .. Len(inq) : ~Signed(inq[i]))'
    BY <1>1, <1>2, <2>1, StatusSent DEF Sane
  <2>3. Sane'
    BY <1>1, <1>2, <2>2 DEF Sane, Fresh
  <2>4. CASE Parted
    <3>1. Fresh => Takes(0)
      BY <1>1, <1>3, <2>4 DEF Parted, ToCome
    <3>2. Parted'
      BY <1>1, <1>3, <2>2, <2>4, <3>1 DEF Parted, Clear, Fresh
    <3> QED
      BY <2>3, <3>2 DEF Kept, Places
  <2>5. CASE Stale
    <3>1. Stale'
      BY <1>1, <1>3, <2>2, <2>5 DEF Stale, Fresh, Answering, Tails
    <3> QED
      BY <2>3, <3>1 DEF Kept, Places
  <2>6. CASE Doomed
    <3>1. Doomed'
      BY <1>1, <1>3, <2>2, <2>6 DEF Doomed, Fresh, Answering, Tails
    <3> QED
      BY <2>3, <3>1 DEF Kept, Places
  <2> QED
    BY <1>1, <1>3, <2>4, <2>5, <2>6 DEF Kept, Places, Asks, Heard, Deaf, AtTop, Accepts, Ended, Terminal
<1>4. CASE state # "abort" /\ state # "exit"
  <2>1. pc' = "top" /\ UNCHANGED <<bufs, inq, tx, res, job>>
    BY <1>1, <1>4 DEF HandleException
  <2>2. Sane'
    <3>1. Sorts'
      BY <1>1, <1>2, <2>1, SortsKept DEF Sane
    <3> QED
      BY <1>1, <1>2, <2>1, <3>1 DEF Sane, Fresh
  <2>3. ~Fresh
    BY <1>1, <1>2, <1>4, StatesAre DEF Sane, Shape
  <2>4. CASE Asks
    BY <1>1, <1>4, <2>1, <2>2, <2>3, <2>4 DEF Kept, Places, Asks, AtTop, Waiting, Fresh
  <2>5. CASE Heard
    <3>1. Came(1, 1)'
      BY <1>1, <2>1, <2>5 DEF Heard, Came
    <3>2. Heard'
      BY <1>1, <1>4, <2>1, <2>3, <2>5, <3>1 DEF Heard, AtTop, Fresh
    <3> QED
      BY <2>2, <3>2 DEF Kept, Places
  <2>6. CASE Deaf
    BY <1>1, <1>4, <2>1, <2>2, <2>6 DEF Kept, Places, Deaf, AtTop
  <2>7. CASE Parted
    <3>1. Parted'
      BY <1>1, <1>4, <2>1, <2>3, <2>7 DEF Parted, Clear, Fresh
    <3> QED
      BY <2>2, <3>1 DEF Kept, Places
  <2>8. CASE Stale
    <3>1. Stale'
      BY <1>1, <1>4, <2>1, <2>8 DEF Stale, Fresh, Answering, Unsigned
    <3> QED
      BY <2>2, <3>1 DEF Kept, Places
  <2>9. CASE Doomed
    <3>1. Doomed'
      BY <1>1, <1>4, <2>1, <2>9 DEF Doomed, Fresh, Answering, Signed
    <3> QED
      BY <2>2, <3>1 DEF Kept, Places
  <2> QED
    BY <1>1, <1>4, <2>4, <2>5, <2>6, <2>7, <2>8, <2>9 DEF Kept, Places, Accepts, Ended, Terminal
<1>5. CASE state = "exit"
  <2>1. pc' = "end" /\ UNCHANGED <<bufs, inq, tx, res, job>>
    BY <1>1, <1>5 DEF HandleException
  <2>2. Sorts'
    BY <1>1, <1>2, <2>1, SortsKept DEF Sane
  <2> QED
    BY <1>1, <1>2, <2>1, <2>2 DEF Kept, Places, Ended, Sane, Fresh, Terminal
<1> QED
  BY <1>3, <1>4, <1>5

LEMMA EndKept ==
  ASSUME Kept, pc' \in Terminal,
         UNCHANGED <<outq, inq, events, tx, bulkReset, job, host, state, lun, part, upsets>>
  PROVE  Kept'
<1>1. Sorts'
  BY SortsKept DEF Kept, Sane
<1> QED
  BY <1>1 DEF Kept, Places, Ended, Sane, Fresh

LEMMA PastLunsKept == ASSUME Kept, PastLuns \/ Buttons PROVE Kept'
<1>1. /\ pc' \in Terminal
      /\ UNCHANGED <<outq, inq, events, tx, bulkReset, job, host, state, lun, part, upsets>>
  BY DEF PastLuns, Buttons, Terminal, bus
<1> QED
  BY <1>1, EndKept

LEMMA GetCommandKept ==
  ASSUME Kept, Shape, GetCommand PROVE Kept'
<1>1. /\ pc = "top" /\ state = "normal" /\ state' = Ep0(state) /\ bulkReset' = FALSE
      /\ queued' = TRUE /\ pc' = "cbw" /\ res' = "ok"
      /\ UNCHANGED <<inq, events, bufs, lun, cmd, job, ignore, units, timeouts, part, host, asleep,
                     upsets>>
  BY DEF GetCommand
<1>2. Sane
  BY DEF Kept
<1>3. state' # "abort" /\ (Fresh => state' = "normal")
  BY <1>1, <1>2 DEF Ep0, Raised, Rank, Sane
<1>4. ASSUME Sorts' PROVE Sane'
  BY <1>1, <1>2, <1>3, <1>4 DEF Sane, Fresh
<1>5. CASE queued
  <2>1. UNCHANGED <<outq, tx>>
    BY <1>1, <1>5 DEF GetCommand
  <2>2. Sane'
    BY <1>1, <1>2, <1>4, <2>1, SortsKept DEF Sane
  <2>3. CASE Asks
    BY <1>1, <1>3, <2>1, <2>2, <2>3 DEF Kept, Places, Asks, AtTop, Waiting, Fresh, Closes
  <2>4. CASE Heard
    <3>1. Came(1, 1)'
      BY <1>1, <2>1, <2>4 DEF Heard, Came
    <3>2. Heard'
      BY <1>1, <1>3, <2>1, <2>4, <3>1 DEF Heard, AtTop, Fresh, Phase
    <3> QED
      BY <2>2, <3>2 DEF Kept, Places
  <2>5. CASE Deaf
    BY <1>1, <1>3, <2>1, <2>2, <2>5 DEF Kept, Places, Deaf, AtTop
  <2>6. CASE Stale
    <3>1. Stale'
      BY <1>1, <1>3, <1>5, <2>1, <2>6 DEF Stale, Fresh, Answering, Unsigned, Tails
    <3> QED
      BY <2>2, <3>1 DEF Kept, Places
  <2>7. CASE Doomed
    <3>1. Doomed'
      BY <1>1, <1>3, <1>5, <2>1, <2>7 DEF Doomed, Fresh, Answering, Signed, Tails
    <3> QED
      BY <2>2, <3>1 DEF Kept, Places
  <2> QED
    BY <1>1, <1>5, <2>3, <2>4, <2>5, <2>6, <2>7 DEF Kept, Places, Parted, Accepts, Ended, Terminal
<1>6. CASE ~queued
  <2>1. /\ tx' \in TxKind /\ tx'["out"] = [count |-> 1, bytes |-> 1]
        /\ outq' \in Seq(Nat \ {0})
        /\ outq = <<>> => outq' = <<1>>
        /\ outq # <<>> => outq' # <<>> /\ outq'[1] = outq[1]
    BY <1>1, <1>2, <1>6, OutPosted DEF Sane, GetCommand
  <2>2. Sane'
    BY <1>1, <1>2, <1>4, <2>1 DEF Sane, Sorts
  <2>3. CASE Parted
    <3>1. Waiting(1)'
      BY <1>1, <2>1, <2>3 DEF Parted, Clear, Waiting
    <3>2. Asks'
      BY <1>1, <1>3, <2>3, <3>1 DEF Parted, Asks, AtTop, Fresh, Closes
    <3> QED
      BY <2>2, <3>2 DEF Kept, Places
  <2>4. CASE Stale
    <3>1. Stale'
      BY <1>1, <1>3, <2>1, <2>4 DEF Stale, Fresh, Answering, Unsigned, Tails
    <3> QED
      BY <2>2, <3>1 DEF Kept, Places
  <2>5. CASE Doomed
    <3>1. Doomed'
      BY <1>1, <1>3, <2>1, <2>5 DEF Doomed, Fresh, Answering, Signed, Tails
    <3> QED
      BY <2>2, <3>1 DEF Kept, Places
  <2> QED
    BY <1>1, <1>6, <2>3, <2>4, <2>5
    DEF Kept, Places, Asks, Heard, Deaf, AtTop, Accepts, Ended, Terminal
<1> QED
  BY <1>5, <1>6

\* A wait for a command block that came to nothing.
LEMMA NoneReceivedKept ==
  ASSUME Kept, Shape, NoneReceived PROVE Kept'
<1>1. /\ pc = "cbw" /\ WaitOver /\ pc' = "top" /\ state' \in {state, "exit"}
      /\ res # "ok" \/ ignore \/ Actual # 1 \/ bufs[OutBuf][1] # "cbw"
      /\ UNCHANGED <<outq, inq, events, tx, bulkReset, bufs, res, lun, cmd, job, units, part, host,
                     asleep, upsets>>
  <2>1. Raised(state, "exit") = "exit"
    BY StatesAre DEF Raised, Rank, Shape
  <2> QED
    BY <2>1 DEF NoneReceived, bus
<1>2. \/ res = "ok" /\ ~ignore /\ ignore' = TRUE /\ queued' = FALSE
      \/ (res # "ok" \/ ignore) /\ UNCHANGED <<ignore, queued>>
  BY DEF NoneReceived
<1>3. Sane'
  <2>1. Sorts'
    BY <1>1, SortsKept DEF Kept, Sane
  <2> QED
    BY <1>1, <2>1 DEF Kept, Sane, Fresh
<1>4. CASE state' = "exit"
  BY <1>1, <1>3, <1>4 DEF Kept, Places, Ended
<1>5. CASE state' = state /\ state # "exit"
  <2>1. tx["out"].count = 1 => res # "ok"
    BY <1>1 DEF WaitOver, Way
  <2>0. res # "ok" => ignore' = ignore /\ queued' = queued
    BY <1>2
  <2>2. CASE Asks
    <3>1. Waiting(1)' /\ res # "ok"
      BY <1>1, <2>1, <2>2 DEF Asks, Waiting
    <3>2. Asks'
      BY <1>1, <1>5, <2>0, <2>2, <3>1 DEF Asks, AtTop, Fresh, Closes
    <3> QED
      BY <1>3, <3>2 DEF Kept, Places
  <2>3. CASE Heard
    <3>1. res # "ok"
      BY <1>1, <2>1, <2>3 DEF Heard, Came, Actual, Way
    <3>2. Came(1, 1)'
      BY <1>1, <2>3, <3>1 DEF Heard, Came
    <3>3. Heard'
      BY <1>1, <1>5, <2>0, <2>3, <3>1, <3>2 DEF Heard, AtTop, Fresh, Phase
    <3> QED
      BY <1>3, <3>3 DEF Kept, Places
  <2>4. CASE Deaf
    BY <1>1, <1>2, <1>3, <1>5, <2>1, <2>4 DEF Kept, Places, Deaf, AtTop
  <2>5. CASE Stale
    <3>1. Stale'
      BY <1>1, <1>2, <1>5, <2>1, <2>5 DEF Stale, Fresh, Answering, Unsigned, Tails
    <3> QED
      BY <1>3, <3>1 DEF Kept, Places
  <2>6. CASE Doomed
    <3>1. Doomed'
      BY <1>1, <1>2, <1>5, <2>6 DEF Doomed, Fresh, Answering, Signed, Tails
    <3> QED
      BY <1>3, <3>1 DEF Kept, Places
  <2> QED
    BY <1>1, <1>5, <2>2, <2>3, <2>4, <2>5, <2>6 DEF Kept, Places, Parted, Accepts, Ended, Terminal
<1> QED
  BY <1>1, <1>4, <1>5

\* The partition follows the volume.
LEMMA SwitchedRight ==
  ASSUME Sane, NEW l, Switched(l), lun' = l, Tame', l # 0
  PROVE  Luns[lun'].part \in {"sd", part'} /\ upsets' = upsets
<1>1. part' = (IF l = lun \/ Luns[l].part = "sd" THEN part ELSE Luns[l].part) /\ upsets' = upsets
  BY TameUpset DEF Switched
<1> QED
  BY <1>1 DEF Sane

\* A command block is received.
LEMMA ReceivedKept ==
  ASSUME Kept, Shape, Received, Tame' PROVE Kept'
<1>1. PICK c, u : c = bufs[OutBuf][2] /\ u = units[c.lun]
  OBVIOUS
<1>2. /\ pc = "cbw" /\ WaitOver /\ res = "ok" /\ ~ignore /\ Actual = 1 /\ bufs[OutBuf][1] = "cbw"
      /\ Switched(c.lun) /\ lun' = c.lun /\ queued' = FALSE
      /\ UNCHANGED <<outq, inq, events, tx, res, ignore, host, asleep>>
  BY <1>1 DEF Received
<1>3. tx["out"].count = 0 /\ tx["out"].bytes = 1
  BY <1>2 DEF WaitOver, Actual, Way
<1>4. Heard
  <2>1. ~Asks /\ ~Deaf
    BY <1>3 DEF Asks, Waiting, Deaf
  <2>2. ~Stale
    BY <1>2, <1>3 DEF Stale
  <2>3. ~Doomed
    BY <1>2, <1>3 DEF Doomed
  <2> QED
    BY <1>2, <2>1, <2>2, <2>3 DEF Kept, Places, Parted, Accepts, Ended, Terminal
<1>5. /\ c = host.cmd /\ c \in Commands /\ bufs[OutBuf][3] = host.tag
      /\ outq = <<>> /\ NoOut(events) /\ state # "abort"
      /\ Fresh => inq = <<>> /\ host.left = c.size /\ host.phase = Phase(c, host.left)
      /\ c.dir = "out" => \/ host.phase = "out" /\ host.left = c.size
                          \/ host.phase = "idle" /\ inq = <<>>
  BY <1>1, <1>2, <1>3, <1>4 DEF Heard, Came, AtTop
<1>6. /\ c.size \in Nat /\ c.lba \in Nat /\ c.dir \in {"in", "out", "none"} /\ c.lun \in Lun
      /\ (c.size = 0 <=> c.dir = "none") /\ From(c) \in Nat /\ From(c) <= c.size
      /\ (c.op \in Moving \/ c.dir = "out" => Whole(c.size))
      /\ (c.op \in Moving => Whole(From(c)))
  BY <1>5, CommandIs
<1>7. u \in Unit /\ c.lun # 0
  BY <1>1, <1>6, GadgetAssumption, SMTT(60) DEF Shape, Lun
<1>8. Sane
  BY DEF Kept
<1>9. Luns[lun'].part \in {"sd", part'} /\ upsets' = upsets
  BY <1>2, <1>7, <1>8, SwitchedRight
<1>10. PICK s : s = IF (IF AllUnmounted THEN Tired ELSE 0) > Patience THEN Raised(state, "exit")
                    ELSE state
  OBVIOUS
<1>11. s \in {state, "exit"} /\ s \in States
  BY <1>10, StatesAre DEF Raised, Rank, Shape
<1>12. Clear'
  BY <1>2, <1>5 DEF Clear
<1>13. Fresh => state = "normal" /\ ~bulkReset /\ \A i \in 1 .. Len(events) : events[i].ep # "reset"
  BY <1>2, <1>8 DEF Sane, Terminal
<1>14. CASE s # "normal"
  <2>1. /\ pc' = "top" /\ state' = s /\ job' = [job EXCEPT !.tag = bufs[OutBuf][3]]
        /\ UNCHANGED <<cmd, units, bulkReset, bufs>>
    BY <1>1, <1>10, <1>14 DEF Received
  <2>2. Sorts'
    BY <1>2, <1>8, <2>1 DEF Sane, Sorts, NoJob
  <2>3. Sane'
    BY <1>2, <1>8, <1>9, <1>11, <1>13, <2>1, <2>2 DEF Sane, Fresh
  <2>4. s # "exit" => ~Fresh' /\ s # "abort"
    BY <1>5, <1>9, <1>11, <1>13, <1>14 DEF Fresh
  <2>5. CASE s = "exit"
    BY <2>1, <2>3, <2>5 DEF Kept, Places, Ended
  <2>6. CASE s # "exit"
    BY <1>2, <1>12, <2>1, <2>3, <2>4, <2>6 DEF Kept, Places, Parted
  <2> QED
    BY <2>5, <2>6
<1>15. CASE s = "normal"
  <2>1. /\ state' = Ep0(s) /\ bulkReset' = FALSE /\ cmd' = c
        /\ units' = [units EXCEPT ![c.lun] = UnitAfter(c, u)]
    BY <1>1, <1>10, <1>15 DEF Received
  <2>2. pc' = IF Transfers(c, u) THEN c.op ELSE "finish"
    BY <1>1, <1>10, <1>15 DEF Received, Transfers
  <2>3. job' = Begun(c, u)
    BY <1>1, <1>10, <1>15 DEF Received, Transfers, Begun, Replies
  <2>4. PICK r \in {0, 1} : /\ r = Replies(c, u) /\ r <= c.size
                            /\ (c.op \in Moving => r = 0) /\ (c.dir # "in" => r = 0)
    BY <1>5, ReplyIs
  <2>5. /\ DOMAIN job' = DOMAIN NoJob
        /\ job'.residue = c.size - r /\ job'.left = c.size
        /\ job'.from = job.from /\ job'.cur = InBuf /\ job'.short = FALSE /\ job'.tag = host.tag
        /\ job'.len = (IF c.dir = "in" /\ ~Transfers(c, u) THEN r ELSE job.len)
        /\ job'.lba = c.lba /\ job'.todo = (IF Transfers(c, u) THEN From(c) ELSE 0)
    BY <1>5, <2>3, <2>4, ZenonT(60) DEF Begun, NoJob
  <2>6. Sorts'
    BY <1>2, <1>6, <1>8, <2>5 DEF Sane, Sorts
  <2>7. Fresh => state' = "normal"
    BY <1>13, <1>15, <2>1 DEF Ep0
  <2>8. Sane'
    BY <1>2, <1>8, <1>9, <1>13, <2>1, <2>6, <2>7 DEF Sane, Fresh
  <2>9. Fresh' => inq' = <<>> /\ host'.left = c.size /\ host'.phase = Phase(c, c.size)
    BY <1>2, <1>5, <1>9 DEF Fresh
  <2>10. Fresh' /\ c.dir # "out" => Takes(c.size)'
    <3>1. Chain(<<>>, c.size, c.size)
      BY <1>6, ChainNone
    <3>2. ASSUME Fresh', c.dir # "out" PROVE Takes(c.size)'
      <4>1. CASE c.size = 0
        BY <2>9, <3>2, <4>1 DEF Takes, Phase
      <4>2. CASE c.size # 0
        BY <1>6, <2>9, <3>1, <3>2, <4>2 DEF Takes, Phase
      <4> QED
        BY <4>1, <4>2
    <3> QED
      BY <3>2
  <2>11. CASE c.dir # "out"
    <3>1. CASE Transfers(c, u)
      <4>1. c.op = "read" /\ c.op \in Moving /\ From(c) > 0 /\ c.dir = "in"
        BY <1>5, <1>7, <2>11, <3>1, BegunIs DEF Moving
      <4>2. r = 0
        BY <2>4, <4>1
      <4>3. pc' = "read" /\ job'.todo = From(c) /\ job'.residue = c.size
        BY <1>6, <2>2, <2>5, <3>1, <4>1, <4>2
      <4>4. Parted'
        BY <1>2, <1>6, <1>7, <1>12, <2>1, <2>10, <2>11, <4>1, <4>3 DEF Parted, ToCome
      <4> QED
        BY <2>8, <4>4 DEF Kept, Places
    <3>2. CASE ~Transfers(c, u)
      <4>1. /\ pc' = "finish" /\ job'.residue = c.size - r
            /\ c.dir = "in" => /\ job'.len = r /\ job'.residue >= 0
                               /\ job'.residue + job'.len = c.size /\ c.size > 0
        BY <1>6, <2>2, <2>4, <2>5, <3>2
      <4>2. ToCome' = c.size
        BY <1>6, <2>1, <2>11, <4>1 DEF ToCome
      <4>3. Parted'
        BY <1>2, <1>12, <2>1, <2>10, <2>11, <4>1, <4>2 DEF Parted
      <4> QED
        BY <2>8, <4>3 DEF Kept, Places
    <3> QED
      BY <3>1, <3>2
  <2>12. CASE c.dir = "out"
    <3>1. Whole(c.size) /\ (c.op # "read" \/ ~Transfers(c, u))
      BY <1>5, <1>6, <1>7, <2>12, BegunIs
    <3>2. Sends(job.left)'
      BY <1>2, <1>5, <1>9, <2>5, <2>9, <2>12 DEF Sends, Gone, Fresh, Phase
    <3>3. pc' = "write" => Storing'
      <4>1. ASSUME pc' = "write" PROVE Storing'
        <5>1. Transfers(c, u)
          BY <2>2, <4>1
        <5>2. ~Luns[c.lun].ro /\ ~UnitAfter(c, u).unmounted
          BY <1>5, <1>7, <2>2, <4>1, <5>1, BegunIs
        <5>3. units'[c.lun] = UnitAfter(c, u)
          BY <1>6, <2>1 DEF Shape
        <5>4. Asked' = 0
          BY <1>6, <2>1, <2>5 DEF Asked
        <5>5. Writes'
          BY <1>6, <1>12, <2>1, <2>5, <3>2, <5>4 DEF Writes, Sector
        <5>6. c.op = "write"
          BY <2>2, <4>1, <5>1
        <5> QED
          BY <1>2, <2>1, <4>1, <5>2, <5>3, <5>5, <5>6 DEF Storing
      <4> QED
        BY <4>1
    <3>4. pc' \in {"write", "finish"}
      BY <1>5, <1>7, <2>2, <3>1, BegunIs DEF Moving
    <3>5. Accepts'
      BY <1>2, <1>5, <1>6, <1>12, <2>1, <2>5, <2>9, <2>12, <3>2, <3>3, <3>4
      DEF Accepts, Phase, Storing
    <3> QED
      BY <2>8, <3>5 DEF Kept, Places
  <2> QED
    BY <2>11, <2>12
<1> QED
  BY <1>11, <1>14, <1>15

LEMMA LunIs ==
  ASSUME NEW l \in Lun PROVE Luns[l].sectors \in Nat \ {0}
<1> DEFINE V == [part : Parts, offset : Nat, sectors : Nat \ {0}, ro : BOOLEAN]
<1>1. Luns \in Seq(V)
  BY GadgetAssumption
<1> HIDE DEF V
<1>2. Luns[l] \in V
  BY <1>1 DEF Lun
<1> QED
  BY <1>2 DEF V

\* No access fails.
LEMMA AccessFine ==
  ASSUME NEW l, NEW ok \in BOOLEAN, Access(l, ok), Tame' PROVE ok /\ part' = part /\ upsets' = upsets
  BY TameUpset DEF Access

\* The host takes one more transfer.
LEMMA TakesMore ==
  ASSUME Sorts, NEW p, Takes(p), p > 0, NEW from \in Memory, NEW n \in Nat \ {0}, PostIn(from, n),
         NEW r \in Nat, r = p - n, Whole(n) \/ r = 0, UNCHANGED host
  PROVE  Takes(r)'
<1>1. PICK t : t = [from |-> from, len |-> n]
  OBVIOUS
<1>2. t \in InTrb /\ t.len = n /\ inq' = Append(inq, t) /\ inq \in Seq(InTrb)
  BY <1>1, InPosted DEF Sorts
<1>3. CASE host.phase = "in" /\ host.left > 0 /\ Chain(inq, host.left, p)
  <2>1. Chain(Append(inq, t), host.left, r)
    BY <1>2, <1>3, ChainAppend
  <2>2. Chain(inq', host'.left, r)
    BY <1>2, <2>1
  <2> QED
    BY <1>3, <2>2 DEF Takes
<1> QED
  BY <1>3 DEF Takes

\* The end of a volume.
LEMMA ReadPastEndKept ==
  ASSUME Kept, ReadPastEnd PROVE Kept'
<1>1. /\ pc = "read" /\ job' = [job EXCEPT !.len = 0] /\ pc' = "finish"
      /\ UNCHANGED <<outq, inq, events, tx, bulkReset, bufs, res, state, lun, cmd, queued, ignore,
                     timeouts, part, host, asleep, upsets>>
  BY DEF ReadPastEnd, bus
<1>2. Parted /\ Sane
  BY <1>1 DEF Kept, Places, Asks, Heard, Deaf, AtTop, Accepts, Stale, Doomed, Tails, Ended, Terminal
<1>3. Sorts'
  BY <1>1, <1>2 DEF Sane, Sorts, NoJob
<1>4. Sane'
  BY <1>1, <1>2, <1>3 DEF Sane, Fresh, Terminal
<1>5. /\ job'.residue = job.residue /\ job'.len = 0 /\ job.residue \in Int
      /\ cmd.dir = "in" /\ job.todo > 0 /\ job.todo <= job.residue /\ job.todo \in Nat
  BY <1>1, <1>2 DEF Sane, Sorts, Parted, NoJob
<1>6. ToCome' = ToCome
  BY <1>1, <1>5 DEF ToCome
<1>7. Fresh' => Takes(ToCome)'
  BY <1>1, <1>2, <1>6 DEF Parted, Fresh, Takes
<1>8. job'.residue >= 0 /\ job'.residue + job'.len > 0
  BY <1>5
<1>9. Parted'
  BY <1>1, <1>2, <1>5, <1>7, <1>8 DEF Parted, Clear
<1> QED
  BY <1>4, <1>9 DEF Kept, Places

LEMMA ReadAccessKept ==
  ASSUME Kept, Shape, ReadAccess, Tame' PROVE Kept'
<1>1. PICK n : n = ReadSize(job.todo, job.lba)
  OBVIOUS
<1>2. /\ pc = "read" /\ n > 0 /\ pc' = "sent" /\ res' = "ok"
      /\ UNCHANGED <<outq, inq, events, tx, bulkReset, state, lun, cmd, queued, ignore, units,
                     timeouts, host, asleep>>
  BY <1>1 DEF ReadAccess
<1>3. job' = [job EXCEPT !.len = n] /\ part' = part /\ upsets' = upsets
  <2>1. PICK ok \in BOOLEAN : Access(lun, ok) /\ job' = [job EXCEPT !.len = IF ok THEN n ELSE 0]
    BY <1>1 DEF ReadAccess
  <2> QED
    BY <2>1, AccessFine
<1>4. Parted /\ Sane
  BY <1>2 DEF Kept, Places, Asks, Heard, Deaf, AtTop, Accepts, Stale, Doomed, Tails, Ended, Terminal
<1>5. /\ job.todo \in Nat /\ job.todo > 0 /\ Whole(job.todo) /\ job.todo <= job.residue
      /\ lun \in Lun /\ job.lba \in Nat /\ cmd.dir = "in" /\ lun # 0
  BY <1>2, <1>4 DEF Parted, Sane, Sorts, Shape
<1>6. n \in Nat /\ Whole(n) /\ n <= job.todo
  <2>1. PICK d \in Int : d = Luns[lun].sectors - job.lba
    BY <1>5, LunIs
  <2>2. n = Least(Least(job.todo, Buffer), d * Sector)
    BY <1>1, <2>1 DEF ReadSize
  <2>3. n \in {job.todo, Buffer, d * Sector} /\ n <= job.todo /\ n \in Int
    BY <1>5, <2>2 DEF Least, Buffer, Sector
  <2>4. Whole(Buffer) /\ Whole(d * Sector)
    BY DEF Whole, Buffer, Sector
  <2> QED
    BY <1>2, <1>5, <2>3, <2>4
<1>7. Sorts'
  BY <1>2, <1>3, <1>4, <1>6 DEF Sane, Sorts, NoJob
<1>8. Sane'
  BY <1>2, <1>3, <1>4, <1>7 DEF Sane, Fresh, Terminal
<1>9. job'.residue = job.residue /\ job'.len = n /\ job'.todo = job.todo
  BY <1>3, <1>4 DEF Sane, Sorts, NoJob
<1>10. Fresh' => Takes(ToCome)'
  BY <1>2, <1>3, <1>4, <1>9 DEF Parted, Fresh, Takes, ToCome
<1>11. Parted'
  BY <1>2, <1>3, <1>4, <1>5, <1>6, <1>9, <1>10 DEF Parted, Clear
<1> QED
  BY <1>8, <1>11 DEF Kept, Places

LEMMA ReadSentKept ==
  ASSUME Kept, Shape, ReadSent PROVE Kept'
<1>1. PICK n : n = job.len
  OBVIOUS
<1>2. /\ pc = "sent"
      /\ UNCHANGED <<outq, events, bulkReset, bufs, res, state, lun, cmd, queued, ignore, timeouts,
                     part, host, asleep, upsets>>
  BY DEF ReadSent
<1>3. Parted /\ Sane
  BY <1>2 DEF Kept, Places, Asks, Heard, Deaf, AtTop, Accepts, Stale, Doomed, Tails, Ended, Terminal
<1>4. /\ job.todo \in Nat /\ job.todo > 0 /\ Whole(job.todo) /\ job.todo <= job.residue
      /\ job.residue \in Int /\ n \in Nat \ {0} /\ Whole(n) /\ n <= job.todo
      /\ cmd.dir = "in" /\ lun # 0 /\ job.cur \in Memory /\ job.cur \in {InBuf, OutBuf}
      /\ job.lba \in Nat
      /\ Fresh => Takes(job.residue)
  BY <1>1, <1>2, <1>3 DEF Parted, Sane, Sorts, Memory, InBuf, OutBuf, ToCome
<1>5. PICK d \in Nat : d = job.todo - n
  BY <1>4
<1>6. PICK e \in Nat : e = job.residue - n /\ d <= e
  BY <1>4, <1>5
<1>7. PICK a \in Nat : a = job.lba + n \div Sector
  <2>1. n \div Sector \in Nat
    BY <1>4 DEF Sector
  <2>2. job.lba + n \div Sector \in Nat
    BY <1>4, <2>1
  <2> QED
    BY <2>2
<1>8. Whole(d)
  BY <1>4, <1>5, WholeSum
<1>9. ASSUME Sorts', pc' # "status" PROVE Sane'
  BY <1>2, <1>3, <1>9 DEF Sane, Fresh, Terminal
<1>10. CASE d > 0
  <2>1. /\ PostIn(job.cur, n) /\ pc' = "read"
        /\ job' = [job EXCEPT !.todo = d, !.residue = e, !.from = job.cur, !.lba = a,
                              !.first = FALSE, !.cur = IF job.cur = InBuf THEN OutBuf ELSE InBuf]
    BY <1>1, <1>4, <1>5, <1>6, <1>7, <1>10 DEF ReadSent
  <2>2. tx' \in TxKind /\ tx'["out"] = tx["out"] /\ inq' \in Seq(InTrb)
    <3>1. PICK t : t = [from |-> job.cur, len |-> n]
      OBVIOUS
    <3> QED
      BY <1>3, <1>4, <2>1, <3>1, InPosted DEF Sane
  <2>3. /\ DOMAIN job' = DOMAIN NoJob /\ job'.todo = d /\ job'.residue = e /\ job'.lba = a
        /\ job'.from \in {InBuf, OutBuf} /\ job'.cur \in {InBuf, OutBuf}
        /\ job'.left = job.left /\ job'.len = n
    BY <1>1, <1>3, <1>4, <2>1 DEF Sane, Sorts, NoJob
  <2>4. Sorts'
    BY <1>2, <1>3, <1>4, <1>7, <2>2, <2>3 DEF Sane, Sorts
  <2>5. Fresh => Takes(e)'
    <3>1. PICK p \in Int : p = job.residue /\ p > 0 /\ e = p - n
      BY <1>4, <1>6
    <3>2. ASSUME Takes(p) PROVE Takes(e)'
      BY <1>2, <1>3, <1>4, <2>1, <3>1, <3>2, TakesMore DEF Sane
    <3> QED
      BY <1>4, <3>1, <3>2
  <2>6. ToCome' = e
    BY <2>1, <2>3 DEF ToCome
  <2>7. Fresh' => Takes(ToCome)'
    BY <1>2, <2>5, <2>6 DEF Fresh
  <2>8. Parted'
    BY <1>2, <1>3, <1>4, <1>6, <1>8, <1>10, <2>1, <2>2, <2>3, <2>7 DEF Parted, Clear
  <2> QED
    BY <1>9, <2>1, <2>4, <2>8 DEF Kept, Places
<1>11. CASE d = 0
  <2>1. /\ UNCHANGED <<inq, tx>> /\ pc' = "finish"
        /\ job' = [job EXCEPT !.todo = d, !.residue = e, !.from = job.cur, !.lba = a]
    BY <1>1, <1>4, <1>5, <1>6, <1>7, <1>11 DEF ReadSent
  <2>3. /\ DOMAIN job' = DOMAIN NoJob /\ job'.todo = d /\ job'.residue = e /\ job'.lba = a
        /\ job'.from \in {InBuf, OutBuf} /\ job'.cur \in {InBuf, OutBuf}
        /\ job'.left = job.left /\ job'.len = n
    BY <1>1, <1>3, <1>4, <2>1 DEF Sane, Sorts, NoJob
  <2>4. Sorts'
    BY <1>2, <1>3, <1>4, <1>7, <2>1, <2>3 DEF Sane, Sorts
  <2>5. ToCome' = job.residue
    BY <1>2, <1>4, <1>6, <2>1, <2>3 DEF ToCome
  <2>6. Fresh' => Takes(ToCome)'
    <3>1. PICK p : p = job.residue
      OBVIOUS
    <3>2. Takes(p) => Takes(p)'
      BY <1>2, <2>1 DEF Takes
    <3>3. Takes(p)' => Takes(ToCome)'
      BY <2>5, <3>1
    <3> QED
      BY <1>2, <1>4, <3>1, <3>2, <3>3 DEF Fresh
  <2>7. job'.residue >= 0 /\ job'.residue + job'.len > 0
    BY <1>4, <1>6, <2>3
  <2>8. Parted'
    BY <1>2, <1>3, <1>4, <2>1, <2>6, <2>7 DEF Parted, Clear
  <2> QED
    BY <1>9, <2>1, <2>4, <2>8 DEF Kept, Places
<1> QED
  BY <1>5, <1>10, <1>11

\* The end of a command.
LEMMA AtFinishing ==
  ASSUME Kept, Finishing, state' = Ep0(state), UNCHANGED finished, Sorts', pc' # "top"
  PROVE  /\ Sane' /\ (Parted \/ Accepts \/ Stale \/ Doomed)
         /\ cmd.dir # "out" => Parted
         /\ cmd.dir = "out" => ~Parted
<1>1. pc = "finish" /\ state = "normal" /\ bulkReset' = FALSE
  BY DEF Finishing
<1>2. Sane
  BY DEF Kept
<1>3. Fresh => state' = "normal"
  BY <1>1, <1>2 DEF Sane, Ep0
<1>4. Sane'
  BY <1>1, <1>2, <1>3 DEF Sane, Fresh, finished
<1> QED
  BY <1>1, <1>4
  DEF Kept, Places, Asks, Heard, Deaf, AtTop, Parted, Accepts, Stale, Doomed, Ended, Terminal

\* The steps of the end that only go on.
LEMMA FinishNothingKept ==
  ASSUME Kept, FinishNothing PROVE Kept'
<1>1. /\ Finishing /\ state' = Ep0(state) /\ pc' = "replied"
      /\ UNCHANGED <<outq, inq, tx, bufs, res, job>> /\ UNCHANGED finished
  BY DEF FinishNothing
<1>2. UNCHANGED <<events, lun, cmd, queued, ignore, host, upsets>> /\ pc = "finish"
  BY <1>1 DEF finished, Finishing
<1>3. Sorts'
  BY <1>1, <1>2, SortsKept DEF Kept, Sane
<1>4. /\ Sane' /\ (Parted \/ Accepts \/ Stale \/ Doomed)
      /\ cmd.dir # "out" => Parted
      /\ cmd.dir = "out" => ~Parted
  BY <1>1, <1>3, AtFinishing
<1>5. CASE Parted
  <2>1. cmd.dir = "none"
    BY <1>4, <1>5 DEF FinishNothing
  <2>2. Parted'
    BY <1>1, <1>2, <1>5, <2>1 DEF Parted, Clear, Fresh, ToCome, Takes
  <2> QED
    BY <1>4, <2>2 DEF Kept, Places
<1>6. CASE Accepts
  <2>1. Parted'
    BY <1>1, <1>2, <1>6 DEF Accepts, Parted, Clear, Fresh, ToCome, Takes
  <2> QED
    BY <1>4, <2>1 DEF Kept, Places
<1>7. CASE Stale
  <2>1. Stale'
    BY <1>1, <1>2, <1>7 DEF Stale, Tails, Fresh, Answering, Unsigned
  <2> QED
    BY <1>4, <2>1 DEF Kept, Places
<1>8. CASE Doomed
  <2>1. Doomed'
    BY <1>1, <1>2, <1>8 DEF Doomed, Tails, Fresh, Answering, Signed
  <2> QED
    BY <1>4, <2>1 DEF Kept, Places
<1> QED
  BY <1>4, <1>5, <1>6, <1>7, <1>8

LEMMA FinishReplyKept ==
  ASSUME Kept, FinishReply PROVE Kept'
<1>1. /\ Finishing /\ state' = Ep0(state) /\ cmd.dir = "in" /\ job.residue = 0
      /\ PostIn(job.from, job.len) /\ job' = [job EXCEPT !.left = 0] /\ pc' = "reply"
      /\ UNCHANGED <<outq, bufs>> /\ UNCHANGED finished
  BY DEF FinishReply
<1>2. UNCHANGED <<events, lun, cmd, queued, ignore, host, upsets>> /\ pc = "finish"
  BY <1>1 DEF finished, Finishing
<1>3. Sorts
  BY DEF Kept, Sane
<1>4. job.from \in Memory /\ job.len \in Nat
  BY <1>3 DEF Sorts, Memory, InBuf, OutBuf
<1>5. PICK t : t = [from |-> job.from, len |-> job.len]
  OBVIOUS
<1>6. tx' \in TxKind /\ tx'["out"] = tx["out"] /\ inq' \in Seq(InTrb)
  BY <1>1, <1>3, <1>4, <1>5, InPosted
<1>7. Sorts'
  BY <1>1, <1>2, <1>3, <1>6 DEF Sorts, NoJob
<1>8. Sane' /\ Parted
  BY <1>1, <1>7, AtFinishing
<1>9. job.len > 0
  BY <1>1, <1>2, <1>4, <1>8 DEF Parted
<1>10. Fresh' => Takes(ToCome)'
  <2>1. ToCome = job.len
    BY <1>1, <1>2, <1>4 DEF ToCome
  <2>2. PICK n \in Nat : n = job.len /\ n > 0
    BY <1>4, <1>9
  <2>3. PICK r \in Nat : r = 0 /\ r = n - n
    BY <2>2
  <2>4. ASSUME Takes(n) PROVE Takes(r)'
    <3>1. PostIn(job.from, n) /\ UNCHANGED host /\ n \in Nat \ {0} /\ n \in Int
      BY <1>1, <1>2, <2>2
    <3> QED
      BY <1>3, <1>4, <2>2, <2>3, <2>4, <3>1, TakesMore
  <2>5. ToCome' = r
    BY <1>1, <1>3, <2>3 DEF ToCome, Sorts, NoJob
  <2>6. Fresh => Takes(n)
    BY <1>2, <1>8, <2>1, <2>2 DEF Parted
  <2> QED
    BY <1>2, <2>4, <2>5, <2>6 DEF Fresh
<1>11. Parted'
  BY <1>1, <1>2, <1>6, <1>8, <1>10 DEF Parted, Clear
<1> QED
  BY <1>8, <1>11 DEF Kept, Places

LEMMA FinishPaddedKept ==
  ASSUME Kept, FinishPadded PROVE Kept'
<1>1. /\ Finishing /\ state' = Ep0(state) /\ cmd.dir = "in" /\ job.residue > 0
      /\ job' = [job EXCEPT !.left = job.len + job.residue] /\ pc' = "pad"
      /\ UNCHANGED <<outq, inq, tx, bufs, res>> /\ UNCHANGED finished
  BY DEF FinishPadded
<1>2. UNCHANGED <<events, lun, cmd, queued, ignore, host, upsets>> /\ pc = "finish"
  BY <1>1 DEF finished, Finishing
<1>3. Sorts
  BY DEF Kept, Sane
<1>4. job.len \in Nat /\ job.residue \in Int
  BY <1>3 DEF Sorts
<1>5. PICK m \in Nat : m = job.len + job.residue /\ m > 0 /\ m = job.residue + job.len
  BY <1>1, <1>4
<1>6. /\ DOMAIN job' = DOMAIN NoJob /\ job'.left = m
      /\ job'.from = job.from /\ job'.cur = job.cur /\ job'.len = job.len /\ job'.lba = job.lba
      /\ job'.residue = job.residue /\ job'.todo = job.todo
  BY <1>1, <1>3, <1>5 DEF Sorts, NoJob
<1>7. Sorts'
  BY <1>1, <1>2, <1>3, <1>6 DEF Sorts
<1>8. Sane' /\ Parted
  BY <1>1, <1>7, AtFinishing
<1>9. ToCome = m /\ ToCome' = m
  BY <1>1, <1>2, <1>5, <1>6 DEF ToCome
<1>10. Fresh' => Takes(ToCome)'
  <2>1. Takes(m) => Takes(m)'
    BY <1>1, <1>2 DEF Takes
  <2>2. Fresh => Takes(m)
    BY <1>2, <1>8, <1>9 DEF Parted
  <2> QED
    BY <1>2, <1>9, <2>1, <2>2 DEF Fresh
<1>11. Parted'
  BY <1>1, <1>2, <1>5, <1>6, <1>8, <1>10 DEF Parted, Clear
<1> QED
  BY <1>8, <1>11 DEF Kept, Places

LEMMA FinishShortKept ==
  ASSUME Kept, Shape, FinishShort PROVE Kept'
<1>1. /\ Finishing /\ state' = Raised(Ep0(state), "abort") /\ cmd.dir = "out" /\ pc' = "top"
      /\ UNCHANGED <<outq, inq, tx, bufs, res, job>> /\ UNCHANGED finished
  BY DEF FinishShort
<1>2. /\ UNCHANGED <<events, lun, cmd, part, queued, ignore, host, upsets>> /\ pc = "finish"
      /\ state = "normal" /\ bulkReset' = FALSE
  BY <1>1 DEF finished, Finishing
<1>3. Sorts'
  BY <1>1, <1>2, SortsKept DEF Kept, Sane
<1>4. Fresh => state' = "abort"
  BY <1>1, <1>2 DEF Kept, Sane, Ep0, Raised, Rank
<1>5. Sane'
  BY <1>1, <1>2, <1>3, <1>4 DEF Kept, Sane, Fresh
<1>6. CASE Accepts
  <2>1. Parted'
    BY <1>1, <1>2, <1>4, <1>6 DEF Accepts, Parted, Clear, Fresh, ToCome, Takes
  <2> QED
    BY <1>5, <2>1 DEF Kept, Places
<1>7. CASE Stale
  <2>1. Stale'
    BY <1>1, <1>2, <1>7 DEF Stale, Tails, Fresh, Answering, Unsigned
  <2> QED
    BY <1>5, <2>1 DEF Kept, Places
<1>8. CASE Doomed
  <2>1. Doomed'
    BY <1>1, <1>2, <1>8 DEF Doomed, Tails, Fresh, Answering, Signed
  <2> QED
    BY <1>5, <2>1 DEF Kept, Places
<1> QED
  BY <1>1, <1>2, <1>6, <1>7, <1>8
  DEF Kept, Places, Asks, Heard, Deaf, AtTop, Parted, Ended, Terminal

\* What the host has left to send is asked for, or the next command is.
LEMMA FinishDiscardKept ==
  ASSUME Kept, FinishDiscard PROVE Kept'
<1>1. PICK n : n = Least(job.left, EpMax)
  OBVIOUS
<1>2. /\ Finishing /\ state' = Ep0(state) /\ cmd.dir = "out" /\ ~job.short /\ job.left > 0
      /\ PostOut(n) /\ job' = [job EXCEPT !.left = job.left - n]
      /\ pc' \in {"discard", "overrun"} /\ res' = "ok"
      /\ UNCHANGED <<inq, bufs>> /\ UNCHANGED finished
  BY <1>1 DEF FinishDiscard
<1>3. UNCHANGED <<events, lun, cmd, queued, ignore, host, upsets>> /\ pc = "finish"
  BY <1>2 DEF finished, Finishing
<1>4. Sorts
  BY DEF Kept, Sane
<1>5. job.left \in Nat /\ n \in 1 .. EpMax /\ n <= job.left /\ n \in {job.left, EpMax}
  <2>1. PICK m \in Nat : m = job.left /\ m > 0
    BY <1>2, <1>4 DEF Sorts
  <2>2. n = IF m < 8 THEN m ELSE 8
    BY <1>1, <2>1 DEF Least, EpMax, Buffer, Sector
  <2>3. EpMax = 8
    BY DEF EpMax, Buffer, Sector
  <2> QED
    BY <2>1, <2>2, <2>3
<1>6. PICK l \in Nat : l = job.left - n /\ l <= job.left
  BY <1>5 DEF EpMax, Buffer, Sector
<1>7. n \in Nat \ {0}
  BY <1>5 DEF EpMax, Buffer, Sector
<1>8. /\ tx' \in TxKind /\ tx'["out"] = [count |-> 1, bytes |-> n]
      /\ outq' \in Seq(Nat \ {0})
      /\ outq = <<>> => outq' = <<n>>
      /\ outq # <<>> => outq' # <<>> /\ outq'[1] = outq[1]
  BY <1>2, <1>4, <1>7, OutPosted
<1>9. /\ DOMAIN job' = DOMAIN NoJob /\ job'.left = l /\ job'.tag = job.tag /\ job'.short = job.short
      /\ job'.from = job.from /\ job'.cur = job.cur /\ job'.len = job.len /\ job'.lba = job.lba
      /\ job'.residue = job.residue /\ job'.todo = job.todo
  BY <1>2, <1>4, <1>6 DEF Sorts, NoJob
<1>10. Sorts'
  BY <1>2, <1>3, <1>4, <1>8, <1>9 DEF Sorts
<1>11. Sane' /\ (Accepts \/ Stale \/ Doomed)
  BY <1>2, <1>10, AtFinishing
<1>12. CASE pc' = "overrun"
  BY <1>11, <1>12 DEF Kept, Places, Ended, Terminal
<1>13. CASE pc' = "discard" /\ Accepts
  <2>1. Clear /\ Sends(job.left) /\ Whole(job.left) /\ job.left <= cmd.size /\ cmd.size \in Nat
    BY <1>2, <1>3, <1>13, CommandIs DEF Accepts
  <2>2. Whole(n) /\ n > 1
    <3>1. Whole(n)
      BY <1>5, <2>1 DEF Whole, EpMax, Buffer, Sector
    <3> QED
      BY <1>7, <3>1 DEF Whole, Sector
  <2>3. Whole(l)
    BY <1>5, <1>6, <1>7, <2>1, <2>2, WholeSum
  <2>4. Waiting(n)'
    BY <1>3, <1>8, <2>1 DEF Clear, Waiting
  <2>5. CASE host.phase = "out"
    <3>1. Throws'
      BY <1>2, <1>3, <1>5, <2>2, <2>4, <2>5 DEF Throws
    <3>2. l <= cmd.size
      BY <1>5, <1>6, <2>1
    <3>3. Accepts'
      BY <1>2, <1>3, <1>9, <1>13, <2>3, <3>1, <3>2 DEF Accepts, Fresh
    <3> QED
      BY <1>11, <3>3 DEF Kept, Places
  <2>6. CASE Gone
    <3>1. Len(inq') = 0
      BY <1>2, <2>6 DEF Gone
    <3>3. outq' # <<>> /\ outq'[1] > 1
      <4>1. outq' = <<n>>
        BY <1>8, <2>1 DEF Clear
      <4>2. outq' # <<>> /\ outq'[1] = n
        BY <4>1
      <4> QED
        BY <2>2, <4>2
    <3>4. NoOut(events)'
      BY <1>3, <2>1 DEF Clear
    <3>5. ~Fresh' /\ host'.phase = "idle" /\ job'.tag = host'.tag
      BY <1>3, <1>9, <1>13, <2>6 DEF Gone, Fresh, Accepts
    <3>6. ~queued' /\ pc' = "discard"
      BY <1>3, <1>13 DEF Accepts
    <3>2. Stale'
      BY <3>1, <3>3, <3>4, <3>5, <3>6 DEF Stale, Tails
    <3> QED
      BY <1>11, <3>2 DEF Kept, Places
  <2> QED
    BY <1>2, <1>5, <2>1, <2>5, <2>6 DEF Sends
<1>14. CASE pc' = "discard" /\ Stale
  <2>1. Stale'
    BY <1>2, <1>3, <1>8, <1>9, <1>14 DEF Stale, Tails, Fresh, Answering, Unsigned
  <2> QED
    BY <1>11, <2>1 DEF Kept, Places
<1>15. CASE pc' = "discard" /\ Doomed
  <2>1. Doomed'
    BY <1>2, <1>3, <1>9, <1>15 DEF Doomed, Tails, Fresh, Answering, Signed
  <2> QED
    BY <1>11, <2>1 DEF Kept, Places
<1> QED
  BY <1>2, <1>11, <1>12, <1>13, <1>14, <1>15

LEMMA AbandonedKept ==
  ASSUME Kept, Abandoned PROVE Kept'
<1>1. /\ pc \in {"finish", "replied"} /\ state # "normal" /\ pc' = "top"
      /\ UNCHANGED <<outq, inq, events, tx, bulkReset, bufs, res, state, lun, cmd, job, queued,
                     ignore, units, timeouts, part, host, asleep, upsets>>
  BY DEF Abandoned, bus
<1>2. ~Fresh
  BY <1>1 DEF Kept, Sane, Terminal
<1>3. Sorts'
  BY <1>1, SortsKept DEF Kept, Sane
<1>4. Sane'
  BY <1>1, <1>2, <1>3 DEF Kept, Sane, Fresh
<1>5. CASE Parted \/ Accepts
  <2>1. Clear' /\ ~queued' /\ ~ignore'
    BY <1>1, <1>5 DEF Parted, Accepts, Clear
  <2>2. Parted'
    BY <1>1, <1>2, <2>1 DEF Parted, Fresh
  <2> QED
    BY <1>4, <2>2 DEF Kept, Places
<1>6. CASE Stale
  <2>1. Stale'
    BY <1>1, <1>6 DEF Stale, Tails, Fresh, Answering, Unsigned
  <2> QED
    BY <1>4, <2>1 DEF Kept, Places
<1>7. CASE Doomed
  <2>1. Doomed'
    BY <1>1, <1>7 DEF Doomed, Tails, Fresh, Answering, Signed
  <2> QED
    BY <1>4, <2>1 DEF Kept, Places
<1> QED
  BY <1>1, <1>5, <1>6, <1>7 DEF Kept, Places, Asks, Heard, Deaf, AtTop, Ended, Terminal

LEMMA PadKept ==
  ASSUME Kept, Pad PROVE Kept'
<1>1. PICK n : n = Least(job.left, EpMax)
  OBVIOUS
<1>2. /\ pc = "pad" /\ PostIn(job.from, n) /\ job' = [job EXCEPT !.left = job.left - n, !.len = 0]
      /\ pc' \in {"reply", "overrun"}
      /\ UNCHANGED <<outq, events, bulkReset, state, lun, cmd, queued, ignore, units, timeouts, part,
                     host, asleep, upsets>>
  BY <1>1 DEF Pad
<1>3. Parted /\ Sane
  BY <1>2 DEF Kept, Places, Asks, Heard, Deaf, AtTop, Accepts, Stale, Doomed, Tails, Ended, Terminal
<1>4. Sorts
  BY <1>3 DEF Sane
<1>5. PICK m \in Nat : m = job.left /\ m > 0
  BY <1>2, <1>3, <1>4 DEF Parted, Sorts
<1>6. n \in Nat \ {0} /\ n <= m /\ (Whole(n) \/ n = m)
  <2>1. n = IF m < 8 THEN m ELSE 8
    BY <1>1, <1>5 DEF Least, EpMax, Buffer, Sector
  <2>2. Whole(8)
    BY DEF Whole, Sector
  <2> QED
    BY <1>5, <2>1, <2>2
<1>7. PICK l \in Nat : l = m - n /\ (Whole(n) \/ l = 0)
  BY <1>6
<1>8. job.from \in Memory
  BY <1>4 DEF Sorts, Memory, InBuf, OutBuf
<1>9. PICK t : t = [from |-> job.from, len |-> n]
  OBVIOUS
<1>10. tx' \in TxKind /\ tx'["out"] = tx["out"] /\ inq' \in Seq(InTrb)
  BY <1>2, <1>4, <1>6, <1>8, <1>9, InPosted
<1>11. /\ DOMAIN job' = DOMAIN NoJob /\ job'.left = l /\ job'.len = 0
       /\ job'.from = job.from /\ job'.cur = job.cur /\ job'.lba = job.lba
       /\ job'.residue = job.residue /\ job'.todo = job.todo
  BY <1>2, <1>4, <1>5, <1>7 DEF Sorts, NoJob
<1>12. Sorts'
  BY <1>2, <1>4, <1>10, <1>11 DEF Sorts
<1>13. Sane'
  BY <1>2, <1>3, <1>12 DEF Sane, Fresh, Terminal
<1>14. CASE pc' = "overrun"
  BY <1>13, <1>14 DEF Kept, Places, Ended, Terminal
<1>15. CASE pc' = "reply"
  <2>1. ToCome = m /\ ToCome' = l
    BY <1>2, <1>5, <1>11, <1>15 DEF ToCome
  <2>2. ASSUME Takes(m) PROVE Takes(l)'
    <3>1. UNCHANGED host /\ m \in Int
      BY <1>2
    <3> QED
      BY <1>2, <1>4, <1>5, <1>6, <1>7, <1>8, <2>2, <3>1, TakesMore
  <2>3. Fresh => Takes(m)
    BY <1>2, <1>3, <2>1 DEF Parted
  <2>4. Fresh' => Takes(ToCome)'
    BY <1>2, <2>1, <2>2, <2>3 DEF Fresh
  <2>5. Parted'
    BY <1>2, <1>3, <1>10, <1>15, <2>4 DEF Parted, Clear
  <2> QED
    BY <1>13, <2>5 DEF Kept, Places
<1> QED
  BY <1>2, <1>14, <1>15

LEMMA RepliedKept ==
  ASSUME Kept, Replied PROVE Kept'
<1>1. /\ pc \in {"reply", "discard"} /\ WaitOver
      /\ pc' = (IF pc = "reply" /\ job.left > 0 THEN "pad" ELSE "replied")
      /\ UNCHANGED <<outq, inq, events, tx, bulkReset, bufs, res, state, lun, cmd, queued, ignore,
                     units, timeouts, part, host, asleep, upsets>>
  BY DEF Replied, bus
<1>2. job' = job \/ (pc = "reply" /\ job' = [job EXCEPT !.from = InBuf])
  BY DEF Replied
<1>3. Sorts
  BY DEF Kept, Sane
<1>4. job'.left = job.left /\ job'.tag = job.tag /\ job.left \in Nat
  BY <1>2, <1>3 DEF Sorts, NoJob
<1>5. Sorts'
  BY <1>1, <1>2, <1>3 DEF Sorts, NoJob
<1>6. Sane'
  BY <1>1, <1>5 DEF Kept, Sane, Fresh, Terminal
<1>7. CASE Parted
  <2>1. pc = "reply" /\ ToCome' = ToCome
    BY <1>1, <1>4, <1>7 DEF Parted, ToCome
  <2>2. Fresh' => Takes(ToCome)'
    BY <1>1, <1>7, <2>1 DEF Parted, Fresh, Takes
  <2>3. Parted'
    BY <1>1, <1>4, <1>7, <2>1, <2>2 DEF Parted, Clear
  <2> QED
    BY <1>6, <2>3 DEF Kept, Places
<1>8. CASE Accepts
  <2>1. pc = "discard" /\ Throws
    BY <1>1, <1>8 DEF Accepts
  <2>2. tx["out"].count = 0
    BY <1>1, <2>1 DEF WaitOver, Throws, Way
  <2>3. Clear
    <3>1. \A n : ~Waiting(n)
      BY <2>2 DEF Waiting
    <3> QED
      BY <2>1, <2>2, <3>1 DEF Throws
  <2>4. Parted'
    BY <1>1, <1>8, <2>1, <2>3 DEF Accepts, Parted, Clear, Fresh, ToCome, Takes
  <2> QED
    BY <1>6, <2>4 DEF Kept, Places
<1>9. CASE Stale
  <2>1. Stale'
    BY <1>1, <1>4, <1>9 DEF Stale, Tails, Fresh, Answering, Unsigned
  <2> QED
    BY <1>6, <2>1 DEF Kept, Places
<1>10. CASE Doomed
  <2>1. Doomed'
    BY <1>1, <1>4, <1>10 DEF Doomed, Tails, Fresh, Answering, Signed
  <2> QED
    BY <1>6, <2>1 DEF Kept, Places
<1> QED
  BY <1>1, <1>7, <1>8, <1>9, <1>10 DEF Kept, Places, Asks, Heard, Deaf, AtTop, Ended, Terminal

LEMMA AnswerKept ==
  ASSUME Kept, Shape, Answer PROVE Kept'
<1>1. /\ pc = "replied" /\ state = "normal" /\ SendStatus
      /\ UNCHANGED <<outq, events, bulkReset, state, lun, cmd, queued, ignore, units, timeouts, part,
                     host, asleep, upsets>>
  BY DEF Answer
<1>2. /\ Sorts' /\ tx'["out"] = tx["out"] /\ pc' = "status"
      /\ Takes(0) => Closes'
      /\ bufs'[OutBuf] = bufs[OutBuf] \/ bufs'[OutBuf][1] # "cbw"
      /\ (\A i \in 1 .. Len(inq) : ~Unsigned(inq[i])) /\ job.tag = host.tag =>
           (\A i \in 1 .. Len(inq) : ~Unsigned(inq[i]))'
      /\ (\A i \in 1 .. Len(inq) : ~Signed(inq[i])) /\ job.tag # host.tag =>
           (\A i \in 1 .. Len(inq) : ~Signed(inq[i]))'
  BY <1>1, StatusSent DEF Kept, Sane
<1>3. Sane'
  BY <1>1, <1>2 DEF Kept, Sane, Fresh
<1>4. CASE Parted
  <2>1. Fresh => Takes(0)
    BY <1>1, <1>4 DEF Parted, ToCome
  <2>2. Parted'
    BY <1>1, <1>2, <1>4, <2>1 DEF Parted, Clear, Fresh
  <2> QED
    BY <1>3, <2>2 DEF Kept, Places
<1>5. CASE Stale
  <2>1. Stale'
    BY <1>1, <1>2, <1>5 DEF Stale, Fresh, Answering, Tails
  <2> QED
    BY <1>3, <2>1 DEF Kept, Places
<1>6. CASE Doomed
  <2>1. Doomed'
    BY <1>1, <1>2, <1>6 DEF Doomed, Fresh, Answering, Tails
  <2> QED
    BY <1>3, <2>1 DEF Kept, Places
<1> QED
  BY <1>1, <1>4, <1>5, <1>6 DEF Kept, Places, Asks, Heard, Deaf, AtTop, Accepts, Ended, Terminal

\* The status was taken, or its wait came to nothing.
LEMMA StatusOverKept ==
  ASSUME Kept, Shape, StatusOver PROVE Kept'
<1>1. /\ pc = "status" /\ pc' = "top" /\ job' = [NoJob EXCEPT !.from = job.from]
      /\ UNCHANGED <<outq, inq, events, tx, bulkReset, state, lun, queued, ignore, units, timeouts,
                     part, host, asleep, upsets>>
  BY DEF StatusOver
<1>2. Sane
  BY DEF Kept
<1>3. Sorts'
  BY <1>1, <1>2 DEF Sane, Sorts, NoJob, InBuf
<1>4. Sane'
  BY <1>1, <1>2, <1>3 DEF Sane, Fresh
<1>5. \A b \in Memory : bufs'[b] = bufs[b] \/ bufs'[b] = <<"junk">>
  BY DEF StatusOver
<1>6. \A i \in 1 .. Len(inq) : bufs'[inq[i].from] = bufs[inq[i].from]
  <2>1. ASSUME NEW i \in 1 .. Len(inq) PROVE bufs'[inq[i].from] = bufs[inq[i].from]
    <3>1. PICK t : t = inq[i]
      OBVIOUS
    <3>2. inq \in Seq(InTrb) /\ t \in InTrb /\ Len(inq) \in Nat
      BY <1>2, <2>1, <3>1 DEF Sane, Sorts
    <3>3. t.from \in Memory /\ t.len \in Nat
      BY <3>2 DEF InTrb
    <3>4. t \in ToSet(inq)
      BY <2>1, <3>1, <3>2 DEF ToSet
    <3>5. t.from - t.from \in 0 .. t.len \div Sector
      BY <3>3 DEF Memory, Sector
    <3> QED
      BY <3>1, <3>3, <3>4, <3>5 DEF StatusOver
  <2> QED
    BY <2>1
<1>7. OutBuf \in Memory
  BY DEF OutBuf, Memory
<1>8. CASE Parted
  <2>1. Fresh => state = "normal"
    BY <1>1, <1>2 DEF Sane, Terminal
  <2>2. Parted'
    BY <1>1, <1>8, <2>1 DEF Parted, Clear, Fresh, Closes
  <2> QED
    BY <1>4, <2>2 DEF Kept, Places
<1>9. CASE Stale
  <2>1. Stale'
    BY <1>1, <1>6, <1>9 DEF Stale, Fresh, Answering, Tails, Unsigned
  <2> QED
    BY <1>4, <2>1 DEF Kept, Places
<1>10. CASE Doomed
  <2>1. bufs'[OutBuf][1] # "cbw" \/ bufs'[OutBuf] = bufs[OutBuf]
    BY <1>5, <1>7
  <2>2. Doomed'
    BY <1>1, <1>6, <1>10, <2>1 DEF Doomed, Fresh, Answering, Tails, Signed
  <2> QED
    BY <1>4, <2>2 DEF Kept, Places
<1> QED
  BY <1>1, <1>8, <1>9, <1>10 DEF Kept, Places, Asks, Heard, Deaf, AtTop, Accepts, Ended, Terminal

\* A write.
LEMMA AtWriting ==
  ASSUME Kept, pc = "write"
  PROVE  /\ Sane /\ Accepts /\ Storing /\ Writes /\ cmd \in Commands /\ lun \in Lun /\ lun # 0
         /\ Clear /\ Sends(job.left) /\ cmd.op \in Moving
         /\ cmd.size \in Nat /\ Whole(cmd.size) /\ cmd.lba \in Nat /\ From(cmd) \in Nat
         /\ From(cmd) <= cmd.size /\ Whole(From(cmd)) /\ Luns[lun].sectors \in Nat \ {0}
<1>1. Sane /\ Accepts
  BY DEF Kept, Places, Asks, Heard, Deaf, AtTop, Parted, Stale, Doomed, Tails, Ended, Terminal
<1>2. Storing /\ Writes /\ cmd \in Commands /\ Clear /\ Sends(job.left) /\ cmd.op \in Moving
      /\ lun = cmd.lun
  BY <1>1 DEF Accepts, Storing, Writes, Moving
<1>3. lun \in Lun /\ lun # 0
  BY <1>2, CommandIs, GadgetAssumption DEF Lun
<1> QED
  BY <1>1, <1>2, <1>3, CommandIs

LEMMA WriteStopsKept ==
  ASSUME Kept, WriteStuck \/ WritePastEnd PROVE Kept'
<1>1. CASE WriteStuck
  <2>1. /\ pc' \in Terminal
        /\ UNCHANGED <<outq, inq, events, tx, bulkReset, job, host, state, lun, part, upsets>>
    BY <1>1 DEF WriteStuck, Terminal, bus
  <2> QED
    BY <2>1, EndKept
<1>2. CASE WritePastEnd
  <2>1. /\ pc = "write" /\ pc' = "finish"
        /\ UNCHANGED <<outq, inq, events, tx, bulkReset, bufs, res, state, lun, cmd, job, queued,
                       ignore, timeouts, part, host, asleep, upsets>>
    BY <1>2 DEF WritePastEnd, bus
  <2>2. Sane /\ Accepts /\ Clear /\ Sends(job.left)
    BY <2>1, AtWriting
  <2>3. Sorts'
    BY <2>1, <2>2, SortsKept DEF Sane
  <2>4. Sane'
    BY <2>1, <2>2, <2>3 DEF Sane, Fresh, Terminal
  <2>5. Clear' /\ Sends(job.left)'
    BY <2>1, <2>2 DEF Clear, Sends, Gone, Fresh
  <2>6. Accepts'
    BY <2>1, <2>2, <2>5 DEF Accepts, Fresh
  <2> QED
    BY <2>4, <2>6 DEF Kept, Places
<1> QED
  BY <1>1, <1>2

LEMMA WriteAskKept ==
  ASSUME Kept, WriteAsk PROVE Kept'
<1>1. PICK n : n = Least(From(cmd) - Asked, Buffer)
  OBVIOUS
<1>2. /\ pc = "write" /\ From(cmd) > Asked /\ cmd.lba + Asked \div Sector < Luns[lun].sectors
      /\ PostOut(n) /\ job' = [job EXCEPT !.left = job.left - n, !.posted = n]
      /\ pc' = "fill" /\ res' = "ok"
      /\ UNCHANGED <<inq, events, bulkReset, bufs, state, lun, cmd, queued, ignore, units,
                     timeouts, part, host, asleep, upsets>>
  BY <1>1 DEF WriteAsk
<1>3. /\ Sane /\ Accepts /\ Storing /\ Writes /\ cmd \in Commands /\ lun \in Lun
      /\ Clear /\ Sends(job.left) /\ cmd.op \in Moving
      /\ cmd.size \in Nat /\ Whole(cmd.size) /\ cmd.lba \in Nat /\ From(cmd) \in Nat
      /\ From(cmd) <= cmd.size /\ Whole(From(cmd)) /\ Luns[lun].sectors \in Nat \ {0}
  BY <1>2, AtWriting
<1>4. Sorts /\ job.left \in Nat /\ Whole(job.left) /\ job.left <= cmd.size
  BY <1>3 DEF Sane, Sorts, Accepts
<1>5. PICK a \in Nat : a = Asked /\ a = cmd.size - job.left /\ Whole(a)
  <2>1. PICK a \in Nat : a = cmd.size - job.left
    BY <1>3, <1>4
  <2> QED
    BY <1>3, <1>4, <2>1, WholeSum DEF Asked
<1>6. PICK f \in Nat : f = From(cmd) - a /\ f > 0 /\ f <= job.left /\ Whole(f)
  <2>1. PICK f \in Nat : f = From(cmd) - a /\ f > 0
    BY <1>2, <1>3, <1>5
  <2>2. Whole(f)
    BY <1>3, <1>5, <2>1, WholeSum
  <2> QED
    BY <1>3, <1>4, <1>5, <2>1, <2>2
<1>7. n \in 1 .. Buffer /\ n <= job.left /\ Whole(n) /\ n \in Nat \ {0}
  <2>1. n = IF f < 4 THEN f ELSE 4
    BY <1>1, <1>5, <1>6 DEF Least, Buffer, Sector
  <2>2. Whole(4) /\ Buffer = 4
    BY DEF Whole, Sector, Buffer
  <2> QED
    BY <1>4, <1>6, <2>1, <2>2
<1>8. PICK l \in Nat : l = job.left - n /\ l + n = job.left /\ l <= cmd.size /\ Whole(l)
  <2>1. PICK l \in Nat : l = job.left - n
    BY <1>4, <1>7
  <2>2. Whole(l)
    BY <1>4, <1>7, <2>1, WholeSum
  <2> QED
    BY <1>3, <1>4, <1>7, <2>1, <2>2
<1>9. /\ tx' \in TxKind /\ tx'["out"] = [count |-> 1, bytes |-> n]
      /\ outq' \in Seq(Nat \ {0})
      /\ outq = <<>> => outq' = <<n>>
  BY <1>2, <1>4, <1>7, OutPosted
<1>10. /\ DOMAIN job' = DOMAIN NoJob /\ job'.left = l /\ job'.posted = n /\ job'.tag = job.tag
       /\ job'.from = job.from /\ job'.cur = job.cur /\ job'.len = job.len /\ job'.lba = job.lba
       /\ job'.residue = job.residue /\ job'.todo = job.todo
  BY <1>2, <1>4, <1>8 DEF Sorts, NoJob
<1>11. Sorts'
  BY <1>2, <1>4, <1>9, <1>10 DEF Sorts
<1>12. Sane'
  BY <1>2, <1>3, <1>11 DEF Sane, Fresh, Terminal
<1>13. Waiting(n)'
  BY <1>2, <1>3, <1>9 DEF Waiting, Clear
<1>14. Gone' \/ (res' = "ok" /\ host'.phase = "out" /\ host'.left = l + n)
  <2>1. Gone => Gone'
    BY <1>2, <1>10 DEF Gone, Fresh
  <2> QED
    BY <1>2, <1>3, <1>4, <1>7, <1>8, <2>1 DEF Sends
<1>15. job'.lba = cmd'.lba + (cmd'.size - (job'.left + job'.posted)) \div Sector
       /\ job'.lba < Luns[lun'].sectors
  <2>1. job.lba = cmd.lba + Asked \div Sector /\ job.lba < Luns[lun].sectors
    BY <1>2, <1>3 DEF Writes
  <2>2. cmd.size - (l + n) = a
    BY <1>5, <1>8
  <2> QED
    BY <1>2, <1>5, <1>10, <2>1, <2>2
<1>16. Fills'
  <2>1. job'.left + job'.posted <= cmd'.size /\ job'.posted \in 1 .. Buffer /\ Whole(job'.posted)
    BY <1>2, <1>4, <1>7, <1>8, <1>10
  <2>2. Waiting(job.posted)' /\ (Gone' \/ (/\ res' = "ok" /\ host'.phase = "out"
                                           /\ host'.left = job'.left + job'.posted))
    BY <1>10, <1>13, <1>14 DEF Waiting
  <2> QED
    BY <1>15, <2>1, <2>2 DEF Fills
<1>17. Storing'
  BY <1>2, <1>3, <1>16 DEF Storing
<1>18. Accepts'
  BY <1>2, <1>3, <1>8, <1>10, <1>17 DEF Accepts, Fresh
<1> QED
  BY <1>12, <1>18 DEF Kept, Places

\* What was received is stored where the host means it to be.
LEMMA ArrivedMeant ==
  ASSUME Sane, lun \in Lun, lun # 0, cmd = host.cmd, cmd.lba \in Nat, ~Luns[lun].ro,
         ~units[lun].unmounted, Loaded, job.lba \in Nat, NEW n \in Nat, Whole(n),
         job.posted \in Nat, n <= job.posted, n <= (Luns[lun].sectors - job.lba) * Sector
  PROVE  Meant(n, part)
<1>1. Luns[lun].part = Addressed(lun, part)
  BY DEF Sane, Addressed
<1>2. ASSUME NEW i \in 0 .. n \div Sector - 1
      PROVE  /\ job.lba + i < Luns[lun].sectors
             /\ bufs[OutBuf + i] = <<"data", job.lba - host.cmd.lba + i, host.tag>>
  <2>1. Luns[lun].sectors \in Nat
    BY LunIs
  <2>2. PICK d \in Int : d = Luns[lun].sectors - job.lba
    BY <2>1
  <2>3. i < d /\ i \in Nat
    BY <1>2, <2>2 DEF Sector
  <2>4. i \in 0 .. job.posted \div Sector - 1
    BY <1>2 DEF Sector
  <2>5. bufs[OutBuf + i] = <<"data", job.lba - cmd.lba + i, host.tag>>
    BY <2>4 DEF Loaded
  <2> QED
    BY <2>1, <2>2, <2>3, <2>5
<1> QED
  BY <1>1, <1>2 DEF Meant

\* A wait for data is over.
LEMMA FilledKept ==
  ASSUME Kept, Shape, Filled, Tame' PROVE Kept'
<1>1. /\ pc = "fill" /\ WaitOver
      /\ UNCHANGED <<outq, inq, events, tx, bulkReset, bufs, res, state, lun, cmd, queued, ignore,
                     timeouts, asleep>>
  BY DEF Filled, bus
<1>2. Sane
  BY DEF Kept
<1>3. Sorts
  BY <1>2 DEF Sane
<1>4. CASE res # "ok"
  <2>1. pc' = "finish" /\ UNCHANGED <<job, host, part, upsets>>
    BY <1>4 DEF Filled
  <2>2. Sane'
    <3>1. Sorts'
      BY <1>1, <1>3, <2>1, SortsKept
    <3> QED
      BY <1>1, <1>2, <2>1, <3>1 DEF Sane, Fresh, Terminal
  <2>3. CASE Accepts
    <3>1. Fills /\ cmd.dir = "out" /\ ~queued /\ job.tag = host.tag
      BY <1>1, <2>3 DEF Accepts, Storing
    <3>2. Waiting(job.posted) /\ Gone /\ job.posted \in 1 .. Buffer /\ Whole(job.posted)
      BY <1>4, <3>1 DEF Fills
    <3>3. outq # <<>> /\ outq[1] > 1
      <4>1. PICK n \in Nat : n = job.posted /\ n > 0 /\ Whole(n)
        BY <3>2 DEF Buffer, Sector
      <4>2. n > 1
        BY <4>1 DEF Whole, Sector
      <4>3. outq = <<n>>
        BY <3>2, <4>1 DEF Waiting
      <4>4. outq # <<>> /\ outq[1] = n
        BY <4>3
      <4> QED
        BY <4>2, <4>4
    <3>4. Len(inq) = 0
      BY <3>2 DEF Gone
    <3>5. ~Fresh' /\ host'.phase = "idle" /\ job'.tag = host'.tag /\ NoOut(events)'
      BY <1>1, <2>1, <3>1, <3>2 DEF Gone, Fresh, Waiting
    <3>6. Stale'
      BY <1>1, <2>1, <3>1, <3>3, <3>4, <3>5 DEF Stale, Tails
    <3> QED
      BY <2>2, <3>6 DEF Kept, Places
  <2>4. CASE Doomed
    <3>1. Doomed'
      BY <1>1, <2>1, <2>4 DEF Doomed, Tails, Fresh, Answering, Signed
    <3> QED
      BY <2>2, <3>1 DEF Kept, Places
  <2> QED
    BY <1>1, <2>3, <2>4
    DEF Kept, Places, Asks, Heard, Deaf, AtTop, Parted, Stale, Tails, Ended, Terminal
<1>5. CASE res = "ok" /\ Doomed
  <2>1. /\ Came(job.posted, 1) /\ job.posted \in 1 .. Buffer /\ Whole(job.posted)
    BY <1>1, <1>5 DEF Doomed
  <2>2. tx["out"] = [count |-> 0, bytes |-> 1]
    BY <1>1, <1>5, <2>1 DEF Came, WaitOver, Way
  <2>3. Actual = 1 /\ Actual < job.posted
    <3>1. PICK n \in Nat : n = job.posted /\ n > 0 /\ Whole(n)
      BY <2>1 DEF Buffer, Sector
    <3>2. n > 1
      BY <3>1 DEF Whole, Sector
    <3>3. Actual = 1
      BY <1>1, <1>5, <2>2 DEF Actual, Way
    <3> QED
      BY <3>1, <3>2, <3>3
  <2>4. Storable <= 0
    <3>1. Luns[lun].sectors \in Nat /\ job.lba \in Nat /\ job.posted \in Nat
      <4>1. lun \in Lun
        BY <1>1, <1>5 DEF Doomed, Shape
      <4> QED
        BY <1>3, <2>1, <4>1, LunIs DEF Sorts, Buffer, Sector
    <3>2. PICK d \in Int : d = (Luns[lun].sectors - job.lba) * Sector
      BY <3>1 DEF Sector
    <3>3. PICK m \in Int : m = Least(Least(Actual, job.posted), d) /\ m <= 1
      BY <2>3, <3>1 DEF Least
    <3>4. Storable = m - (m % Sector)
      BY <3>2, <3>3 DEF Storable
    <3> QED
      BY <3>3, <3>4 DEF Sector
  <2>5. job' = [job EXCEPT !.short = TRUE] /\ pc' = "finish" /\ UNCHANGED <<host, part, upsets>>
    BY <1>5, <2>3, <2>4 DEF Filled
  <2>6. Sorts'
    BY <1>1, <1>3, <2>5 DEF Sorts, NoJob
  <2>7. Sane'
    BY <1>1, <1>2, <2>5, <2>6 DEF Sane, Fresh, Terminal
  <2>8. job'.tag = job.tag
    BY <1>3, <2>5 DEF Sorts, NoJob
  <2>9. Doomed'
    BY <1>1, <1>5, <2>5, <2>8 DEF Doomed, Tails, Fresh, Answering, Signed
  <2> QED
    BY <2>7, <2>9 DEF Kept, Places
<1>6. CASE res = "ok" /\ Accepts
  <2>1. /\ Storing /\ Fills /\ cmd = host.cmd /\ cmd \in Commands /\ cmd.dir = "out"
        /\ Whole(job.left) /\ job.left <= cmd.size /\ ~queued /\ ~ignore
    BY <1>1, <1>6 DEF Accepts, Storing
  <2>2. /\ cmd.size \in Nat /\ cmd.lba \in Nat /\ Whole(cmd.size) /\ lun \in Lun /\ lun # 0
        /\ Luns[lun].sectors \in Nat
    <3>1. lun = cmd.lun
      BY <2>1 DEF Storing
    <3> QED
      BY <2>1, <3>1, CommandIs, GadgetAssumption, SMTT(60) DEF Lun
  <2>3. PICK q \in Nat : q = job.posted /\ q > 0 /\ q <= 4 /\ Whole(q)
    BY <2>1 DEF Fills, Buffer, Sector
  <2>4. PICK a \in Nat : a = job.lba /\ a < Luns[lun].sectors
    BY <1>3, <2>1 DEF Sorts, Fills
  <2>5. PICK d \in Nat : d = Luns[lun].sectors - a /\ d > 0
    BY <2>2, <2>4
  <2>6. tx["out"].count = 0
    BY <1>1, <1>6 DEF WaitOver, Way
  <2>7. ~Waiting(q) /\ (Came(q, q) \/ Came(q, 0))
    BY <2>1, <2>3, <2>6 DEF Fills, Waiting
  <2>8. Clear
    BY <2>6, <2>7 DEF Came, Clear
  <2>9. PICK m \in Nat : m = Actual /\ m \in {0, q} /\ tx["out"].bytes = m
    BY <1>1, <1>6, <2>6, <2>7 DEF Came, Actual, Way
  <2>10. PICK n \in Nat : n = Storable /\ Whole(n) /\ n <= m /\ n <= d * Sector
                         /\ n \in {m, d * Sector}
    <3>1. PICK k \in Nat : k = Least(Least(m, q), d * Sector)
      BY <2>3, <2>9 DEF Least, Sector
    <3>2. k = (IF m < d * 2 THEN m ELSE d * 2)
      BY <2>3, <2>9, <3>1 DEF Least, Sector
    <3>3. Whole(k) /\ k <= m /\ k <= d * 2 /\ k \in {m, d * 2}
      BY <2>3, <2>9, <3>2 DEF Whole, Sector
    <3>4. Storable = k - (k % Sector)
      BY <2>3, <2>4, <2>5, <2>9, <3>1 DEF Storable
    <3>5. Storable = k
      BY <3>3, <3>4 DEF Whole
    <3> QED
      BY <3>3, <3>5 DEF Sector
  <2>11. CASE m = 0
    <3>1. n <= 0 /\ Actual < job.posted
      BY <2>3, <2>9, <2>10, <2>11
    <3>2. job' = [job EXCEPT !.short = TRUE] /\ pc' = "finish" /\ UNCHANGED <<host, part, upsets>>
      BY <1>6, <2>10, <3>1 DEF Filled
    <3>3. Sorts' /\ job'.short /\ job'.left = job.left
      BY <1>1, <1>3, <3>2 DEF Sorts, NoJob
    <3>4. Sane'
      BY <1>1, <1>2, <3>2, <3>3 DEF Sane, Fresh, Terminal
    <3>5. Clear'
      BY <1>1, <2>8 DEF Clear
    <3>6. Accepts'
      BY <1>1, <1>6, <3>2, <3>3, <3>5 DEF Accepts, Fresh
    <3> QED
      BY <3>4, <3>6 DEF Kept, Places
  <2>12. CASE m = q
    <3>1. n > 0 /\ ~(Actual < job.posted)
      BY <2>3, <2>5, <2>9, <2>10, <2>12 DEF Sector
    <3>2. PICK ok \in BOOLEAN :
            /\ Access(lun, ok)
            /\ ok => /\ job' = [job EXCEPT !.lba = job.lba + n \div Sector, !.todo = job.todo - n,
                                          !.residue = job.residue - n, !.short = (Actual < job.posted)]
                     /\ host' = IF Meant(n, part')
                                THEN [host EXCEPT !.good = host.good + n \div Sector]
                                ELSE [host EXCEPT !.astray = TRUE]
                     /\ pc' \in {"finish", "write"} /\ units' = units
      BY <1>6, <2>10, <3>1 DEF Filled
    <3>3. ok /\ part' = part /\ upsets' = upsets
      BY <3>2, AccessFine
    <3>4. Came(q, q) /\ Sends(job.left) /\ Loaded
      <4>1. ~Came(q, 0)
        BY <2>3, <2>6, <2>9, <2>12 DEF Came
      <4> QED
        BY <2>1, <2>3, <2>7, <4>1 DEF Fills
    <3>5. Meant(n, part')
      <4>1. n <= job.posted /\ n <= (Luns[lun].sectors - job.lba) * Sector /\ job.lba \in Nat
            /\ job.posted \in Nat
        BY <2>3, <2>4, <2>5, <2>10, <2>12
      <4>2. ~Luns[lun].ro /\ ~units[lun].unmounted
        BY <2>1 DEF Storing
      <4>3. Meant(n, part)
        BY <1>2, <2>1, <2>2, <2>10, <3>4, <4>1, <4>2, ArrivedMeant
      <4> QED
        BY <3>3, <4>3
    <3>6. host' = [host EXCEPT !.good = host.good + n \div Sector]
      BY <3>2, <3>3, <3>5
    <3>7. /\ DOMAIN host' = DOMAIN host /\ host'.phase = host.phase /\ host'.left = host.left
          /\ host'.tag = host.tag /\ host'.cmd = host.cmd /\ host'.astray = host.astray
      BY <1>3, <3>6 DEF Sorts
    <3>8. PICK b \in Nat : b = a + n \div Sector
      BY <2>10 DEF Sector
    <3>9. /\ DOMAIN job' = DOMAIN NoJob /\ job'.lba = b /\ job'.left = job.left
          /\ job'.tag = job.tag /\ job'.from = job.from /\ job'.cur = job.cur
          /\ job'.len = job.len /\ job'.residue \in Int /\ job'.todo \in Int
      <4>1. PICK t \in Int, r \in Int : t = job.todo - n /\ r = job.residue - n
        <5>1. PICK x \in Int, y \in Int : x = job.todo /\ y = job.residue
          BY <1>3 DEF Sorts
        <5>2. x - n \in Int /\ y - n \in Int
          BY <2>10, <5>1
        <5> QED
          BY <5>1, <5>2, Zenon
      <4>2. PICK v : v = (Actual < job.posted)
        OBVIOUS
      <4>3. job' = [job EXCEPT !.lba = b, !.todo = t, !.residue = r, !.short = v]
        BY <2>4, <3>2, <3>3, <3>8, <4>1, <4>2
      <4> QED
        BY <1>3, <4>3 DEF Sorts, NoJob
    <3>10. Sorts'
      BY <1>1, <1>3, <3>7, <3>9 DEF Sorts
    <3>11. Sane'
      BY <1>1, <1>2, <3>2, <3>3, <3>7, <3>10 DEF Sane, Fresh, Terminal
    <3>12. Clear' /\ Sends(job.left)'
      <4>1. Clear'
        BY <1>1, <2>8 DEF Clear
      <4>2. Gone => Gone'
        BY <1>1, <3>3, <3>7, <3>9 DEF Gone, Fresh
      <4> QED
        BY <3>4, <3>7, <3>9, <4>1, <4>2 DEF Sends
    <3>13. cmd'.lba + Asked' \div Sector < Luns[lun'].sectors =>
             job'.lba = cmd'.lba + Asked' \div Sector
      <4>1. PICK l \in Nat : l = job.left /\ Whole(l) /\ l + q <= cmd.size
        BY <1>3, <2>1, <2>3 DEF Sorts, Fills
      <4>2. a = cmd.lba + (cmd.size - (l + q)) \div Sector
        BY <2>1, <2>3, <2>4, <4>1 DEF Fills
      <4>3. PICK s \in Nat, x \in Nat : s = cmd.size /\ x = cmd.lba
        BY <2>2
      <4>4. a = x + (s - (l + q)) \div 2 /\ Whole(s) /\ l + q <= s
        BY <2>2, <4>1, <4>2, <4>3 DEF Sector
      <4>5. x + (s - l) \div 2 = a + q \div 2
        BY <2>3, <4>1, <4>4 DEF Whole, Sector
      <4>6. n = q \/ (n = d * 2 /\ n <= q)
        BY <2>10, <2>12 DEF Sector
      <4>7. a + q \div 2 < Luns[lun].sectors => b = a + q \div 2
        BY <2>2, <2>3, <2>5, <3>8, <4>6 DEF Whole, Sector
      <4>8. Asked' = s - l /\ job'.lba = b /\ cmd'.lba = x
        BY <1>1, <3>9, <4>1, <4>3 DEF Asked
      <4> QED
        BY <1>1, <4>5, <4>7, <4>8 DEF Sector
    <3>14. Storing'
      <4>1. pc' = "write" => Writes'
        BY <3>12, <3>13 DEF Writes
      <4> QED
        BY <1>1, <2>1, <3>2, <3>3, <4>1 DEF Storing
    <3>15. Accepts'
      BY <1>1, <1>6, <2>1, <3>2, <3>3, <3>7, <3>9, <3>12, <3>14 DEF Accepts, Fresh
    <3> QED
      BY <3>11, <3>15 DEF Kept, Places
  <2> QED
    BY <2>9, <2>11, <2>12
<1>7. res = "ok" => Accepts \/ Doomed
  BY <1>1 DEF Kept, Places, Asks, Heard, Deaf, AtTop, Parted, Stale, Tails, Ended, Terminal
<1> QED
  BY <1>4, <1>5, <1>6, <1>7

\* A step of the host that reports a transfer.
LEMMA HostSane ==
  ASSUME Sane, NEW e \in Event, e.ep # "reset", events' = Append(events, e), UNCHANGED device,
         outq' \in Seq(Nat \ {0}), inq' \in Seq(InTrb), Fresh' => Fresh,
         DOMAIN host' = DOMAIN host, host'.left \in Nat, host'.tag \in {0, 1}, ~host'.astray,
         host'.phase = "out" => host'.left > 0 /\ Whole(host'.left)
  PROVE  Sane'
<1>1. UNCHANGED <<tx, bulkReset, pc, res, state, lun, cmd, job, part>>
  BY DEF device
<1>2. events \in Seq(Event)
  BY DEF Sane, Sorts
<1>3. PICK new : new = events'
  OBVIOUS
<1>4. /\ new \in Seq(Event) /\ new[Len(new)] = e
      /\ \A i \in 1 .. Len(events) : new[i] = events[i]
      /\ \A i \in 1 .. Len(new) : i = Len(new) \/ i \in 1 .. Len(events)
  BY <1>2, <1>3, EventsAdded
<1>5. (\A i \in 1 .. Len(events) : events[i].ep # "reset") =>
        \A i \in 1 .. Len(new) : new[i].ep # "reset"
  BY <1>4
<1>6. Sorts'
  BY <1>1, <1>3, <1>4 DEF Sane, Sorts
<1> QED
  BY <1>1, <1>3, <1>5, <1>6 DEF Sane, Fresh

\* A transfer from the host is carried out.
LEMMA OutTaken ==
  ASSUME Sorts, outq # <<>>, outq' = Tail(outq)
  PROVE  /\ outq' \in Seq(Nat \ {0}) /\ Head(outq) \in Nat \ {0} /\ Head(outq) = outq[1]
         /\ \A n : outq = <<n>> => outq' = <<>> /\ Head(outq) = n
<1>1. outq \in Seq(Nat \ {0})
  BY DEF Sorts
<1>2. ASSUME NEW n, outq = <<n>> PROVE outq' = <<>> /\ Head(outq) = n
  BY <1>2, SMTT(60)
<1> QED
  BY <1>1, <1>2

\* The next command goes where the device reads it, or where it does not.
LEMMA SendCommandKept ==
  ASSUME Kept, Shape, SendCommand PROVE Kept'
<1>1. PICK h : h = Head(outq)
  OBVIOUS
<1>2. PICK r, e : r = h - 1 /\ e = [ep |-> "out", ok |-> TRUE, rest |-> r]
  OBVIOUS
<1>3. /\ host.phase = "idle" /\ outq # <<>> /\ outq' = Tail(outq) /\ events' = Append(events, e)
      /\ UNCHANGED <<inq, device, asleep, upsets>>
  BY <1>1, <1>2 DEF SendCommand, Completed
<1>4. PICK c \in Commands :
        /\ host' = [host EXCEPT !.cmd = c, !.tag = 1 - host.tag, !.left = c.size, !.good = 0,
                      !.astray = FALSE, !.status = "none", !.residue = 0,
                      !.phase = IF c.size = 0 THEN "status" ELSE c.dir]
        /\ bufs' = [bufs EXCEPT ![OutBuf] = <<"cbw", c, 1 - host.tag>>]
  BY DEF SendCommand, Zenon
<1>5. Sane /\ Sorts
  BY DEF Kept, Sane
<1>6. UNCHANGED <<tx, bulkReset, pc, res, state, lun, cmd, job, queued, ignore, part>>
  BY <1>3 DEF device
<1>7. /\ outq' \in Seq(Nat \ {0}) /\ h \in Nat \ {0} /\ h = outq[1]
      /\ \A n : outq = <<n>> => outq' = <<>> /\ h = n
  BY <1>1, <1>3, <1>5, OutTaken
<1>8. r \in Nat /\ e \in Event /\ e.ep = "out" /\ e.ok /\ e.rest = r
  BY <1>2, <1>7 DEF Event
<1>9. /\ NoOut(events) => OneOut(events', r)
      /\ r > 0 => Missing(events')
  <2>1. PICK new : new = events'
    OBVIOUS
  <2>2. events \in Seq(Event) /\ new = Append(events, e)
    BY <1>3, <1>5, <2>1 DEF Sorts
  <2> QED
    BY <1>8, <2>1, <2>2, OutAdded
<1>10. /\ c.size \in Nat /\ (c.size = 0 <=> c.dir = "none") /\ c.dir \in {"in", "out", "none"}
       /\ c.dir = "out" => Whole(c.size)
  BY CommandIs
<1>11. PICK t \in {0, 1} : t = 1 - host.tag /\ t # host.tag
  BY <1>5 DEF Sorts
<1>12. /\ DOMAIN host' = DOMAIN host /\ host'.cmd = c /\ host'.tag = t /\ host'.left = c.size
       /\ host'.astray = FALSE /\ host'.phase = Phase(c, c.size) /\ host'.phase # "idle"
       /\ host'.phase = "out" <=> c.dir = "out"
  <2>1. /\ DOMAIN host' = DOMAIN host /\ host'.cmd = c /\ host'.tag = t /\ host'.left = c.size
        /\ host'.astray = FALSE /\ host'.phase = Phase(c, c.size)
    BY <1>4, <1>5, <1>11 DEF Sorts, Phase
  <2> QED
    BY <1>10, <2>1 DEF Phase
<1>13. /\ bufs'[OutBuf] = <<"cbw", c, t>>
       /\ \A b \in Memory : b # OutBuf => bufs'[b] = bufs[b]
  BY <1>4, <1>11 DEF Shape, OutBuf, Memory
<1>14. Sane'
  BY <1>3, <1>5, <1>7, <1>8, <1>10, <1>12, HostSane, SMTT(60) DEF Sorts, Fresh
<1>15. CASE Asks
  <2>1. outq = <<1>> /\ tx["out"] = [count |-> 1, bytes |-> 1] /\ NoOut(events)
    BY <1>15 DEF Asks, Waiting
  <2>2. outq' = <<>> /\ r = 0 /\ OneOut(events', 0)
    BY <1>2, <1>7, <1>9, <2>1
  <2>3. Came(1, 1)'
    BY <1>6, <2>1, <2>2 DEF Came
  <2>4. Fresh' => inq' = <<>>
    BY <1>3, <1>15 DEF Asks, Closes, Fresh
  <2>5. Heard'
    BY <1>6, <1>10, <1>12, <1>13, <1>15, <2>3, <2>4 DEF Asks, Heard, AtTop
  <2> QED
    BY <1>14, <2>5 DEF Kept, Places
<1>16. CASE Accepts
  <2>1. pc = "fill" /\ Fills /\ Storing
    BY <1>3, <1>16 DEF Accepts, Storing, Writes, Clear, Throws
  <2>2. Waiting(job.posted) /\ Gone
    BY <1>3, <2>1 DEF Fills, Came
  <2>3. PICK n \in Nat : n = job.posted /\ n > 1 /\ n \in 1 .. Buffer /\ Whole(n)
    <3>1. PICK n \in Nat : n = job.posted /\ n > 0 /\ n \in 1 .. Buffer /\ Whole(n)
      BY <2>1 DEF Fills, Buffer, Sector
    <3>2. n > 1
      BY <3>1 DEF Whole, Sector
    <3> QED
      BY <3>1, <3>2
  <2>4. outq' = <<>> /\ r = n - 1 /\ r > 0 /\ OneOut(events', n - 1) /\ Missing(events')
    <3>1. outq = <<n>> /\ NoOut(events)
      BY <2>2, <2>3 DEF Waiting
    <3>2. outq' = <<>> /\ h = n
      BY <1>7, <3>1
    <3> QED
      BY <1>2, <1>9, <2>3, <3>1, <3>2
  <2>5. Came(job.posted, 1)'
    <3>1. tx["out"] = [count |-> 1, bytes |-> n]
      BY <2>2, <2>3 DEF Waiting
    <3>2. job'.posted = n
      BY <1>6, <2>3
    <3> QED
      BY <1>6, <2>4, <3>1, <3>2 DEF Came
  <2>6. lun # 0 /\ cmd.dir = "out" /\ job.tag = host.tag /\ ~queued
    <3>1. lun = cmd.lun /\ cmd \in Commands
      BY <1>16, <2>1 DEF Accepts, Storing
    <3>2. lun # 0
      BY <3>1, CommandIs, GadgetAssumption, SMTT(60) DEF Lun
    <3> QED
      BY <1>16, <3>2 DEF Accepts
  <2>7. Len(inq') = 0 /\ ~Fresh'
    BY <1>3, <2>2 DEF Gone, Fresh
  <2>8. Doomed'
    BY <1>6, <1>11, <1>12, <2>1, <2>3, <2>4, <2>5, <2>6, <2>7 DEF Doomed
  <2> QED
    BY <1>14, <2>8 DEF Kept, Places
<1>17. CASE Stale
  <2>1. h > 1 /\ r > 0 /\ Missing(events')
    BY <1>2, <1>7, <1>9, <1>17 DEF Stale
  <2>2. \A i \in 1 .. Len(inq) : ~Signed(inq[i])'
    <3>1. ASSUME NEW i \in 1 .. Len(inq), Signed(inq[i])' PROVE FALSE
      <4>1. inq[i].from \in Memory
        <5>1. inq[i] \in InTrb
          BY <1>5, <3>1 DEF Sorts
        <5> QED
          BY <5>1 DEF InTrb
      <4>2. bufs'[inq[i].from][1] = "csw" /\ bufs'[inq[i].from][2] = t
        BY <1>3, <1>12, <3>1 DEF Signed
      <4>3. inq[i].from # OutBuf
        BY <1>13, <4>2
      <4>4. bufs[inq[i].from] = bufs'[inq[i].from]
        BY <1>13, <4>1, <4>3
      <4>5. ~Unsigned(inq[i])
        BY <1>17, <3>1 DEF Stale
      <4> QED
        BY <1>11, <4>2, <4>4, <4>5 DEF Unsigned
    <3> QED
      BY <3>1
  <2>3. \A i \in 1 .. Len(inq') : ~Signed(inq[i])'
    BY <1>3, <2>2
  <2>4. Answering' => job'.tag # host'.tag
    BY <1>6, <1>11, <1>12, <1>17 DEF Stale, Answering
  <2>5. Doomed'
    BY <1>3, <1>6, <1>12, <1>17, <2>1, <2>3, <2>4 DEF Stale, Doomed, Fresh, Tails
  <2> QED
    BY <1>14, <2>5 DEF Kept, Places
<1>18. CASE Ended
  BY <1>6, <1>14, <1>18 DEF Kept, Places, Ended
<1> QED
  BY <1>3, <1>15, <1>16, <1>17, <1>18 DEF Kept, Places, Heard, Came, Deaf, Parted, Clear, Doomed

\* The host has data for the first transfer, which may not be for data.
LEMMA SendDataKept ==
  ASSUME Kept, Shape, SendData PROVE Kept'
<1>1. PICK h : h = Head(outq)
  OBVIOUS
<1>2. /\ host.phase = "out" /\ outq # <<>> /\ outq' = Tail(outq)
      /\ UNCHANGED <<inq, device, asleep, upsets>>
  BY DEF SendData
<1>3. Sane /\ Sorts
  BY DEF Kept, Sane
<1>4. UNCHANGED <<tx, bulkReset, pc, res, state, lun, cmd, job, queued, ignore, units, part>>
  BY <1>2 DEF device
<1>5. /\ outq' \in Seq(Nat \ {0}) /\ h \in Nat \ {0} /\ h = outq[1]
      /\ \A n : outq = <<n>> => outq' = <<>> /\ h = n
  BY <1>1, <1>2, <1>3, OutTaken
<1>6. /\ host.left \in Nat /\ host.left > 0 /\ Whole(host.left)
      /\ events \in Seq(Event) /\ OutBuf \in Memory
  BY <1>2, <1>3 DEF Sorts, OutBuf, Memory
<1>7. \/ Asks \/ (Accepts /\ pc \in {"fill", "discard"}) \/ Doomed \/ Ended
  BY <1>2, <1>4
  DEF Kept, Places, Heard, Came, Deaf, Parted, Clear, Stale, Accepts, Storing, Writes
<1>8. ASSUME Accepts
      PROVE  /\ Whole(h)
             /\ pc = "fill" => /\ h = job.posted /\ Waiting(h) /\ res = "ok"
                               /\ host.left = job.left + h
             /\ pc = "discard" => Waiting(h) /\ res = "ok"
  <2>1. pc \in {"fill", "discard"}
    BY <1>2, <1>8 DEF Accepts, Clear, Storing, Writes
  <2>2. CASE pc = "fill"
    <3>1. Waiting(job.posted) /\ Whole(job.posted) /\ res = "ok"
          /\ host.left = job.left + job.posted
      BY <1>2, <1>8, <2>2 DEF Accepts, Storing, Fills, Came, Gone
    <3>2. outq = <<job.posted>>
      BY <3>1 DEF Waiting
    <3>3. h = job.posted
      BY <1>5, <3>2
    <3> QED
      BY <2>2, <3>1, <3>3
  <2>3. CASE pc = "discard"
    <3>1. PICK n \in 1 .. EpMax : Waiting(n) /\ Whole(n)
      BY <1>2, <1>8, <2>3 DEF Accepts, Throws, Clear
    <3>2. h = n
      BY <1>5, <3>1 DEF Waiting
    <3>3. res = "ok"
      BY <1>8, <2>3 DEF Accepts, Throws
    <3> QED
      BY <2>3, <3>1, <3>2, <3>3
  <2> QED
    BY <2>1, <2>2, <2>3
<1>9. CASE h % Sector # 0
  <2>1. host' = [host EXCEPT !.phase = "status"] /\ UNCHANGED bufs
    BY <1>1, <1>9 DEF SendData
  <2>2. PICK e : e = [ep |-> "out", ok |-> FALSE, rest |-> 0]
    OBVIOUS
  <2>3. events' = Append(events, e) /\ e \in Event /\ e.ep = "out" /\ ~e.ok
    BY <1>1, <1>9, <2>2 DEF SendData, Completed, Event
  <2>4. /\ DOMAIN host' = DOMAIN host /\ host'.phase = "status" /\ host'.left = host.left
        /\ host'.tag = host.tag /\ host'.cmd = host.cmd /\ host'.astray = host.astray
    BY <1>3, <2>1 DEF Sorts
  <2>5. Sane'
    BY <1>2, <1>3, <1>5, <2>3, <2>4, HostSane DEF Sane, Sorts, Fresh
  <2>6. /\ NoneCame(events) => NoneCame(events')
        /\ Missing(events) => Missing(events')
    <3>1. PICK new : new = events'
      OBVIOUS
    <3>2. new = Append(events, e)
      BY <2>3, <3>1
    <3> QED
      BY <1>6, <2>3, <3>1, <3>2, OutAdded
  <2>7. CASE Asks
    <3>1. outq = <<1>> /\ tx["out"].count = 1 /\ NoneCame(events)
      BY <2>7, NoOutNoneCame DEF Asks, Waiting
    <3>2. outq' = <<>>
      BY <1>5, <3>1
    <3>3. Deaf'
      BY <1>4, <2>6, <2>7, <3>1, <3>2 DEF Asks, Deaf, AtTop
    <3> QED
      BY <2>5, <3>3 DEF Kept, Places
  <2>8. CASE Accepts
    BY <1>8, <1>9, <2>8 DEF Whole
  <2>9. CASE Doomed
    <3>1. pc = "fill" => res # "ok"
      BY <1>2, <2>9 DEF Doomed, Came
    <3>2. \A i \in 1 .. Len(inq') : ~Signed(inq[i])'
      BY <1>2, <2>1, <2>4, <2>9 DEF Doomed, Signed
    <3>3. bufs'[OutBuf][1] # "cbw" \/ NoneCame(events') \/ Missing(events')
      BY <2>1, <2>6, <2>9 DEF Doomed
    <3>4. Doomed'
      BY <1>2, <1>4, <2>1, <2>4, <2>9, <3>1, <3>2, <3>3 DEF Doomed, Fresh, Answering
    <3> QED
      BY <2>5, <3>4 DEF Kept, Places
  <2>10. CASE Ended
    BY <1>4, <2>5, <2>10 DEF Kept, Places, Ended
  <2> QED
    BY <1>7, <2>7, <2>8, <2>9, <2>10
<1>10. CASE h % Sector = 0
  <2>1. PICK n \in Nat : n = Least(h, host.left) /\ n <= h /\ n <= host.left /\ n > 1 /\ Whole(n)
    <3>1. PICK n \in Nat : n = Least(h, host.left) /\ n <= h /\ n <= host.left /\ n \in {h, host.left}
      BY <1>5, <1>6 DEF Least
    <3>2. n > 0 /\ Whole(n)
      BY <1>5, <1>6, <1>10, <3>1 DEF Whole
    <3>3. n > 1
      BY <3>2 DEF Whole, Sector
    <3> QED
      BY <3>1, <3>2, <3>3
  <2>2. PICK d, r, l : d = (host.cmd.size - host.left) \div Sector /\ r = h - n /\ l = host.left - n
    OBVIOUS
  <2>3. r \in Nat /\ l \in Nat /\ Whole(l) /\ (l = 0 <=> n = host.left)
    <3>1. r \in Nat /\ l \in Nat /\ (l = 0 <=> n = host.left)
      BY <1>5, <1>6, <2>1, <2>2, SMTT(60)
    <3>2. Whole(l)
      BY <1>6, <2>1, <2>2, WholeSum
    <3> QED
      BY <3>1, <3>2
  <2>4. /\ host' = [host EXCEPT !.left = l, !.phase = IF l = 0 THEN "status" ELSE "out"]
        /\ bufs' = [b \in Memory |-> IF b - OutBuf \in 0 .. n \div Sector - 1
                                     THEN <<"data", d + b - OutBuf, host.tag>>
                                     ELSE bufs[b]]
    BY <1>1, <1>10, <2>1, <2>2, <2>3 DEF SendData
  <2>5. PICK e : e = [ep |-> "out", ok |-> TRUE, rest |-> r]
    OBVIOUS
  <2>6. events' = Append(events, e) /\ e \in Event /\ e.ep = "out" /\ e.ok /\ e.rest = r
    BY <1>1, <1>10, <2>1, <2>2, <2>3, <2>5 DEF SendData, Completed, Event
  <2>7. /\ DOMAIN host' = DOMAIN host /\ host'.left = l
        /\ host'.phase = (IF l = 0 THEN "status" ELSE "out")
        /\ host'.tag = host.tag /\ host'.cmd = host.cmd /\ host'.astray = host.astray
    BY <1>3, <2>4 DEF Sorts
  <2>8. Sane'
    <3>1. host'.left \in Nat /\ host'.tag \in {0, 1} /\ ~host'.astray /\ inq' \in Seq(InTrb)
      BY <1>2, <1>3, <2>3, <2>7 DEF Sane, Sorts
    <3>2. host'.phase = "out" => host'.left > 0 /\ Whole(host'.left)
      BY <2>3, <2>7
    <3>3. Fresh' => Fresh
      BY <1>2 DEF Fresh
    <3> QED
      BY <1>2, <1>3, <1>5, <2>6, <2>7, <3>1, <3>2, <3>3, HostSane
  <2>9. NoOut(events) => OneOut(events', r)
    <3>1. PICK new : new = events'
      OBVIOUS
    <3>2. new = Append(events, e)
      BY <2>6, <3>1
    <3> QED
      BY <1>6, <2>6, <3>1, <3>2, OutAdded
  <2>10. CASE Asks
    <3>1. h = 1
      BY <1>5, <2>10 DEF Asks, Waiting
    <3> QED
      BY <1>10, <3>1 DEF Sector
  <2>11. CASE Accepts /\ pc = "fill"
    <3>1. /\ h = job.posted /\ Waiting(h) /\ res = "ok" /\ host.left = job.left + h
          /\ Fills /\ Storing /\ cmd = host.cmd /\ job.left \in Nat
      BY <1>3, <1>8, <2>11 DEF Accepts, Storing, Sorts
    <3>2. n = h /\ l = job.left /\ r = 0
      BY <1>5, <2>1, <2>2, <3>1 DEF Least
    <3>3. outq = <<h>> /\ NoOut(events) /\ tx["out"] = [count |-> 1, bytes |-> h]
      BY <3>1 DEF Waiting
    <3>4. Came(job.posted, job.posted)'
      <4>1. outq' = <<>> /\ OneOut(events', 0) /\ 0 = h - h
        BY <1>5, <2>9, <3>2, <3>3
      <4> QED
        BY <1>4, <3>1, <3>3, <4>1 DEF Came
    <3>5. Sends(job.left)'
      BY <1>4, <2>7, <3>2 DEF Sends
    <3>6. Loaded'
      <4>1. PICK x \in Int : x = job.lba - cmd.lba /\ x = d
        <5>1. job.lba = cmd.lba + (cmd.size - (job.left + job.posted)) \div Sector
          BY <3>1 DEF Fills
        <5>2. job.lba = cmd.lba + d
          BY <2>2, <3>1, <5>1
        <5>3. cmd.lba \in Nat /\ job.lba \in Nat /\ d \in Int
          <6>1. cmd \in Commands /\ cmd.size \in Nat /\ cmd.lba \in Nat
            BY <2>11, CommandIs DEF Accepts
          <6> QED
            BY <1>3, <1>6, <2>2, <3>1, <6>1 DEF Sorts, Sector
        <5> QED
          BY <5>2, <5>3
      <4>2. ASSUME NEW i \in 0 .. h \div Sector - 1
            PROVE  bufs'[OutBuf + i] = <<"data", x + i, host.tag>>
        <5>1. h \in 1 .. 4
          BY <3>1 DEF Fills, Buffer, Sector
        <5>2. i \in {0, 1}
          BY <4>2, <5>1 DEF Sector
        <5>3. PICK b \in Memory : b = OutBuf + i /\ b - OutBuf = i
          BY <5>2 DEF OutBuf, Memory
        <5>4. bufs'[b] = <<"data", d + b - OutBuf, host.tag>>
          BY <2>4, <3>2, <4>2, <5>3
        <5>5. d + b - OutBuf = x + i
          BY <4>1, <5>3 DEF OutBuf
        <5> QED
          BY <5>3, <5>4, <5>5
      <4> QED
        BY <1>4, <2>7, <3>1, <4>1, <4>2 DEF Loaded
    <3>7. Fills'
      BY <1>4, <3>1, <3>4, <3>5, <3>6 DEF Fills
    <3>8. Storing'
      BY <1>4, <2>11, <3>1, <3>7 DEF Storing
    <3>9. Accepts'
      BY <1>2, <1>4, <2>7, <2>11, <3>8 DEF Accepts, Fresh
    <3> QED
      BY <2>8, <3>9 DEF Kept, Places
  <2>12. CASE Accepts /\ pc = "discard"
    <3>1. Waiting(h) /\ res = "ok"
      BY <1>8, <2>12
    <3>2. outq' = <<>> /\ OneOut(events', r) /\ tx["out"].count = 1
      BY <1>5, <2>9, <3>1 DEF Waiting
    <3>3. Throws'
      BY <1>4, <2>3, <3>1, <3>2 DEF Throws
    <3>4. Accepts'
      BY <1>2, <1>4, <2>7, <2>12, <3>3 DEF Accepts, Fresh
    <3> QED
      BY <2>8, <3>4 DEF Kept, Places
  <2>13. CASE Doomed
    <3>1. pc = "fill" => res # "ok"
      BY <1>2, <2>13 DEF Doomed, Came
    <3>2. bufs'[OutBuf][1] = "data"
      <4>1. OutBuf - OutBuf \in 0 .. n \div Sector - 1
        BY <2>1 DEF OutBuf, Sector
      <4> QED
        BY <1>6, <2>4, <4>1
    <3>3. \A i \in 1 .. Len(inq') : ~Signed(inq[i])'
      <4>1. ASSUME NEW i \in 1 .. Len(inq), Signed(inq[i])' PROVE FALSE
        <5>1. inq[i].from \in Memory
          <6>1. inq[i] \in InTrb
            BY <1>3, <4>1 DEF Sorts
          <6> QED
            BY <6>1 DEF InTrb
        <5>2. PICK b \in Memory : b = inq[i].from
          BY <5>1
        <5>3. bufs'[b][1] = "csw" /\ bufs'[b][2] = host.tag
          BY <1>2, <2>7, <4>1, <5>2 DEF Signed
        <5>4. bufs'[b] = bufs[b]
          BY <2>4, <5>3
        <5> QED
          BY <2>13, <4>1, <5>2, <5>3, <5>4 DEF Doomed, Signed
      <4> QED
        BY <1>2, <4>1
    <3>4. Doomed'
      BY <1>2, <1>4, <2>7, <2>13, <3>1, <3>2, <3>3 DEF Doomed, Fresh, Answering
    <3> QED
      BY <2>8, <3>4 DEF Kept, Places
  <2>14. CASE Ended
    BY <1>4, <2>8, <2>14, SMTT(60) DEF Kept, Places, Ended
  <2> QED
    BY <1>7, <2>10, <2>11, <2>12, <2>13, <2>14
<1> QED
  BY <1>9, <1>10

\* The host has no more data.
LEMMA StopEarlyKept ==
  ASSUME Kept, Shape, StopEarly PROVE Kept'
<1>1. PICK h : h = Head(outq)
  OBVIOUS
<1>2. PICK e : e = [ep |-> "out", ok |-> TRUE, rest |-> h]
  OBVIOUS
<1>3. /\ host.phase = "out" /\ outq # <<>> /\ outq' = Tail(outq) /\ h % Sector = 0
      /\ host' = [host EXCEPT !.phase = "status", !.left = 0]
      /\ events' = Append(events, e) /\ upsets' = upsets \cup {"early"}
      /\ UNCHANGED <<inq, bufs, device, asleep>>
  BY <1>1, <1>2 DEF StopEarly, Upset, Completed
<1>4. Sane /\ Sorts
  BY DEF Kept, Sane
<1>5. UNCHANGED <<tx, bulkReset, pc, res, state, lun, cmd, job, queued, ignore, units, part>>
  BY <1>3 DEF device
<1>6. /\ outq' \in Seq(Nat \ {0}) /\ h \in Nat \ {0}
      /\ \A n : outq = <<n>> => outq' = <<>> /\ h = n
  BY <1>1, <1>3, <1>4, OutTaken
<1>7. e \in Event /\ e.ep = "out" /\ e.ok /\ e.rest = h /\ Fresh' = Fresh
  BY <1>2, <1>3, <1>6 DEF Event, Fresh
<1>8. /\ DOMAIN host' = DOMAIN host /\ host'.phase = "status" /\ host'.left = 0
      /\ host'.tag = host.tag /\ host'.cmd = host.cmd /\ host'.astray = host.astray
  BY <1>3, <1>4 DEF Sorts
<1>9. Sane'
  BY <1>3, <1>4, <1>6, <1>7, <1>8, HostSane DEF Sane, Sorts
<1>10. (NoOut(events) => OneOut(events', h)) /\ Missing(events')
  <2>1. PICK new : new = events'
    OBVIOUS
  <2>2. new = Append(events, e) /\ events \in Seq(Event)
    BY <1>3, <1>4, <2>1 DEF Sorts
  <2>3. e.rest > 0
    BY <1>6, <1>7
  <2> QED
    BY <1>7, <2>1, <2>2, <2>3, OutAdded
<1>11. CASE Asks
  <2>1. h = 1
    BY <1>6, <1>11 DEF Asks, Waiting
  <2> QED
    BY <1>3, <2>1 DEF Sector
<1>12. CASE Accepts /\ pc = "fill"
  <2>1. Storing /\ Fills /\ Waiting(job.posted) /\ res = "ok"
    BY <1>3, <1>12 DEF Accepts, Storing, Fills, Came, Gone
  <2>2. Came(job.posted, 0)'
    <3>1. PICK n \in Nat : n = job.posted /\ n - 0 = n
      BY <2>1 DEF Fills, Buffer, Sector
    <3>2. outq = <<n>> /\ NoOut(events) /\ tx["out"] = [count |-> 1, bytes |-> n]
      BY <2>1, <3>1 DEF Waiting
    <3>3. outq' = <<>> /\ h = n
      BY <1>6, <3>2
    <3> QED
      BY <1>5, <1>10, <3>1, <3>2, <3>3 DEF Came
  <2>3. Fills'
    BY <1>5, <2>1, <2>2 DEF Fills, Waiting, Came
  <2>4. Storing'
    BY <1>5, <1>12, <2>1, <2>3 DEF Storing
  <2>5. Accepts'
    BY <1>3, <1>5, <1>7, <1>8, <1>12, <2>4 DEF Accepts
  <2> QED
    BY <1>9, <2>5 DEF Kept, Places
<1>13. CASE Accepts /\ pc = "discard"
  <2>1. PICK n \in 1 .. EpMax : Waiting(n)
    BY <1>3, <1>13 DEF Accepts, Throws, Clear
  <2>2. outq' = <<>> /\ OneOut(events', h) /\ tx["out"].count = 1 /\ res = "ok"
    BY <1>6, <1>10, <1>13, <2>1 DEF Waiting, Accepts, Throws
  <2>3. Throws'
    BY <1>5, <1>6, <2>2 DEF Throws
  <2>4. Accepts'
    BY <1>3, <1>5, <1>7, <1>8, <1>13, <2>3 DEF Accepts
  <2> QED
    BY <1>9, <2>4 DEF Kept, Places
<1>14. CASE Doomed
  <2>1. pc = "fill" => res # "ok"
    BY <1>3, <1>14 DEF Doomed, Came
  <2>2. \A i \in 1 .. Len(inq') : ~Signed(inq[i])'
    BY <1>3, <1>8, <1>14 DEF Doomed, Signed
  <2>3. Doomed'
    BY <1>3, <1>5, <1>7, <1>8, <1>10, <1>14, <2>1, <2>2 DEF Doomed, Answering
  <2> QED
    BY <1>9, <2>3 DEF Kept, Places
<1>15. CASE Ended
  BY <1>5, <1>9, <1>15 DEF Kept, Places, Ended
<1> QED
  BY <1>3, <1>5, <1>11, <1>12, <1>13, <1>14, <1>15
  DEF Kept, Places, Heard, Came, Deaf, Parted, Clear, Stale, Accepts, Storing, Writes

\* The host takes a transfer.
LEMMA HostTakes ==
  ASSUME Kept, Shape, inq # <<>>, inq' = Tail(inq), Completed("in", TRUE, 0),
         UNCHANGED <<outq, bufs, device, asleep, upsets>>,
         host.phase \in {"in", "status"}, DOMAIN host' = DOMAIN host,
         host'.cmd = host.cmd, host'.tag = host.tag, host'.astray = host.astray,
         host'.left \in Nat, host'.phase # "out",
         Closes => Closes', \A p : Takes(p) => Takes(p)', Doomed => host'.phase # "idle"
  PROVE  Kept'
<1>1. PICK e : e = [ep |-> "in", ok |-> TRUE, rest |-> 0]
  OBVIOUS
<1>2. events' = Append(events, e) /\ e \in Event /\ e.ep = "in"
  BY <1>1 DEF Completed, Event
<1>3. Sane /\ Sorts
  BY DEF Kept, Sane
<1>4. UNCHANGED <<tx, bulkReset, pc, res, state, lun, cmd, job, queued, ignore, units, part>>
  BY DEF device
<1>5. Fresh' = Fresh
  BY DEF Fresh
<1>6. /\ NoOut(events) => NoOut(events')
      /\ \A r : OneOut(events, r) => OneOut(events', r)
      /\ NoneCame(events) => NoneCame(events')
      /\ Missing(events) => Missing(events')
  <2>1. PICK new : new = events'
    OBVIOUS
  <2>2. new = Append(events, e) /\ events \in Seq(Event)
    BY <1>2, <1>3, <2>1 DEF Sorts
  <2> QED
    BY <1>2, <2>1, <2>2, OtherAdded
<1>7. Sane'
  <2>1. inq' \in Seq(InTrb) /\ outq' \in Seq(Nat \ {0}) /\ host'.tag \in {0, 1} /\ ~host'.astray
    BY <1>3 DEF Sane, Sorts
  <2> QED
    BY <1>2, <1>3, <1>5, <2>1, HostSane
<1>8. \A n, m : Came(n, m) => Came(n, m)'
  BY <1>4, <1>6 DEF Came
<1>9. Clear => Clear'
  BY <1>6 DEF Clear
<1>10. \A n : Waiting(n) => Waiting(n)'
  BY <1>4, <1>6 DEF Waiting
<1>11. CASE Asks
  <2>1. Asks'
    BY <1>4, <1>5, <1>10, <1>11 DEF Asks, AtTop
  <2> QED
    BY <1>7, <2>1 DEF Kept, Places
<1>12. CASE Heard
  <2>1. ~Fresh' /\ host.cmd.dir # "out" /\ Came(1, 1)'
    BY <1>5, <1>8, <1>12 DEF Heard
  <2>2. Heard'
    BY <1>4, <1>12, <2>1 DEF Heard, AtTop
  <2> QED
    BY <1>7, <2>2 DEF Kept, Places
<1>13. CASE Deaf
  <2>1. Deaf'
    BY <1>4, <1>6, <1>13 DEF Deaf, AtTop
  <2> QED
    BY <1>7, <2>1 DEF Kept, Places
<1>14. CASE Parted
  <2>1. ToCome' = ToCome
    BY <1>4 DEF ToCome
  <2>2. Fresh' => IF pc' = "status" \/ (pc' = "top" /\ state' # "abort") THEN Closes' ELSE Takes(ToCome)'
    <3>1. Takes(ToCome) => Takes(ToCome)'
      <4>1. PICK p : p = ToCome
        OBVIOUS
      <4>2. Takes(p) => Takes(p)'
        OBVIOUS
      <4>3. Takes(p)' => Takes(ToCome)'
        BY <2>1, <4>1 DEF Takes
      <4> QED
        BY <4>1, <4>2, <4>3
    <3> QED
      BY <1>4, <1>5, <1>14, <3>1 DEF Parted
  <2>3. Parted'
    BY <1>4, <1>9, <1>14, <2>2 DEF Parted
  <2> QED
    BY <1>7, <2>3 DEF Kept, Places
<1>15. CASE Accepts
  <2>1. ~Fresh /\ ~Gone /\ \A n : Sends(n) => n = 0
    BY <1>15 DEF Accepts, Gone, Sends
  <2>2. \A n : Sends(n) => Sends(n)'
    BY <2>1 DEF Sends
  <2>3. pc = "fill" /\ Fills => Fills'
    <3>1. ASSUME pc = "fill", Fills PROVE Fills'
      <4>1. res = "ok" /\ (\/ Came(job.posted, job.posted) /\ Sends(job.left) /\ Loaded
                           \/ Came(job.posted, 0))
        BY <2>1, <3>1 DEF Fills
      <4>2. Loaded => Loaded'
        BY <1>4 DEF Loaded
      <4>3. Sends(job.left) => Sends(job.left)'
        BY <1>4, <2>2 DEF Sends
      <4>4. /\ Came(job.posted, job.posted) => Came(job.posted, job.posted)'
            /\ Came(job.posted, 0) => Came(job.posted, 0)'
        BY <1>4, <1>8 DEF Came
      <4> QED
        BY <1>4, <3>1, <4>1, <4>2, <4>3, <4>4 DEF Fills
    <3> QED
      BY <3>1
  <2>4. Writes => Writes'
    BY <1>4, <1>9, <2>2 DEF Writes, Sends, Asked
  <2>5. Storing => Storing'
    BY <1>4, <2>3, <2>4 DEF Storing
  <2>6. Throws => Throws'
    BY <1>4, <1>6, <1>9 DEF Throws, Waiting
  <2>7. Accepts'
    BY <1>4, <1>5, <1>9, <1>15, <2>1, <2>2, <2>5, <2>6 DEF Accepts, Sends
  <2> QED
    BY <1>7, <2>7 DEF Kept, Places
<1>16. CASE Doomed
  <2>1. \A i \in 1 .. Len(inq') : ~Signed(inq[i])'
    <3>1. PICK q, s : q = inq /\ s = Tail(q) /\ s = inq' /\ q \in Seq(InTrb) /\ q # <<>>
      BY <1>3 DEF Sorts
    <3>2. \A i \in 1 .. Len(s) : s[i] = q[i + 1] /\ i + 1 \in 1 .. Len(q)
      BY <3>1
    <3>3. \A i \in 1 .. Len(s) : ~Signed(s[i])
      BY <1>16, <3>1, <3>2 DEF Doomed
    <3>4. ASSUME NEW i \in 1 .. Len(inq'), Signed(inq[i])' PROVE FALSE
      <4>1. inq'[i] = s[i] /\ i \in 1 .. Len(s)
        BY <3>1, <3>4
      <4>2. Signed(s[i])
        BY <3>4, <4>1 DEF Signed
      <4> QED
        BY <3>3, <4>1, <4>2
    <3> QED
      BY <3>4
  <2>2. Doomed'
    BY <1>4, <1>5, <1>6, <1>8, <1>16, <2>1 DEF Doomed, Answering
  <2> QED
    BY <1>7, <2>2 DEF Kept, Places
<1>17. CASE Ended
  BY <1>4, <1>7, <1>17 DEF Kept, Places, Ended
<1> QED
  BY <1>11, <1>12, <1>13, <1>14, <1>15, <1>16, <1>17 DEF Kept, Places, Stale

LEMMA TakeDataKept ==
  ASSUME Kept, Shape, TakeData PROVE Kept'
<1>1. PICK t : t = Head(inq)
  OBVIOUS
<1>2. /\ host.phase = "in" /\ inq # <<>> /\ inq' = Tail(inq) /\ Completed("in", TRUE, 0)
      /\ UNCHANGED <<outq, bufs, device, asleep, upsets>>
  BY DEF TakeData
<1>3. Sane /\ Sorts /\ inq \in Seq(InTrb)
  BY DEF Kept, Sane, Sorts
<1>4. PICK l \in Nat : l = host.left
  BY <1>3 DEF Sorts
<1>5. t \in InTrb /\ t.len \in Nat
  <2>1. t \in InTrb
    BY <1>1, <1>2, <1>3
  <2> QED
    BY <2>1 DEF InTrb
<1>6. PICK n \in Nat : n = t.len
  BY <1>5
<1>7. CASE n > l
  <2>1. host' = [host EXCEPT !.phase = "lost"]
    BY <1>1, <1>4, <1>6, <1>7 DEF TakeData
  <2>2. /\ DOMAIN host' = DOMAIN host /\ host'.phase = "lost" /\ host'.left = host.left
        /\ host'.tag = host.tag /\ host'.cmd = host.cmd /\ host'.astray = host.astray
    BY <1>3, <2>1 DEF Sorts
  <2>3. Closes' /\ \A p : Takes(p)'
    BY <2>2 DEF Closes, Takes
  <2> QED
    BY <1>2, <1>4, <2>2, <2>3, HostTakes
<1>8. CASE n <= l
  <2>1. PICK k \in Nat : k = l - n
    BY <1>8
  <2>2. PICK g : g = host.good + Cardinality(Right(t, host.cmd.size - host.left))
    OBVIOUS
  <2>3. host' = [host EXCEPT !.left = k,
                   !.phase = IF k = 0 \/ n % Sector # 0 \/ n = 0 THEN "status" ELSE "in",
                   !.good = g]
    <3>1. ~(t.len > host.left) /\ (t.len = host.left <=> k = 0)
      BY <1>4, <1>6, <1>8, <2>1
    <3> QED
      BY <1>1, <1>4, <1>6, <2>1, <2>2, <3>1 DEF TakeData
  <2>4. /\ DOMAIN host' = DOMAIN host /\ host'.left = k
        /\ host'.phase = (IF k = 0 \/ n % Sector # 0 \/ n = 0 THEN "status" ELSE "in")
        /\ host'.tag = host.tag /\ host'.cmd = host.cmd /\ host'.astray = host.astray
    BY <1>3, <2>3 DEF Sorts
  <2>5. ASSUME NEW q \in Seq(InTrb), q # <<>>, NEW p, Chain(q, l, p), Head(q) = t, l > 0
        PROVE  \/ k > 0 /\ host'.phase = "in" /\ Chain(Tail(q), k, p)
               \/ k = 0 /\ host'.phase = "status" /\ Tail(q) = <<>> /\ p = 0
    <3>1. n > 0 /\ (Whole(n) \/ k = 0) /\ Chain(Tail(q), k, p) /\ Tail(q) \in Seq(InTrb)
      <4>1. t.len > 0 /\ (Whole(t.len) \/ l - t.len = 0) /\ Tail(q) \in Seq(InTrb)
            /\ Chain(Tail(q), l - t.len, p)
        BY <2>5, ChainTail
      <4> QED
        BY <1>6, <2>1, <4>1
    <3>2. CASE k = 0
      <4>1. PICK s \in Seq(InTrb) : s = Tail(q) /\ Chain(s, k, p)
        BY <3>1
      <4>2. ASSUME NEW x \in Seq(InTrb), Chain(x, k, p) PROVE x = <<>> /\ p = 0
        BY <3>2, <4>2, ChainOver
      <4> QED
        <5>1. Tail(q) = <<>> /\ p = 0
          BY <4>1, <4>2, Zenon
        <5>2. host'.phase = "status"
          BY <2>4, <3>2
        <5> QED
          BY <3>2, <5>1, <5>2, Zenon
    <3>3. CASE k # 0
      BY <2>1, <2>4, <3>1, <3>3 DEF Whole
    <3> QED
      BY <3>2, <3>3
  <2>6. ASSUME NEW p, Takes(p) PROVE Takes(p)'
    <3>1. Chain(inq, l, p) /\ l > 0
      BY <1>2, <1>4, <2>6 DEF Takes
    <3>2. \/ k > 0 /\ host'.phase = "in" /\ Chain(Tail(inq), k, p)
          \/ k = 0 /\ host'.phase = "status" /\ Tail(inq) = <<>> /\ p = 0
      BY <1>1, <1>2, <1>3, <2>5, <3>1
    <3> QED
      BY <1>2, <2>4, <3>2 DEF Takes
  <2>7. ASSUME Closes PROVE Closes'
    <3>1. PICK q \in Seq(InTrb), u \in InTrb : inq = Append(q, u) /\ Chain(q, l, 0) /\ l > 0
      BY <1>2, <1>4, <2>7 DEF Closes
    <3>2. q # <<>>
      BY <1>4, <3>1, ChainStarts
    <3>3. Head(q) = t /\ inq' = Append(Tail(q), u) /\ Tail(q) \in Seq(InTrb)
      BY <1>1, <1>2, <3>1, <3>2
    <3>4. \/ k > 0 /\ host'.phase = "in" /\ Chain(Tail(q), k, 0)
          \/ k = 0 /\ host'.phase = "status" /\ Tail(q) = <<>>
      BY <2>5, <3>1, <3>2, <3>3
    <3>5. CASE k > 0 /\ host'.phase = "in" /\ Chain(Tail(q), k, 0)
      BY <2>4, <3>3, <3>5 DEF Closes
    <3>6. CASE k = 0 /\ host'.phase = "status" /\ Tail(q) = <<>>
      <4>1. Len(inq') = 1
        <5>1. PICK s \in Seq(InTrb) : s = Tail(q) /\ s = <<>>
          BY <3>3, <3>6
        <5>2. PICK v : v = inq' /\ v = Append(s, u)
          BY <3>3, <5>1
        <5>3. Len(s) = 0 /\ Len(v) = Len(s) + 1
          BY <5>1, <5>2
        <5>4. Len(v) = 1
          BY <5>3
        <5> QED
          BY <5>2, <5>4, Zenon
      <4> QED
        BY <3>6, <4>1 DEF Closes
    <3> QED
      BY <3>4, <3>5, <3>6
  <2>8. host'.phase \in {"in", "status"}
    BY <2>4
  <2> QED
    BY <1>2, <2>1, <2>4, <2>6, <2>7, <2>8, HostTakes
<1> QED
  BY <1>4, <1>6, <1>7, <1>8

\* A host that was not sent its status is lost, or goes on.
LEMMA TakeStatusKept ==
  ASSUME Kept, Shape, TakeStatus PROVE Kept'
<1>1. PICK t, b, x, y : t = Head(inq) /\ b = bufs[t.from] /\ x = b[3] /\ y = b[4]
  OBVIOUS
<1>2. /\ host.phase = "status" /\ inq # <<>> /\ inq' = Tail(inq) /\ Completed("in", TRUE, 0)
      /\ UNCHANGED <<outq, bufs, device, asleep, upsets>>
  BY DEF TakeStatus
<1>3. Sane /\ Sorts /\ inq \in Seq(InTrb)
  BY DEF Kept, Sane, Sorts
<1>4. PICK good \in BOOLEAN : good = (t.len = 1 /\ b[1] = "csw" /\ b[2] = host.tag)
  OBVIOUS
<1>5. host' = IF good THEN [host EXCEPT !.phase = "idle", !.status = x, !.residue = y]
              ELSE [host EXCEPT !.phase = "lost"]
  BY <1>1, <1>4 DEF TakeStatus
<1>6. /\ DOMAIN host' = DOMAIN host /\ host'.left = host.left /\ host'.left \in Nat
      /\ host'.phase = (IF good THEN "idle" ELSE "lost")
      /\ host'.tag = host.tag /\ host'.cmd = host.cmd /\ host'.astray = host.astray
  BY <1>3, <1>4, <1>5 DEF Sorts
<1>7. \A p : Takes(p) => Takes(p)'
  BY <1>2, <1>6 DEF Takes
<1>8. Closes => Closes'
  <2>1. ASSUME Closes PROVE inq' = <<>>
    <3>1. Len(inq) = 1
      BY <1>2, <2>1 DEF Closes
    <3> QED
      BY <1>2, <1>3, <3>1
  <2> QED
    BY <1>6, <2>1 DEF Closes
<1>9. Doomed => ~good
  <2>1. ASSUME Doomed PROVE ~Signed(t)
    <3>1. 1 \in 1 .. Len(inq) /\ t = inq[1]
      BY <1>1, <1>2, <1>3
    <3> QED
      BY <2>1, <3>1 DEF Doomed
  <2> QED
    BY <1>1, <1>4, <2>1 DEF Signed
<1> QED
  BY <1>2, <1>4, <1>6, <1>7, <1>8, <1>9, HostTakes

\* The host forgets its command; the next goes where the data of this one
\* would have.
LEMMA BulkResetKept ==
  ASSUME Kept, Shape, BulkReset PROVE Kept'
<1>1. PICK e : e = [ep |-> "reset", ok |-> TRUE, rest |-> 0]
  OBVIOUS
<1>2. /\ upsets' = upsets \cup {"reset"} /\ "reset" \notin upsets /\ host.phase # "idle"
      /\ host' = [host EXCEPT !.phase = "idle", !.left = 0]
      /\ events' = Append(events, e)
      /\ UNCHANGED <<outq, inq, bufs, device, asleep>>
  BY <1>1 DEF BulkReset, Upset, Completed
<1>3. Fresh /\ ~Fresh'
  BY <1>2 DEF Fresh
<1>4. Sane /\ Sorts
  BY DEF Kept, Sane
<1>5. UNCHANGED <<outq, inq, bufs, tx, bulkReset, pc, res, state, lun, cmd, job, queued, ignore,
                  units, part>>
  BY <1>2 DEF device
<1>6. /\ DOMAIN host' = DOMAIN host /\ host'.phase = "idle" /\ host'.left = 0
      /\ host'.tag = host.tag /\ host'.cmd = host.cmd /\ host'.astray = host.astray
  BY <1>2, <1>4 DEF Sorts
<1>7. e \in Event /\ e.ep = "reset"
  BY <1>1 DEF Event
<1>8. /\ NoOut(events) => NoOut(events')
      /\ \A r : OneOut(events, r) => OneOut(events', r)
      /\ NoneCame(events) => NoneCame(events')
      /\ events' \in Seq(Event)
  <2>1. PICK new : new = events'
    OBVIOUS
  <2>2. new = Append(events, e) /\ events \in Seq(Event)
    BY <1>2, <1>4, <2>1 DEF Sorts
  <2>3. new \in Seq(Event)
    BY <1>7, <2>2
  <2> QED
    BY <1>7, <2>1, <2>2, <2>3, OtherAdded
<1>9. Sane'
  <2>1. Sorts'
    BY <1>4, <1>5, <1>6, <1>8 DEF Sorts
  <2> QED
    BY <1>3, <1>4, <1>5, <1>6, <2>1 DEF Sane
<1>10. \A n, m : Came(n, m) => Came(n, m)'
  BY <1>5, <1>8 DEF Came
<1>11. \A n : Waiting(n) => Waiting(n)'
  BY <1>5, <1>8 DEF Waiting
<1>12. Clear => Clear'
  BY <1>5, <1>8 DEF Clear
<1>13. CASE Asks
  <2>1. Asks'
    BY <1>3, <1>5, <1>11, <1>13 DEF Asks, AtTop
  <2> QED
    BY <1>9, <2>1 DEF Kept, Places
<1>14. CASE Heard
  <2>1. Came(1, 1)' /\ inq' = <<>>
    BY <1>3, <1>5, <1>10, <1>14 DEF Heard
  <2>2. Heard'
    BY <1>3, <1>5, <1>6, <1>14, <2>1 DEF Heard, AtTop
  <2> QED
    BY <1>9, <2>2 DEF Kept, Places
<1>15. CASE Deaf
  <2>1. Deaf'
    BY <1>5, <1>8, <1>15 DEF Deaf, AtTop
  <2> QED
    BY <1>9, <2>1 DEF Kept, Places
<1>16. CASE Parted
  <2>1. Parted'
    BY <1>3, <1>5, <1>12, <1>16 DEF Parted
  <2> QED
    BY <1>9, <2>1 DEF Kept, Places
<1>17. CASE Accepts /\ ~(pc = "discard" /\ \E n \in 1 .. EpMax : Waiting(n) /\ Whole(n))
  <2>1. Gone'
    BY <1>3, <1>5, <1>6, <1>17 DEF Accepts, Gone
  <2>2. Sends(job.left)'
    BY <2>1 DEF Sends
  <2>3. pc = "write" /\ Writes => Writes'
    BY <1>5, <1>12, <2>2 DEF Writes, Asked
  <2>4. pc = "fill" /\ Fills => Fills'
    <3>1. ASSUME pc = "fill", Fills PROVE Fills'
      <4>1. Loaded => Loaded'
        BY <1>5, <1>6 DEF Loaded
      <4>2. /\ Came(job.posted, job.posted) => Came(job.posted, job.posted)'
            /\ Came(job.posted, 0) => Came(job.posted, 0)'
            /\ Waiting(job.posted) => Waiting(job.posted)'
        BY <1>5, <1>10, <1>11 DEF Came, Waiting
      <4> QED
        BY <1>5, <2>1, <2>2, <3>1, <4>1, <4>2 DEF Fills
    <3> QED
      BY <3>1
  <2>5. Storing => Storing'
    BY <1>5, <2>3, <2>4 DEF Storing
  <2>6. pc = "discard" /\ Throws => Throws'
    BY <1>5, <1>8, <1>12, <1>17 DEF Throws
  <2>7. Accepts'
    BY <1>3, <1>5, <1>6, <1>12, <1>17, <2>2, <2>5, <2>6 DEF Accepts
  <2> QED
    BY <1>9, <2>7 DEF Kept, Places
<1>18. CASE Accepts /\ pc = "discard" /\ \E n \in 1 .. EpMax : Waiting(n) /\ Whole(n)
  <2>1. PICK n \in 1 .. EpMax : Waiting(n) /\ Whole(n)
    BY <1>18
  <2>2. n > 1
    <3>1. n \in Nat /\ n > 0
      BY <2>1 DEF EpMax, Buffer, Sector
    <3> QED
      BY <2>1, <3>1 DEF Whole, Sector
  <2>3. outq' # <<>> /\ outq'[1] = n /\ NoOut(events')
    BY <1>5, <1>8, <2>1 DEF Waiting
  <2>4. Len(inq') = 0
    BY <1>3, <1>5, <1>18 DEF Accepts
  <2>5. \A i \in 1 .. Len(inq') : ~Unsigned(inq[i])'
    BY <2>4
  <2>6. ~queued' /\ job'.tag = host'.tag /\ pc' = "discard"
    BY <1>5, <1>6, <1>18 DEF Accepts
  <2>7. Stale'
    BY <1>3, <1>6, <2>2, <2>3, <2>5, <2>6 DEF Stale, Tails
  <2> QED
    BY <1>9, <2>7 DEF Kept, Places
<1>19. CASE Ended
  BY <1>5, <1>9, <1>19 DEF Kept, Places, Ended
<1> QED
  BY <1>3, <1>13, <1>14, <1>15, <1>16, <1>17, <1>18, <1>19 DEF Kept, Places, Stale, Doomed

\* Nothing that is kept changes.
LEMMA StillKept ==
  ASSUME Kept, UNCHANGED <<outq, inq, events, tx, bulkReset, bufs, pc, res, state, lun, cmd, job,
                           queued, ignore, units, part, host, upsets>>
  PROVE  Kept'
<1>1. Fresh' = Fresh
  BY DEF Fresh
<1>2. Sane'
  <2>1. Sorts'
    BY SortsKept DEF Kept, Sane
  <2> QED
    BY <1>1, <2>1 DEF Kept, Sane
<1>3. Closes' = Closes /\ \A p : Takes(p) => Takes(p)'
  BY DEF Closes, Takes
<1>4. Clear' = Clear /\ Gone' = Gone
  BY <1>1 DEF Clear, Gone
<1>5. CASE Asks
  <2>1. Asks'
    BY <1>1, <1>3, <1>5 DEF Asks, AtTop, Waiting
  <2> QED
    BY <1>2, <2>1 DEF Kept, Places
<1>6. CASE Heard
  <2>1. Heard'
    BY <1>1, <1>6 DEF Heard, AtTop, Came
  <2> QED
    BY <1>2, <2>1 DEF Kept, Places
<1>7. CASE Deaf
  <2>1. Deaf'
    BY <1>7 DEF Deaf, AtTop
  <2> QED
    BY <1>2, <2>1 DEF Kept, Places
<1>8. CASE Parted
  <2>1. Takes(ToCome) => Takes(ToCome)'
    BY DEF Takes, ToCome
  <2>2. Parted'
    BY <1>1, <1>3, <1>4, <1>8, <2>1 DEF Parted
  <2> QED
    BY <1>2, <2>2 DEF Kept, Places
<1>9. CASE Accepts
  <2>1. Fills => Fills'
    BY <1>4 DEF Fills, Waiting, Came, Sends, Loaded
  <2>2. Writes => Writes'
    BY <1>4 DEF Writes, Sends, Asked
  <2>3. Storing => Storing'
    BY <2>1, <2>2 DEF Storing
  <2>4. Throws => Throws'
    BY <1>4 DEF Throws, Waiting
  <2>5. Accepts'
    BY <1>1, <1>4, <1>9, <2>3, <2>4 DEF Accepts, Sends
  <2> QED
    BY <1>2, <2>5 DEF Kept, Places
<1>10. CASE Stale
  <2>1. Stale'
    BY <1>1, <1>10 DEF Stale, Unsigned, Answering
  <2> QED
    BY <1>2, <2>1 DEF Kept, Places
<1>11. CASE Doomed
  <2>1. Doomed'
    BY <1>1, <1>11 DEF Doomed, Signed, Answering, Came
  <2> QED
    BY <1>2, <2>1 DEF Kept, Places
<1>12. CASE Ended
  BY <1>2, <1>12 DEF Kept, Places, Ended
<1> QED
  BY <1>5, <1>6, <1>7, <1>8, <1>9, <1>10, <1>11, <1>12 DEF Kept, Places

\* What goes wrong is remembered.
LEMMA UpsetsGrow ==
  ASSUME [Next]_vars PROVE upsets' = upsets \/ \E k : Upset(k)
<1>1. CASE UNCHANGED vars
  BY <1>1 DEF vars
<1>2. CASE Transport \/ SendCommand
  BY <1>2, HostFrame DEF Transport
<1>3. CASE StopEarly \/ BulkReset
  BY <1>3 DEF StopEarly, BulkReset
<1>4. CASE Buttons \/ Sleep
  BY <1>4 DEF Buttons, Sleep
<1>5. CASE TimeOut
  BY <1>5 DEF TimeOut
<1>6. CASE Filled \/ ReadAccess \/ Received
  <2>1. ASSUME NEW l, NEW ok, Access(l, ok) PROVE upsets' = upsets \/ Upset("fault")
    BY <2>1 DEF Access
  <2>2. ASSUME NEW l, Switched(l) PROVE upsets' = upsets \/ Upset("fault")
    BY <2>2 DEF Switched
  <2>3. CASE ReadAccess
    BY <2>1, <2>3 DEF ReadAccess
  <2>4. CASE Received
    BY <2>2, <2>4 DEF Received
  <2>5. CASE Filled
    BY <2>1, <2>5 DEF Filled
  <2> QED
    BY <1>6, <2>3, <2>4, <2>5
<1>7. CASE EpOperation \/ HandleException \/ PastLuns \/ GetCommand \/ NoneReceived \/ ReadPastEnd
           \/ ReadSent \/ WriteStuck \/ WritePastEnd \/ WriteAsk \/ Abandoned \/ FinishNothing
           \/ FinishReply \/ FinishPadded \/ FinishShort \/ FinishDiscard \/ Pad \/ Replied
           \/ Answer \/ StatusOver
  BY <1>7 DEF EpOperation, HandleException, PastLuns, GetCommand, NoneReceived, ReadPastEnd,
     ReadSent, WriteStuck, WritePastEnd, WriteAsk, Abandoned, FinishNothing, FinishReply,
     FinishPadded, FinishShort, FinishDiscard, Pad, Replied, Answer, StatusOver, finished
<1> QED
  BY <1>1, <1>2, <1>3, <1>4, <1>5, <1>6, <1>7 DEF Next, Device

LEMMA TameBefore ==
  ASSUME [Next]_vars, Tame' PROVE Tame
<1>1. CASE upsets' = upsets
  BY <1>1 DEF Tame
<1>2. ASSUME NEW k, Upset(k) PROVE Tame
  BY <1>2, TameUpset
<1> QED
  BY <1>1, <1>2, UpsetsGrow

LEMMA DeviceKept ==
  ASSUME Kept, Shape, Device \/ Buttons, Tame' PROVE Kept'
<1>1. CASE EpOperation
  BY <1>1, EpOperationKept
<1>2. CASE TimeOut
  BY <1>2, TimeOutKept
<1>3. CASE HandleException
  BY <1>3, HandleExceptionKept
<1>4. CASE PastLuns \/ Buttons
  BY <1>4, PastLunsKept
<1>5. CASE GetCommand
  BY <1>5, GetCommandKept
<1>6. CASE NoneReceived
  BY <1>6, NoneReceivedKept
<1>7. CASE Received
  BY <1>7, ReceivedKept
<1>8. CASE ReadPastEnd
  BY <1>8, ReadPastEndKept
<1>9. CASE ReadAccess
  BY <1>9, ReadAccessKept
<1>10. CASE ReadSent
  BY <1>10, ReadSentKept
<1>11. CASE WriteStuck \/ WritePastEnd
  BY <1>11, WriteStopsKept
<1>12. CASE WriteAsk
  BY <1>12, WriteAskKept
<1>13. CASE Filled
  BY <1>13, FilledKept
<1>14. CASE Abandoned
  BY <1>14, AbandonedKept
<1>15. CASE FinishNothing
  BY <1>15, FinishNothingKept
<1>16. CASE FinishReply
  BY <1>16, FinishReplyKept
<1>17. CASE FinishPadded
  BY <1>17, FinishPaddedKept
<1>18. CASE FinishShort
  BY <1>18, FinishShortKept
<1>19. CASE FinishDiscard
  BY <1>19, FinishDiscardKept
<1>20. CASE Pad
  BY <1>20, PadKept
<1>21. CASE Replied
  BY <1>21, RepliedKept
<1>22. CASE Answer
  BY <1>22, AnswerKept
<1>23. CASE StatusOver
  BY <1>23, StatusOverKept
<1> QED
  BY <1>1, <1>2, <1>3, <1>4, <1>5, <1>6, <1>7, <1>8, <1>9, <1>10, <1>11, <1>12, <1>13, <1>14,
     <1>15, <1>16, <1>17, <1>18, <1>19, <1>20, <1>21, <1>22, <1>23 DEF Device

LEMMA InitGuarded == Init => Guarded
<1> SUFFICES ASSUME Init PROVE Kept
  BY DEF Guarded
<1>1. Sorts
  <2>1. <<>> \in Seq(Nat \ {0}) /\ <<>> \in Seq(InTrb) /\ <<>> \in Seq(Event)
    OBVIOUS
  <2>2. [out |-> [count |-> 0, bytes |-> 0], in |-> [count |-> 0, bytes |-> 0]] \in TxKind
    BY DEF TxKind
  <2>3. DOMAIN host = {"phase", "cmd", "tag", "left", "good", "astray", "status", "residue"}
    BY DEF Init
  <2>4. host.left = 0 /\ host.tag = 0 /\ host.phase = "idle"
    BY DEF Init
  <2>5. /\ job.from = InBuf /\ job.cur = InBuf /\ job.left = 0 /\ job.len = 0 /\ job.lba = 0
        /\ job.residue = 0 /\ job.todo = 0 /\ DOMAIN job = DOMAIN NoJob
    BY DEF Init, NoJob
  <2> QED
    BY <2>1, <2>2, <2>3, <2>4, <2>5 DEF Init, Sorts
<1>2. Sane
  <2>1. ~host.astray /\ host.phase = "idle"
    BY DEF Init
  <2>2. events = <<>> /\ lun = 0 /\ bulkReset = FALSE /\ state = "normal" /\ pc = "top"
    BY DEF Init
  <2> QED
    BY <1>1, <2>1, <2>2 DEF Sane
<1>3. Clear /\ Closes
  <2>1. host.phase = "idle" /\ inq = <<>> /\ outq = <<>> /\ events = <<>>
    BY DEF Init
  <2> QED
    BY <2>1 DEF Clear, Closes, NoOut
<1>4. Parted
  <2>1. pc = "top" /\ state = "normal" /\ ~queued /\ ~ignore
    BY DEF Init
  <2> QED
    BY <1>3, <2>1 DEF Parted
<1> QED
  BY <1>2, <1>4 DEF Kept, Places

LEMMA StepGuarded == Guarded /\ Shape /\ [Next]_vars => Guarded'
<1> SUFFICES ASSUME Guarded, Shape, [Next]_vars, Tame' PROVE Kept'
  BY DEF Guarded
<1>1. Kept
  BY TameBefore DEF Guarded
<1>2. CASE Device \/ Buttons
  BY <1>1, <1>2, DeviceKept
<1>3. CASE SendCommand
  BY <1>1, <1>3, SendCommandKept
<1>4. CASE SendData
  BY <1>1, <1>4, SendDataKept
<1>5. CASE TakeData
  BY <1>1, <1>5, TakeDataKept
<1>6. CASE TakeStatus
  BY <1>1, <1>6, TakeStatusKept
<1>7. CASE StopEarly
  BY <1>1, <1>7, StopEarlyKept
<1>8. CASE BulkReset
  BY <1>1, <1>8, BulkResetKept
<1>9. CASE Sleep \/ UNCHANGED vars
  BY <1>1, <1>9, StillKept DEF Sleep, vars, bus
<1> QED
  BY <1>2, <1>3, <1>4, <1>5, <1>6, <1>7, <1>8, <1>9 DEF Next, Transport

LEMMA GuardedAstray == Guarded => NothingAstray
  BY DEF Guarded, Kept, Sane, NothingAstray, Tame

\* While no access fails and the host does not pause, nothing is stored but
\* what the host sent for that sector of that volume, in a volume it may write:
\* for all volumes, commands and lengths, when the host ends its data early and
\* when it resets the device, although the transfers of the command it forgot
\* stay posted (_scsi_write, _throw_away_data, _received_cbw, raise_exception,
\* _handle_exception).
THEOREM NothingAstrayHolds == Spec => []NothingAstray
<1>1. Shape /\ InOrder /\ Guarded /\ [Next]_vars => Guarded'
  BY StepGuarded
<1> QED
  BY <1>1, InitShape, StepShape, InitGuarded, GuardedAstray, PTL DEF Spec

-----------------------------------------------------------------------------
(* Kinds of values, in every behaviour: what counts down never wraps.      *)

\* The volume is known while its sectors are read or written.
Transferring == {"read", "sent", "write", "fill"}

\* The position of a command.  What is still to be moved is never more than
\* what the host was not told of, nor is less of it than is asked for next.
JobKnown ==
  /\ cmd \in Command /\ DOMAIN job = DOMAIN NoJob
  /\ job.residue \in Nat /\ job.left \in Nat /\ job.len \in Nat /\ job.lba \in Nat
  /\ job.todo \in Nat /\ job.posted \in Nat
  /\ job.from \in {InBuf, OutBuf} /\ job.cur \in {InBuf, OutBuf}
  /\ job.phase \in BOOLEAN /\ job.short \in BOOLEAN /\ job.first \in BOOLEAN
  /\ job.todo <= job.residue
  /\ pc \in Transferring => lun # 0
  /\ pc = "sent" => job.len <= job.todo
  /\ pc \in {"write", "fill"} => job.left <= cmd.size
  /\ pc = "write" => From(cmd) - Asked <= job.todo
  /\ pc = "fill" => Asked <= From(cmd) /\ (From(cmd) - Asked) + job.posted <= job.todo

RingsKnown ==
  /\ outq \in Seq(Nat \ {0}) /\ inq \in Seq(InTrb) /\ events \in Seq(Event) /\ tx \in TxKind

\* The host, and the statuses it may take.
HostKnown ==
  /\ DOMAIN host = {"phase", "cmd", "tag", "left", "good", "astray", "status", "residue"}
  /\ host.phase \in {"idle", "out", "in", "status", "lost"} /\ host.cmd \in Command
  /\ host.left \in Nat /\ host.good \in Nat /\ host.residue \in Nat /\ host.tag \in {0, 1}
  /\ host.phase = "out" => host.left > 0 /\ Whole(host.left)

Statuses == \A b \in Memory : bufs[b][1] = "csw" => bufs[b][4] \in Nat

Points == Waits \cup Terminal \cup {"top", "read", "write", "finish", "pad", "replied"}
FlagsKnown ==
  /\ pc \in Points /\ res \in {"ok", "error", "timeout"}
  /\ queued \in BOOLEAN /\ ignore \in BOOLEAN /\ asleep \in BOOLEAN
  /\ timeouts \in 0 .. Patience + 1 /\ part \in Parts /\ upsets \subseteq Upsets

Known == Shape /\ JobKnown /\ RingsKnown /\ HostKnown /\ Statuses /\ FlagsKnown

LEMMA KnownSorts == ASSUME JobKnown, RingsKnown, HostKnown PROVE Sorts
  BY DEF JobKnown, RingsKnown, HostKnown, Sorts

LEMMA CommandKinds ==
  ASSUME NEW c \in Command
  PROVE  c.size \in Nat /\ c.lba \in Nat /\ From(c) \in Nat /\ From(c) <= c.size
<1>1. c.size \in Nat /\ c.want \in Nat /\ c.lba \in Nat
  BY DEF Command
<1>2. Want(c) \in Nat
  BY <1>1 DEF Want
<1> QED
  BY <1>1, <1>2 DEF From, Least

LEMMA NoCommandKind == NoCommand \in Command
<1>1. 1 \in Lun
  BY GadgetAssumption DEF Lun
<1> QED
  BY <1>1 DEF NoCommand, Command, Ops

\* A step that does not touch the position.
LEMMA JobStays ==
  ASSUME JobKnown, UNCHANGED <<job, cmd, lun>>, pc' = pc \/ pc' \notin Transferring
  PROVE  JobKnown'
  BY DEF JobKnown, Transferring, Asked

\* A step that counts, to where nothing of it is compared.
LEMMA JobCounts ==
  ASSUME JobKnown, UNCHANGED <<cmd, lun>>, pc' \notin Transferring, DOMAIN job' = DOMAIN job,
         job'.residue = job.residue, job'.left \in Nat, job'.len \in Nat, job'.lba = job.lba,
         job'.todo = job.todo, job'.posted = job.posted, job'.from \in {InBuf, OutBuf},
         job'.cur = job.cur, job'.phase = job.phase, job'.short \in BOOLEAN,
         job'.first = job.first
  PROVE  JobKnown'
  BY DEF JobKnown, Transferring

LEMMA HandleExceptionJob == ASSUME JobKnown, HandleException PROVE JobKnown'
<1>1. UNCHANGED <<cmd, lun>>
  BY DEF HandleException
<1>2. CASE state = "abort"
  <2>1. job' = [job EXCEPT !.len = 1] /\ pc' = "status"
    BY <1>2 DEF HandleException, SendStatus
  <2> QED
    BY <1>1, <2>1, JobCounts DEF JobKnown, Transferring, NoJob
<1>3. CASE state # "abort"
  <2>1. job' = job /\ pc' \in {"end", "top"}
    BY <1>3 DEF HandleException
  <2> QED
    BY <1>1, <2>1, JobStays DEF Transferring
<1> QED
  BY <1>2, <1>3

LEMMA AnswerJob == ASSUME JobKnown, Answer PROVE JobKnown'
<1>1. job' = [job EXCEPT !.len = 1] /\ pc' = "status" /\ UNCHANGED <<cmd, lun>>
  BY DEF Answer, SendStatus
<1> QED
  BY <1>1, JobCounts DEF JobKnown, Transferring, NoJob

LEMMA StatusOverJob == ASSUME JobKnown, StatusOver PROVE JobKnown'
<1>1. /\ cmd' = NoCommand /\ job' = [NoJob EXCEPT !.from = job.from]
      /\ pc' = "top" /\ lun' = lun
  BY DEF StatusOver
<1> QED
  BY <1>1, NoCommandKind DEF JobKnown, Transferring, NoJob

LEMMA ReadPastEndJob == ASSUME JobKnown, ReadPastEnd PROVE JobKnown'
<1>1. job' = [job EXCEPT !.len = 0] /\ pc' = "finish" /\ UNCHANGED <<cmd, lun>>
  BY DEF ReadPastEnd
<1> QED
  BY <1>1, JobCounts DEF JobKnown, Transferring, NoJob

LEMMA ReadAccessJob == ASSUME JobKnown, Shape, ReadAccess PROVE JobKnown'
<1>0. PICK n : n = ReadSize(job.todo, job.lba) /\ n > 0
  BY DEF ReadAccess
<1>1. PICK ok \in BOOLEAN : job' = [job EXCEPT !.len = IF ok THEN n ELSE 0]
  BY <1>0 DEF ReadAccess
<1>2. pc = "read" /\ pc' = "sent" /\ UNCHANGED <<cmd, lun>>
  BY DEF ReadAccess
<1>3. lun \in Lun
  BY <1>2 DEF JobKnown, Shape, Transferring
<1>4. PICK s \in Nat : s = Luns[lun].sectors
  BY <1>3, LunIs
<1>5. PICK t \in Nat, a \in Nat : t = job.todo /\ a = job.lba
  BY DEF JobKnown
<1>6. n \in Nat /\ n <= t
  <2>1. n = Least(Least(t, 4), (s - a) * 2)
    BY <1>0, <1>4, <1>5 DEF ReadSize, Buffer, Sector
  <2>2. PICK d \in Int : d = (s - a) * 2
    OBVIOUS
  <2>3. n \in Int /\ n <= t
    BY <2>1, <2>2 DEF Least
  <2> QED
    BY <1>0, <2>3
<1>7. PICK l \in Nat : l <= t /\ job' = [job EXCEPT !.len = l]
  BY <1>1, <1>6
<1>8. /\ DOMAIN job' = DOMAIN job /\ job'.len = l
      /\ \A f \in DOMAIN NoJob : f # "len" => job'[f] = job[f]
  BY <1>7 DEF JobKnown, NoJob
<1> QED
  BY <1>2, <1>5, <1>7, <1>8 DEF JobKnown, Transferring, NoJob

LEMMA ReadSentJob == ASSUME JobKnown, ReadSent PROVE JobKnown'
<1>1. PICK n \in Nat, t \in Nat, r \in Nat, a \in Nat :
        n = job.len /\ t = job.todo /\ r = job.residue /\ a = job.lba
  BY DEF JobKnown
<1>2. pc = "sent" /\ n <= t /\ t <= r /\ lun # 0 /\ UNCHANGED <<cmd, lun>>
  BY <1>1 DEF JobKnown, ReadSent, Transferring
<1>3. PICK u \in Nat, v \in Nat, w \in Nat :
        u = t - n /\ v = r - n /\ w = a + n \div Sector /\ u <= v
  BY <1>2 DEF Sector
<1>4. PICK next : next = [job EXCEPT !.todo = u, !.residue = v, !.from = job.cur, !.lba = w]
  OBVIOUS
<1>5. \/ job' = next /\ pc' = "finish"
      \/ /\ job' = [next EXCEPT !.first = FALSE,
                                !.cur = IF job.cur = InBuf THEN OutBuf ELSE InBuf]
         /\ pc' = "read"
  BY <1>1, <1>3, <1>4 DEF ReadSent
<1>6. /\ DOMAIN job' = DOMAIN NoJob /\ job'.todo = u /\ job'.residue = v /\ job'.lba = w
      /\ job'.from \in {InBuf, OutBuf} /\ job'.cur \in {InBuf, OutBuf} /\ job'.left = job.left
      /\ job'.len = job.len /\ job'.posted = job.posted /\ job'.phase = job.phase
      /\ job'.short = job.short /\ job'.first \in BOOLEAN
  BY <1>4, <1>5 DEF JobKnown, NoJob
<1> QED
  BY <1>2, <1>3, <1>5, <1>6 DEF JobKnown, Transferring

LEMMA WriteAskJob ==
  ASSUME JobKnown, WriteAsk
  PROVE  JobKnown' /\ Least(From(cmd) - Asked, Buffer) \in Nat \ {0}
<1>1. PICK f \in Nat, l \in Nat, t \in Nat, z \in Nat :
        f = From(cmd) /\ l = job.left /\ t = job.todo /\ z = cmd.size
  BY CommandKinds DEF JobKnown
<1>2. /\ pc = "write" /\ pc' = "fill" /\ UNCHANGED <<cmd, lun>> /\ lun # 0
      /\ f > z - l /\ f <= z /\ l <= z /\ f - (z - l) <= t
  <2>1. From(cmd) > Asked /\ From(cmd) <= cmd.size /\ cmd \in Command
    BY CommandKinds DEF WriteAsk, JobKnown
  <2> QED
    BY <1>1, <2>1 DEF WriteAsk, JobKnown, Asked, Transferring
<1>3. PICK d \in Nat : d = f - (z - l) /\ d > 0
  BY <1>2
<1>4. PICK n \in Nat : n = Least(d, Buffer) /\ n > 0 /\ n <= d
  BY <1>3 DEF Least, Buffer, Sector
<1>5. PICK k \in Nat : k = l - n /\ k <= z /\ (f - (z - k)) + n <= t /\ z - k <= f
  BY <1>2, <1>3, <1>4
<1>6. Least(From(cmd) - Asked, Buffer) = n
  BY <1>1, <1>3, <1>4 DEF Asked
<1>7. job' = [job EXCEPT !.left = k, !.posted = n]
  BY <1>1, <1>5, <1>6 DEF WriteAsk
<1>8. /\ DOMAIN job' = DOMAIN NoJob /\ job'.left = k /\ job'.posted = n
      /\ job'.residue = job.residue /\ job'.len = job.len /\ job'.lba = job.lba
      /\ job'.todo = job.todo /\ job'.from = job.from /\ job'.cur = job.cur
      /\ job'.phase = job.phase /\ job'.short = job.short /\ job'.first = job.first
  BY <1>7 DEF JobKnown, NoJob
<1>9. (From(cmd)' - Asked') + job'.posted <= job'.todo /\ Asked' <= From(cmd)'
  <2>1. From(cmd)' = f /\ Asked' = z - k
    BY <1>1, <1>2, <1>8 DEF Asked, From, Want
  <2> QED
    BY <1>1, <1>5, <1>8, <2>1
<1>10. job'.left <= cmd'.size
  BY <1>1, <1>2, <1>5, <1>8
<1> QED
  BY <1>2, <1>4, <1>6, <1>8, <1>9, <1>10 DEF JobKnown, Transferring

\* What a write stores, of what it asked for.
LEMMA StorableKind ==
  ASSUME JobKnown, RingsKnown, Shape, Filled
  PROVE  Storable \in Int /\ Storable <= job.posted
<1>1. lun \in Lun
  BY DEF JobKnown, Shape, Transferring, Filled
<1>2. PICK s \in Nat : s = Luns[lun].sectors
  BY <1>1, LunIs
<1>3. PICK p \in Nat, a \in Nat : p = job.posted /\ a = job.lba
  BY DEF JobKnown
<1>4. PICK x \in Int : x = Actual
  <2>1. tx["out"].bytes \in Int
    BY DEF RingsKnown, TxKind
  <2> QED
    BY <2>1 DEF Actual, Way, Filled
<1>5. PICK n \in Int : n = Least(Least(x, p), (s - a) * Sector) /\ n <= p
  <2>1. PICK d \in Int : d = (s - a) * Sector
    BY DEF Sector
  <2> QED
    BY <2>1 DEF Least
<1>6. Storable = n - (n % Sector)
  BY <1>2, <1>3, <1>4, <1>5 DEF Storable
<1>7. n % 2 \in 0 .. 1
  OBVIOUS
<1> QED
  BY <1>3, <1>5, <1>6, <1>7 DEF Sector

LEMMA FilledJob == ASSUME JobKnown, RingsKnown, Shape, Filled PROVE JobKnown'
<1>1. PICK n \in Int : n = Storable /\ n <= job.posted
  BY StorableKind
<1>2. PICK f \in Nat, l \in Nat, t \in Nat, z \in Nat, p \in Nat, r \in Nat, a \in Nat :
        /\ f = From(cmd) /\ l = job.left /\ t = job.todo /\ z = cmd.size /\ p = job.posted
        /\ r = job.residue /\ a = job.lba
  BY CommandKinds DEF JobKnown
<1>3. /\ pc = "fill" /\ UNCHANGED <<cmd, lun>> /\ lun # 0 /\ pc' \in {"finish", "write"}
      /\ l <= z /\ (f - (z - l)) + p <= t /\ z - l <= f /\ t <= r
  <2>1. pc = "fill" /\ UNCHANGED <<cmd, lun>> /\ lun # 0 /\ pc' \in {"finish", "write"}
    BY DEF Filled, JobKnown, Transferring
  <2> QED
    BY <1>2, <2>1 DEF JobKnown, Asked
<1>4. PICK v \in BOOLEAN : v = (Actual < job.posted)
  <2>1. CASE Actual < job.posted
    BY <2>1, (Actual < job.posted) = TRUE, Zenon
  <2>2. CASE ~(Actual < job.posted)
    BY <2>2, (Actual < job.posted) = FALSE, Zenon
  <2> QED
    BY <2>1, <2>2
<1>5. \/ job' = job /\ pc' = "finish"
      \/ job' = [job EXCEPT !.short = v]
      \/ n > 0 /\ job' = [job EXCEPT !.lba = a + n \div Sector, !.todo = t - n, !.residue = r - n,
                                     !.short = v]
  BY <1>1, <1>2, <1>4 DEF Filled
<1>6. CASE job' = job /\ pc' = "finish"
  BY <1>3, <1>6, JobStays DEF Transferring
<1>7. CASE job' = [job EXCEPT !.short = v]
  <2>1. /\ DOMAIN job' = DOMAIN NoJob /\ job'.short = v
        /\ job'.left = job.left /\ job'.posted = job.posted
        /\ job'.residue = job.residue /\ job'.len = job.len /\ job'.lba = job.lba
        /\ job'.todo = job.todo /\ job'.from = job.from /\ job'.cur = job.cur
        /\ job'.phase = job.phase /\ job'.first = job.first
    BY <1>7 DEF JobKnown, NoJob
  <2>2. From(cmd)' = f /\ Asked' = z - l
    BY <1>2, <1>3, <2>1 DEF From, Want, Asked
  <2>3. From(cmd)' - Asked' <= job'.todo /\ job'.left <= cmd'.size
    BY <1>2, <1>3, <2>1, <2>2
  <2> QED
    BY <1>3, <2>1, <2>3 DEF JobKnown, Transferring
<1>8. CASE n > 0 /\ job' = [job EXCEPT !.lba = a + n \div Sector, !.todo = t - n,
                                       !.residue = r - n, !.short = v]
  <2>1. PICK m \in Nat : m = n /\ m <= p
    BY <1>1, <1>2, <1>8
  <2>2. m <= t /\ m <= r
    <3>1. p <= t
      BY <1>3
    <3> QED
      BY <1>3, <2>1, <3>1
  <2>3. PICK u \in Nat, w \in Nat, b \in Nat :
          u = t - n /\ w = r - n /\ b = a + n \div Sector /\ u <= w /\ f - (z - l) <= u
    BY <1>3, <2>1, <2>2 DEF Sector
  <2>4. /\ DOMAIN job' = DOMAIN NoJob /\ job'.short = v
        /\ job'.left = job.left /\ job'.posted = job.posted
        /\ job'.residue = w /\ job'.len = job.len /\ job'.lba = b
        /\ job'.todo = u /\ job'.from = job.from /\ job'.cur = job.cur
        /\ job'.phase = job.phase /\ job'.first = job.first
    BY <1>8, <2>3 DEF JobKnown, NoJob
  <2>5. From(cmd)' = f /\ Asked' = z - l
    BY <1>2, <1>3, <2>4 DEF From, Want, Asked
  <2>6. From(cmd)' - Asked' <= job'.todo /\ job'.left <= cmd'.size
    BY <1>2, <1>3, <2>3, <2>4, <2>5
  <2> QED
    BY <1>3, <2>3, <2>4, <2>6 DEF JobKnown, Transferring
<1> QED
  BY <1>5, <1>6, <1>7, <1>8

LEMMA FinishJob ==
  ASSUME JobKnown, FinishReply \/ FinishPadded \/ FinishDiscard PROVE JobKnown'
<1>1. UNCHANGED <<cmd, lun>> /\ pc' \notin Transferring
  BY DEF FinishReply, FinishPadded, FinishDiscard, finished, Transferring
<1>2. PICK l \in Nat : job' = [job EXCEPT !.left = l]
  <2>1. CASE FinishReply
    BY <2>1 DEF FinishReply
  <2>2. CASE FinishPadded
    <3>1. job.len + job.residue \in Nat
      BY DEF JobKnown
    <3> QED
      BY <2>2, <3>1 DEF FinishPadded
  <2>3. CASE FinishDiscard
    <3>1. PICK m \in Nat : m = job.left
      BY DEF JobKnown
    <3>2. m - Least(m, EpMax) \in Nat
      BY DEF Least, EpMax, Buffer, Sector
    <3> QED
      BY <2>3, <3>1, <3>2 DEF FinishDiscard
  <2> QED
    BY <2>1, <2>2, <2>3
<1> QED
  BY <1>1, <1>2, JobCounts DEF JobKnown, NoJob

LEMMA PadJob == ASSUME JobKnown, Pad PROVE JobKnown' /\ Least(job.left, EpMax) \in Nat
<1>1. UNCHANGED <<cmd, lun>> /\ pc' \notin Transferring
  BY DEF Pad, Transferring
<1>2. PICK m \in Nat, n \in Nat, l \in Nat : m = job.left /\ n = Least(m, EpMax) /\ l = m - n
  <2>1. PICK m \in Nat : m = job.left
    BY DEF JobKnown
  <2>2. Least(m, EpMax) \in Nat /\ m - Least(m, EpMax) \in Nat
    BY DEF Least, EpMax, Buffer, Sector
  <2> QED
    BY <2>1, <2>2
<1>3. job' = [job EXCEPT !.left = l, !.len = 0]
  BY <1>2 DEF Pad
<1> QED
  BY <1>1, <1>2, <1>3, JobCounts DEF JobKnown, NoJob

LEMMA RepliedJob == ASSUME JobKnown, Replied PROVE JobKnown'
<1>1. /\ UNCHANGED <<cmd, lun>> /\ pc' \notin Transferring
      /\ job' = job \/ job' = [job EXCEPT !.from = InBuf]
  BY DEF Replied, Transferring
<1> QED
  BY <1>1, JobCounts DEF JobKnown, NoJob

LEMMA ReceivedJob == ASSUME JobKnown, Shape, Received PROVE JobKnown'
<1>1. PICK c \in Commands : c = bufs[OutBuf][2]
  BY DEF Shape, Received, Memory, OutBuf
<1>2. c \in Command /\ c.lun \in Lun /\ c.lun # 0
  BY LunOf, GadgetAssumption DEF Lun
<1>3. PICK z \in Nat, f \in Nat, a \in Nat : z = c.size /\ f = From(c) /\ a = c.lba /\ f <= z
  BY <1>2, CommandKinds
<1>4. PICK x, r, y : /\ x = (c.op \in {"read", "write"} /\ Goes(c, units[c.lun]) /\ From(c) > 0)
                     /\ r = (IF c.dir = "in" /\ ~x THEN Reply(c, units[c.lun]) ELSE 0)
                     /\ y = bufs[OutBuf][3]
  OBVIOUS
<1>5. PICK p : p = (c.size < Want(c) \/ WrongWay(c))
  OBVIOUS
<1>6. lun' = c.lun
  BY <1>1 DEF Received
<1>7. \/ job' = [job EXCEPT !.tag = y] /\ cmd' = cmd /\ pc' = "top"
      \/ /\ cmd' = c
         /\ job' = [NoJob EXCEPT
                      !.residue = c.size - r, !.left = c.size, !.tag = y, !.phase = p,
                      !.from = job.from, !.len = IF c.dir = "in" /\ ~x THEN r ELSE job.len,
                      !.lba = c.lba, !.todo = IF x THEN From(c) ELSE 0]
         /\ pc' = IF x THEN c.op ELSE "finish"
  BY <1>1, <1>4, <1>5 DEF Received
<1>8. CASE job' = [job EXCEPT !.tag = y] /\ cmd' = cmd /\ pc' = "top"
  BY <1>2, <1>6, <1>8 DEF JobKnown, NoJob, Transferring
<1>9. CASE ~(job' = [job EXCEPT !.tag = y] /\ cmd' = cmd /\ pc' = "top")
  <2>1. p \in BOOLEAN
    <3>1. CASE c.size < Want(c) \/ WrongWay(c)
      BY <1>5, <3>1, (c.size < Want(c) \/ WrongWay(c)) = TRUE, Zenon
    <3>2. CASE ~(c.size < Want(c) \/ WrongWay(c))
      BY <1>5, <3>2, (c.size < Want(c) \/ WrongWay(c)) = FALSE, Zenon
    <3> QED
      BY <3>1, <3>2
  <2>2. r \in Nat /\ r <= z /\ (x => r = 0)
    <3>1. Reply(c, units[c.lun]) \in Nat /\ Reply(c, units[c.lun]) <= z
      BY <1>3 DEF Reply, Least
    <3> QED
      BY <1>3, <1>4, <3>1
  <2>3. PICK m \in Nat, t \in Nat, l \in Nat :
          /\ m = z - r /\ t = (IF x THEN f ELSE 0) /\ t <= m
          /\ l = (IF c.dir = "in" /\ ~x THEN r ELSE job.len)
    <3>1. PICK m \in Nat, t \in Nat : m = z - r /\ t = (IF x THEN f ELSE 0) /\ t <= m
      BY <1>3, <2>2
    <3>2. (IF c.dir = "in" /\ ~x THEN r ELSE job.len) \in Nat
      BY <2>2 DEF JobKnown
    <3> QED
      BY <3>1, <3>2
  <2>4. /\ cmd' = c /\ pc' = (IF x THEN c.op ELSE "finish")
        /\ job' = [NoJob EXCEPT !.residue = m, !.left = z, !.tag = y, !.phase = p,
                      !.from = job.from, !.len = l, !.lba = a, !.todo = t]
    BY <1>3, <1>7, <1>9, <2>3
  <2>5. /\ DOMAIN job' = DOMAIN NoJob /\ job'.residue = m /\ job'.left = z /\ job'.phase = p
        /\ job'.from = job.from /\ job'.len = l /\ job'.lba = a /\ job'.todo = t
        /\ job'.short = FALSE /\ job'.first = TRUE /\ job'.cur = InBuf /\ job'.posted = 0
    BY <2>4 DEF NoJob
  <2>6. x => c.op \in {"read", "write"}
    BY <1>4
  <2>7. pc' # "sent" /\ pc' # "fill" /\ (pc' = "write" => x)
    BY <2>4, <2>6
  <2>8. pc' = "write" => From(cmd)' - Asked' <= job'.todo
    <3>1. cmd' = c
      BY <2>4
    <3>2. From(cmd)' = f
      <4>1. From(cmd)' = From(c)
        BY <3>1 DEF From, Want, Moves, Least
      <4> QED
        BY <1>3, <4>1, Zenon
    <3>3. Asked' = 0
      BY <1>3, <2>5, <3>1 DEF Asked
    <3>4. x => f - 0 <= t
      BY <1>3, <2>3
    <3> QED
      BY <2>5, <2>7, <3>2, <3>3, <3>4, Zenon
  <2>9. cmd' \in Command /\ job'.left <= cmd'.size /\ lun' # 0
    <3>1. cmd' \in Command /\ lun' # 0
      BY <1>2, <1>6, <2>4, Zenon
    <3>2. job'.left = z /\ cmd'.size = z
      BY <1>3, <2>4, <2>5, Zenon
    <3> QED
      BY <3>1, <3>2, z <= z
  <2>10. job'.residue \in Nat /\ job'.left \in Nat /\ job'.len \in Nat /\ job'.lba \in Nat
         /\ job'.todo \in Nat /\ job'.posted \in Nat /\ job'.todo <= job'.residue
    BY <2>3, <2>5
  <2>11. /\ job'.from \in {InBuf, OutBuf} /\ job'.cur \in {InBuf, OutBuf}
         /\ job'.phase \in BOOLEAN /\ job'.short \in BOOLEAN /\ job'.first \in BOOLEAN
    BY <2>1, <2>5, Zenon DEF JobKnown
  <2> QED
    BY <2>5, <2>7, <2>8, <2>9, <2>10, <2>11 DEF JobKnown
<1> QED
  BY <1>8, <1>9

LEMMA JobStep == ASSUME JobKnown, RingsKnown, Shape, [Next]_vars PROVE JobKnown'
<1>1. CASE EpOperation \/ TimeOut \/ PastLuns \/ GetCommand \/ NoneReceived \/ WriteStuck
           \/ WritePastEnd \/ Abandoned \/ FinishNothing \/ FinishShort \/ Buttons \/ Sleep
           \/ UNCHANGED vars
  <2>1. UNCHANGED <<job, cmd, lun>> /\ (pc' = pc \/ pc' \notin Transferring)
    BY <1>1 DEF EpOperation, TimeOut, PastLuns, GetCommand, NoneReceived, WriteStuck, WritePastEnd,
       Abandoned, FinishNothing, FinishShort, Buttons, Sleep, vars, Transferring, finished
  <2> QED
    BY <2>1, JobStays
<1>2. CASE Transport \/ SendCommand
  BY <1>2, HostFrame, JobStays DEF Transport
<1>3. CASE StopEarly \/ BulkReset
  <2>1. UNCHANGED <<job, cmd, lun, pc>>
    BY <1>3 DEF StopEarly, BulkReset, device
  <2> QED
    BY <2>1, JobStays
<1> QED
  BY <1>1, <1>2, <1>3, HandleExceptionJob, AnswerJob, StatusOverJob, ReadPastEndJob, ReadAccessJob,
     ReadSentJob, WriteAskJob, FilledJob, FinishJob, PadJob, RepliedJob, ReceivedJob
  DEF Next, Device

\* What is posted, and the events.
LEMMA PostedOut ==
  ASSUME Sorts, RingsKnown, NEW n \in Nat \ {0}, PostOut(n), UNCHANGED <<inq, events>>
  PROVE  RingsKnown'
  BY OutPosted DEF RingsKnown

LEMMA PostedIn ==
  ASSUME Sorts, RingsKnown, NEW from \in Memory, NEW len \in Nat, PostIn(from, len),
         UNCHANGED <<outq, events>>
  PROVE  RingsKnown'
<1>1. PICK t : t = [from |-> from, len |-> len]
  OBVIOUS
<1>2. tx' \in TxKind /\ inq' \in Seq(InTrb)
  BY <1>1, InPosted
<1> QED
  BY <1>2 DEF RingsKnown

LEMMA Added ==
  ASSUME RingsKnown, NEW e \in Event, events' = Append(events, e)
  PROVE  events' \in Seq(Event)
  BY DEF RingsKnown

LEMMA StatusRings ==
  ASSUME Sorts, JobKnown, RingsKnown, SendStatus, UNCHANGED <<outq, events>> PROVE RingsKnown'
<1>1. job.from \in Memory /\ PostIn(job.from, 1)
  BY DEF JobKnown, InBuf, OutBuf, Memory, SendStatus
<1> QED
  BY <1>1, PostedIn

LEMMA DeviceRings ==
  ASSUME Sorts, JobKnown, RingsKnown, Shape, Device \/ Buttons PROVE RingsKnown'
<1>1. CASE EpOperation
  BY <1>1, WaitHandles DEF RingsKnown, EpOperation
<1>2. CASE TimeOut \/ PastLuns \/ NoneReceived \/ Received \/ ReadPastEnd \/ ReadAccess
           \/ WriteStuck \/ WritePastEnd \/ Filled \/ Abandoned \/ FinishNothing \/ FinishPadded
           \/ FinishShort \/ Replied \/ StatusOver \/ Buttons
  <2>1. UNCHANGED <<outq, inq, events, tx>>
    BY <1>2 DEF TimeOut, PastLuns, NoneReceived, Received, ReadPastEnd, ReadAccess, WriteStuck,
       WritePastEnd, Filled, Abandoned, FinishNothing, FinishPadded, FinishShort, Replied,
       StatusOver, Buttons, bus, finished, Zenon
  <2> QED
    BY <2>1 DEF RingsKnown
<1>3. CASE HandleException
  <2>1. UNCHANGED <<outq, events>> /\ (SendStatus \/ UNCHANGED <<inq, tx>>)
    BY <1>3 DEF HandleException
  <2>2. CASE SendStatus
    BY <2>1, <2>2, StatusRings
  <2>3. CASE UNCHANGED <<inq, tx>>
    BY <2>1, <2>3 DEF RingsKnown
  <2> QED
    BY <2>1, <2>2, <2>3
<1>4. CASE Answer
  BY <1>4, StatusRings DEF Answer
<1>5. CASE GetCommand
  <2>1. UNCHANGED <<inq, events>> /\ (PostOut(1) \/ UNCHANGED <<outq, tx>>)
    BY <1>5 DEF GetCommand
  <2>2. CASE PostOut(1)
    BY <2>1, <2>2, PostedOut
  <2>3. CASE UNCHANGED <<outq, tx>>
    BY <2>1, <2>3 DEF RingsKnown
  <2> QED
    BY <2>1, <2>2, <2>3
<1>6. CASE ReadSent
  <2>1. UNCHANGED <<outq, events>> /\ (PostIn(job.cur, job.len) \/ UNCHANGED <<inq, tx>>)
    BY <1>6 DEF ReadSent
  <2>2. job.cur \in Memory /\ job.len \in Nat
    BY DEF JobKnown, InBuf, OutBuf, Memory
  <2>3. CASE PostIn(job.cur, job.len)
    BY <2>1, <2>2, <2>3, PostedIn
  <2>4. CASE UNCHANGED <<inq, tx>>
    BY <2>1, <2>4 DEF RingsKnown
  <2> QED
    BY <2>1, <2>3, <2>4
<1>7. CASE WriteAsk
  <2>1. PICK n \in Nat \ {0} : n = Least(From(cmd) - Asked, Buffer)
    BY <1>7, WriteAskJob
  <2>2. PostOut(n) /\ UNCHANGED <<inq, events>>
    BY <1>7, <2>1 DEF WriteAsk
  <2> QED
    BY <2>2, PostedOut
<1>8. CASE FinishReply
  <2>1. PostIn(job.from, job.len) /\ UNCHANGED <<outq, events>>
    BY <1>8 DEF FinishReply, finished
  <2>2. job.from \in Memory /\ job.len \in Nat
    BY DEF JobKnown, InBuf, OutBuf, Memory
  <2> QED
    BY <2>1, <2>2, PostedIn
<1>9. CASE FinishDiscard
  <2>1. job.left \in Nat /\ job.left > 0
    BY <1>9 DEF FinishDiscard, JobKnown
  <2>2. PICK n \in Nat \ {0} : n = Least(job.left, EpMax)
    BY <2>1 DEF Least, EpMax, Buffer, Sector
  <2>3. PostOut(n) /\ UNCHANGED <<inq, events>>
    BY <1>9, <2>2 DEF FinishDiscard, finished
  <2> QED
    BY <2>3, PostedOut
<1>10. CASE Pad
  <2>1. PICK n \in Nat : n = Least(job.left, EpMax)
    BY DEF JobKnown, Least, EpMax, Buffer, Sector
  <2>2. PostIn(job.from, n) /\ UNCHANGED <<outq, events>>
    BY <1>10, <2>1 DEF Pad
  <2>3. job.from \in Memory
    BY DEF JobKnown, InBuf, OutBuf, Memory
  <2> QED
    BY <2>2, <2>3, PostedIn
<1> QED
  BY <1>1, <1>2, <1>3, <1>4, <1>5, <1>6, <1>7, <1>8, <1>9, <1>10 DEF Device

\* A step of the host: one end of a ring moves on, or a reset is announced.
LEMMA HostRings ==
  ASSUME Sorts, RingsKnown, SendCommand \/ Transport \/ StopEarly \/ BulkReset
  PROVE  RingsKnown'
<1>1. CASE SendCommand \/ SendData \/ StopEarly
  <2>1. PICK h : h = Head(outq)
    OBVIOUS
  <2>2. outq # <<>> /\ outq' = Tail(outq) /\ UNCHANGED <<inq, tx>>
    BY <1>1 DEF SendCommand, SendData, StopEarly, device
  <2>3. outq' \in Seq(Nat \ {0}) /\ h \in Nat \ {0}
    BY <2>1, <2>2, OutTaken
  <2>4. PICK r \in Nat : r = h - 1
    BY <2>3
  <2>5. PICK s \in Nat : SendData /\ h % Sector = 0 => s = h - Least(h, host.left)
    <3>1. CASE SendData
      <4>1. host.left \in Nat
        BY DEF Sorts
      <4>2. PICK s \in Nat : s = h - Least(h, host.left)
        BY <2>3, <4>1 DEF Least
      <4> QED
        BY <4>2
    <3> QED
      BY <3>1
  <2>6. \E ok \in BOOLEAN, rest \in Nat, ep \in {"out"} :
          (ok \/ ~ok) /\ events' = Append(events, [ep |-> ep, ok |-> ok, rest |-> rest])
    <3>1. CASE SendCommand
      BY <2>1, <2>4, <3>1 DEF SendCommand, Completed
    <3>2. CASE SendData
      <4>1. CASE h % Sector # 0
        BY <2>1, <3>2, <4>1 DEF SendData, Completed
      <4>2. CASE h % Sector = 0
        BY <2>1, <2>5, <3>2, <4>2 DEF SendData, Completed
      <4> QED
        BY <4>1, <4>2
    <3>3. CASE StopEarly
      BY <2>1, <2>3, <3>3 DEF StopEarly, Completed
    <3> QED
      BY <1>1, <3>1, <3>2, <3>3
  <2>7. events' \in Seq(Event)
    <3>1. PICK e \in Event : events' = Append(events, e)
      BY <2>6 DEF Event
    <3> QED
      BY <3>1, Added
  <2> QED
    BY <2>2, <2>3, <2>7 DEF RingsKnown
<1>2. CASE TakeData \/ TakeStatus
  <2>1. PICK e : e = [ep |-> "in", ok |-> TRUE, rest |-> 0]
    OBVIOUS
  <2>2. e \in Event /\ events' = Append(events, e)
    BY <1>2, <2>1 DEF TakeData, TakeStatus, Completed, Event
  <2>3. inq # <<>> /\ inq' = Tail(inq) /\ UNCHANGED <<outq, tx>>
    BY <1>2 DEF TakeData, TakeStatus, device
  <2>4. inq' \in Seq(InTrb)
    BY <2>3 DEF RingsKnown
  <2> QED
    BY <2>2, <2>3, <2>4, Added DEF RingsKnown
<1>3. CASE BulkReset
  <2>1. PICK e : e = [ep |-> "reset", ok |-> TRUE, rest |-> 0]
    OBVIOUS
  <2>2. e \in Event /\ events' = Append(events, e) /\ UNCHANGED <<outq, inq, tx>>
    BY <1>3, <2>1 DEF BulkReset, Completed, Event, device
  <2> QED
    BY <2>2, Added DEF RingsKnown
<1> QED
  BY <1>1, <1>2, <1>3 DEF Transport

LEMMA RingsStep ==
  ASSUME Sorts, JobKnown, RingsKnown, Shape, [Next]_vars PROVE RingsKnown'
<1>1. CASE Sleep \/ UNCHANGED vars
  BY <1>1 DEF RingsKnown, Sleep, vars, bus
<1> QED
  BY <1>1, DeviceRings, HostRings DEF Next

\* The statuses that are written carry what is left.
LEMMA StatusesWritten ==
  ASSUME Statuses, \A b \in Memory : bufs'[b] = bufs[b] \/ bufs'[b][1] # "csw"
  PROVE  Statuses'
  BY DEF Statuses

LEMMA SentStatuses == ASSUME JobKnown, Shape, Statuses, SendStatus PROVE Statuses'
<1>1. PICK r, w : r \in Nat /\ r = job.residue /\ w = <<"csw", job.tag, Status, r>>
  BY DEF JobKnown
<1>2. bufs' = [bufs EXCEPT ![job.from] = w]
  BY <1>1 DEF SendStatus
<1>3. \A b \in Memory : bufs'[b] = bufs[b] \/ bufs'[b] = w
  BY <1>2 DEF Shape
<1> QED
  BY <1>1, <1>3 DEF Statuses

LEMMA StatusesStep == ASSUME JobKnown, Shape, Statuses, [Next]_vars PROVE Statuses'
<1>1. CASE UNCHANGED bufs
  BY <1>1 DEF Statuses
<1>2. CASE HandleException
  <2>1. SendStatus \/ UNCHANGED bufs
    BY <1>2 DEF HandleException
  <2> QED
    BY <1>1, <2>1, SentStatuses
<1>3. CASE Answer
  BY <1>3, SentStatuses DEF Answer
<1>4. CASE Received
  <2>1. bufs' = bufs \/ bufs' = [bufs EXCEPT ![job.from] = <<"info">>]
    BY <1>4 DEF Received
  <2>2. \A b \in Memory : bufs'[b] = bufs[b] \/ bufs'[b][1] # "csw"
    BY <2>1 DEF Shape
  <2> QED
    BY <2>2, StatusesWritten
<1>5. CASE ReadAccess
  <2>1. PICK n : n = ReadSize(job.todo, job.lba)
    OBVIOUS
  <2>2. bufs' = bufs \/ bufs' = [b \in Memory |->
               IF b \in Cells(job.cur, n)
               THEN <<"disk", Addressed(lun, part'), Luns[lun].offset + job.lba + b - job.cur>>
               ELSE bufs[b]]
    BY <1>5, <2>1 DEF ReadAccess
  <2>3. \A b \in Memory : bufs'[b] = bufs[b] \/ bufs'[b][1] # "csw"
    BY <2>2
  <2> QED
    BY <2>3, StatusesWritten
<1>6. CASE Pad
  <2>1. PICK n : n = Least(job.left, EpMax)
    OBVIOUS
  <2>2. bufs' = [b \in Memory |-> IF b \in Cells(job.from, n) /\ (b - job.from) * Sector >= job.len
                                  THEN <<"zero">> ELSE bufs[b]]
    BY <1>6, <2>1 DEF Pad
  <2>3. \A b \in Memory : bufs'[b] = bufs[b] \/ bufs'[b] = <<"zero">>
    BY <2>2, Zenon
  <2>4. \A b \in Memory : bufs'[b] = bufs[b] \/ bufs'[b][1] # "csw"
    BY <2>3
  <2> QED
    BY <2>4, StatusesWritten
<1>7. CASE StatusOver
  <2>1. bufs' = [b \in Memory |-> IF \E t \in ToSet(inq) : b - t.from \in 0 .. t.len \div Sector
                                  THEN bufs[b] ELSE <<"junk">>]
    BY <1>7 DEF StatusOver
  <2>2. \A b \in Memory : bufs'[b] = bufs[b] \/ bufs'[b] = <<"junk">>
    BY <2>1, Zenon
  <2>3. \A b \in Memory : bufs'[b] = bufs[b] \/ bufs'[b][1] # "csw"
    BY <2>2
  <2> QED
    BY <2>3, StatusesWritten
<1>8. CASE SendCommand
  <2>1. PICK c, t : bufs' = [bufs EXCEPT ![OutBuf] = <<"cbw", c, t>>]
    BY <1>8, Zenon DEF SendCommand
  <2>2. \A b \in Memory : bufs'[b] = bufs[b] \/ bufs'[b][1] # "csw"
    BY <2>1 DEF Shape
  <2> QED
    BY <2>2, StatusesWritten
<1>9. CASE SendData
  <2>1. PICK n, d : \/ bufs' = bufs
                    \/ bufs' = [b \in Memory |-> IF b - OutBuf \in 0 .. n \div Sector - 1
                                                 THEN <<"data", d + b - OutBuf, host.tag>>
                                                 ELSE bufs[b]]
    BY <1>9 DEF SendData
  <2>2. \A b \in Memory : bufs'[b] = bufs[b] \/ bufs'[b][1] # "csw"
    BY <2>1
  <2> QED
    BY <2>2, StatusesWritten
<1> QED
  BY <1>1, <1>2, <1>3, <1>4, <1>5, <1>6, <1>7, <1>8, <1>9
  DEF Next, Device, Transport, EpOperation, TimeOut, PastLuns, GetCommand, NoneReceived,
      ReadPastEnd, ReadSent, WriteStuck, WritePastEnd, WriteAsk, Filled, Abandoned, FinishNothing,
      FinishReply, FinishPadded, FinishShort, FinishDiscard, Replied, Buttons, TakeData,
      TakeStatus, StopEarly, BulkReset, Sleep, bus, vars

LEMMA RightNumber ==
  ASSUME NEW t \in InTrb, NEW done PROVE Cardinality(Right(t, done)) \in Nat
<1>1. PICK h \in Nat : h = t.len \div Sector
  BY DEF InTrb, Sector
<1>2. Right(t, done) \subseteq 0 .. h - 1
  BY <1>1 DEF Right
<1>3. IsFiniteSet(0 .. h - 1)
  BY FS_Interval
<1> QED
  <2>1. PICK A, B : A = Right(t, done) /\ B = 0 .. h - 1
    OBVIOUS
  <2>2. IsFiniteSet(A)
    BY <1>2, <1>3, <2>1, FS_Subset
  <2> QED
    BY <2>1, <2>2, FS_CardinalityType

\* A step that leaves what the host expects, and counts no less as right.
LEMMA HostGoesOn ==
  ASSUME HostKnown, DOMAIN host' = DOMAIN host, host'.tag = host.tag, host'.cmd = host.cmd,
         host'.phase \in {"idle", "out", "in", "status", "lost"}, host'.left \in Nat,
         host'.good \in Nat, host'.residue \in Nat,
         host'.phase = "out" => host'.left > 0 /\ Whole(host'.left)
  PROVE  HostKnown'
  BY DEF HostKnown

LEMMA SendCommandHost == ASSUME HostKnown, SendCommand PROVE HostKnown'
<1>1. PICK c \in Commands :
        host' = [host EXCEPT !.cmd = c, !.tag = 1 - host.tag, !.left = c.size, !.good = 0,
                   !.astray = FALSE, !.status = "none", !.residue = 0,
                   !.phase = IF c.size = 0 THEN "status" ELSE c.dir]
  BY DEF SendCommand, Zenon
<1>2. /\ c \in Command /\ c.size \in Nat /\ (c.size = 0 <=> c.dir = "none")
      /\ c.dir \in {"in", "out", "none"} /\ (c.dir = "out" => Whole(c.size))
  BY LunOf, CommandIs
<1>3. PICK t \in {0, 1} : t = 1 - host.tag
  BY DEF HostKnown
<1>4. PICK p : /\ p = (IF c.size = 0 THEN "status" ELSE c.dir)
               /\ p \in {"idle", "out", "in", "status", "lost"}
               /\ p = "out" => c.size > 0 /\ Whole(c.size)
  BY <1>2
<1>5. /\ DOMAIN host' = DOMAIN host /\ host'.cmd = c /\ host'.tag = t /\ host'.left = c.size
      /\ host'.good = 0 /\ host'.residue = 0 /\ host'.phase = p
  BY <1>1, <1>3, <1>4 DEF HostKnown
<1> QED
  BY <1>2, <1>4, <1>5 DEF HostKnown

LEMMA SendDataHost == ASSUME Sorts, HostKnown, SendData PROVE HostKnown'
<1>1. PICK h : h = Head(outq)
  OBVIOUS
<1>2. host.phase = "out" /\ outq # <<>> /\ outq' = Tail(outq) /\ h \in Nat \ {0}
  BY <1>1, OutTaken DEF SendData
<1>3. PICK m \in Nat : m = host.left /\ m > 0 /\ Whole(m)
  BY <1>2 DEF HostKnown
<1>4. CASE h % Sector # 0
  <2>1. host' = [host EXCEPT !.phase = "status"]
    BY <1>1, <1>4 DEF SendData
  <2>2. /\ DOMAIN host' = DOMAIN host /\ host'.tag = host.tag /\ host'.cmd = host.cmd
        /\ host'.phase = "status" /\ host'.left = host.left /\ host'.good = host.good
        /\ host'.residue = host.residue
    BY <2>1 DEF HostKnown
  <2> QED
    BY <2>2 DEF HostKnown
<1>5. CASE h % Sector = 0
  <2>1. PICK n \in Nat : n = Least(h, m) /\ n <= m /\ n \in {h, m}
    BY <1>2, <1>3 DEF Least
  <2>2. Whole(n)
    BY <1>3, <1>5, <2>1 DEF Whole
  <2>3. PICK l \in Nat : l = m - n /\ (n = m <=> l = 0)
    BY <2>1
  <2>4. Whole(l)
    BY <1>3, <2>1, <2>2, <2>3, WholeSum
  <2>5. host' = [host EXCEPT !.left = l, !.phase = IF l = 0 THEN "status" ELSE "out"]
    BY <1>1, <1>3, <1>5, <2>1, <2>3 DEF SendData
  <2>6. /\ DOMAIN host' = DOMAIN host /\ host'.tag = host.tag /\ host'.cmd = host.cmd
        /\ host'.phase = (IF l = 0 THEN "status" ELSE "out") /\ host'.left = l
        /\ host'.good = host.good /\ host'.residue = host.residue
    BY <2>5 DEF HostKnown
  <2>7. host'.phase = "out" => l > 0
    BY <2>3, <2>6
  <2> QED
    BY <2>3, <2>4, <2>6, <2>7, HostGoesOn DEF HostKnown
<1> QED
  BY <1>4, <1>5

LEMMA TakeDataHost == ASSUME Sorts, HostKnown, TakeData PROVE HostKnown'
<1>1. PICK t : t = Head(inq)
  OBVIOUS
<1>2. t \in InTrb
  BY <1>1 DEF TakeData, Sorts
<1>3. PICK n \in Nat, m \in Nat, g \in Nat : n = t.len /\ m = host.left /\ g = host.good
  BY <1>2 DEF InTrb, HostKnown
<1>4. CASE n > m
  <2>1. host' = [host EXCEPT !.phase = "lost"]
    BY <1>1, <1>3, <1>4 DEF TakeData
  <2>2. /\ DOMAIN host' = DOMAIN host /\ host'.tag = host.tag /\ host'.cmd = host.cmd
        /\ host'.phase = "lost" /\ host'.left = host.left /\ host'.good = host.good
        /\ host'.residue = host.residue
    BY <2>1 DEF HostKnown
  <2> QED
    BY <2>2 DEF HostKnown
<1>5. CASE n <= m
  <2>1. PICK k \in Nat : k = m - n
    BY <1>5
  <2>2. PICK x : x = Cardinality(Right(t, host.cmd.size - host.left))
    OBVIOUS
  <2>3. x \in Nat
    BY <1>2, <2>2, RightNumber
  <2>4. PICK y \in Nat : y = g + x
    BY <2>3
  <2>5. PICK p \in {"status", "in"} :
          p = (IF t.len = host.left \/ t.len % Sector # 0 \/ t.len = 0 THEN "status" ELSE "in")
    OBVIOUS
  <2>6. host' = [host EXCEPT !.left = k, !.phase = p, !.good = y]
    BY <1>1, <1>3, <1>5, <2>1, <2>2, <2>4, <2>5 DEF TakeData
  <2>7. /\ DOMAIN host' = DOMAIN host /\ host'.tag = host.tag /\ host'.cmd = host.cmd
        /\ host'.phase = p /\ host'.left = k /\ host'.good = y /\ host'.residue = host.residue
    BY <2>6 DEF HostKnown
  <2> QED
    BY <2>5, <2>7 DEF HostKnown
<1> QED
  BY <1>3, <1>4, <1>5

LEMMA TakeStatusHost == ASSUME Sorts, HostKnown, Statuses, TakeStatus PROVE HostKnown'
<1>1. PICK t, b, x : t = Head(inq) /\ b = bufs[t.from] /\ x = b[3]
  OBVIOUS
<1>2. t \in InTrb /\ t.from \in Memory
  <2>1. t \in InTrb
    BY <1>1 DEF TakeStatus, Sorts
  <2> QED
    BY <2>1 DEF InTrb
<1>3. PICK y \in Nat : b[1] = "csw" => y = b[4]
  BY <1>1, <1>2 DEF Statuses
<1>4. \/ host' = [host EXCEPT !.phase = "idle", !.status = x, !.residue = y]
      \/ host' = [host EXCEPT !.phase = "lost"]
  BY <1>1, <1>3 DEF TakeStatus
<1>5. /\ DOMAIN host' = DOMAIN host /\ host'.tag = host.tag /\ host'.cmd = host.cmd
      /\ host'.phase \in {"idle", "lost"} /\ host'.left = host.left /\ host'.good = host.good
      /\ host'.residue \in Nat
  BY <1>4 DEF HostKnown
<1> QED
  BY <1>5 DEF HostKnown

LEMMA FilledHost == ASSUME JobKnown, RingsKnown, Shape, HostKnown, Filled PROVE HostKnown'
<1>1. PICK n \in Int : n = Storable
  BY StorableKind
<1>2. PICK g \in Nat : g = host.good
  BY DEF HostKnown
<1>3. \/ host' = host
      \/ host' = [host EXCEPT !.astray = TRUE]
      \/ n > 0 /\ host' = [host EXCEPT !.good = g + n \div Sector]
  BY <1>1, <1>2 DEF Filled
<1>4. PICK y \in Nat : n > 0 => y = g + n \div Sector
  <2>1. n > 0 => g + n \div 2 \in Nat
    OBVIOUS
  <2> QED
    BY <2>1 DEF Sector
<1>5. host' = host \/ host' = [host EXCEPT !.astray = TRUE] \/ host' = [host EXCEPT !.good = y]
  BY <1>3, <1>4
<1>6. /\ DOMAIN host' = DOMAIN host /\ host'.tag = host.tag /\ host'.cmd = host.cmd
      /\ host'.phase = host.phase /\ host'.left = host.left /\ host'.good \in Nat
      /\ host'.residue = host.residue
  BY <1>5 DEF HostKnown
<1> QED
  BY <1>6 DEF HostKnown

LEMMA StopHost == ASSUME HostKnown, StopEarly \/ BulkReset PROVE HostKnown'
<1>1. PICK p \in {"status", "idle"} : host' = [host EXCEPT !.phase = p, !.left = 0]
  BY DEF StopEarly, BulkReset
<1>2. /\ DOMAIN host' = DOMAIN host /\ host'.tag = host.tag /\ host'.cmd = host.cmd
      /\ host'.phase = p /\ host'.left = 0 /\ host'.good = host.good
      /\ host'.residue = host.residue
  BY <1>1 DEF HostKnown
<1> QED
  BY <1>1, <1>2 DEF HostKnown

LEMMA HostStep ==
  ASSUME JobKnown, RingsKnown, Shape, HostKnown, Statuses, [Next]_vars PROVE HostKnown'
<1>1. CASE UNCHANGED host
  BY <1>1 DEF HostKnown
<1>2. Sorts
  BY KnownSorts
<1> QED
  BY <1>1, <1>2, SendCommandHost, SendDataHost, TakeDataHost, TakeStatusHost, FilledHost, StopHost
  DEF Next, Device, Transport, EpOperation, TimeOut, HandleException, PastLuns, GetCommand,
      NoneReceived, Received, ReadPastEnd, ReadAccess, ReadSent, WriteStuck, WritePastEnd,
      WriteAsk, Abandoned, FinishNothing, FinishReply, FinishPadded, FinishShort, FinishDiscard,
      Pad, Replied, Answer, StatusOver, Buttons, Sleep, finished, vars

LEMMA TiredKind == ASSUME timeouts \in 0 .. Patience + 1 PROVE Tired \in 0 .. Patience + 1
<1>1. PICK s, g : /\ s = (IF res = "timeout" /\ ~Prevented /\ asleep THEN 14 ELSE 0)
                  /\ g = (IF AllUnmounted THEN (IF res = "ok" THEN 4 ELSE 1) ELSE 0)
  OBVIOUS
<1>2. s \in {0, 14} /\ g \in {0, 1, 4}
  BY <1>1
<1>3. PICK p \in Nat : p = Patience
  BY GadgetAssumption
<1>4. PICK n \in Nat : n = timeouts + s + g
  BY <1>2, <1>3
<1>5. Tired = Least(n, p + 1)
  BY <1>1, <1>3, <1>4 DEF Tired
<1> QED
  BY <1>3, <1>4, <1>5 DEF Least

LEMMA PartOf == ASSUME NEW l \in Lun PROVE Luns[l].part \in Parts
<1> DEFINE V == [part : Parts, offset : Nat, sectors : Nat \ {0}, ro : BOOLEAN]
<1>1. Luns \in Seq(V)
  BY GadgetAssumption
<1> HIDE DEF V
<1>2. Luns[l] \in V
  BY <1>1 DEF Lun
<1> QED
  BY <1>2 DEF V

LEMMA ResKnown ==
  ASSUME Sorts, FlagsKnown, [Next]_vars PROVE res' \in {"ok", "error", "timeout"}
<1>1. CASE EpOperation
  BY <1>1, WaitHandles
<1>2. CASE UNCHANGED res \/ res' \in {"ok", "timeout"}
  BY <1>2 DEF FlagsKnown
<1> QED
  BY <1>1, <1>2
  DEF Next, Device, Transport, TimeOut, HandleException, PastLuns, GetCommand,
      NoneReceived, Received, ReadPastEnd, ReadAccess, ReadSent, WriteStuck, WritePastEnd,
      WriteAsk, Filled, Abandoned, FinishNothing, FinishReply, FinishPadded, FinishShort,
      FinishDiscard, Pad, Replied, Answer, StatusOver, Buttons, Sleep, SendCommand, SendData,
      TakeData, TakeStatus, StopEarly, BulkReset, SendStatus, bus, device, vars

LEMMA PcKnown == ASSUME FlagsKnown, [Next]_vars PROVE pc' \in Points
<1>1. CASE UNCHANGED pc
  BY <1>1 DEF FlagsKnown
<1>2. CASE Received
  <2>1. PICK c, x : /\ x => c.op \in {"read", "write"}
                    /\ pc' = "top" \/ pc' = IF x THEN c.op ELSE "finish"
    <3>1. PICK c : c = bufs[OutBuf][2]
      OBVIOUS
    <3>2. PICK x : x = (c.op \in {"read", "write"} /\ Goes(c, units[c.lun]) /\ From(c) > 0)
      OBVIOUS
    <3>3. pc' = "top" \/ pc' = IF x THEN c.op ELSE "finish"
      BY <1>2, <3>1, <3>2 DEF Received
    <3> QED
      BY <3>2, <3>3
  <2> QED
    BY <2>1 DEF Points, Waits, Terminal
<1> QED
  BY <1>1, <1>2
  DEF Next, Device, Transport, EpOperation, TimeOut, HandleException, PastLuns, GetCommand,
      NoneReceived, ReadPastEnd, ReadAccess, ReadSent, WriteStuck, WritePastEnd,
      WriteAsk, Filled, Abandoned, FinishNothing, FinishReply, FinishPadded, FinishShort,
      FinishDiscard, Pad, Replied, Answer, StatusOver, Buttons, Sleep, SendCommand, SendData,
      TakeData, TakeStatus, StopEarly, BulkReset, SendStatus, device, vars,
      Points, Waits, Terminal

LEMMA PartKnown ==
  ASSUME Shape, JobKnown, FlagsKnown, [Next]_vars PROVE part' \in Parts /\ upsets' \subseteq Upsets
<1>1. CASE UNCHANGED <<part, upsets>>
  BY <1>1 DEF FlagsKnown
<1>2. ASSUME NEW l, NEW ok, Access(l, ok) PROVE part' \in Parts /\ upsets' \subseteq Upsets
  BY <1>2 DEF Access, Upset, FlagsKnown, Parts
<1>3. CASE ReadAccess
  BY <1>2, <1>3 DEF ReadAccess
<1>4. CASE Filled
  <2>1. UNCHANGED <<part, upsets>> \/ \E ok \in BOOLEAN : Access(lun, ok)
    BY <1>4 DEF Filled
  <2> QED
    BY <1>1, <1>2, <2>1
<1>5. CASE Received
  <2>1. PICK c \in Commands : c = bufs[OutBuf][2]
    BY <1>5 DEF Shape, Received, Memory, OutBuf
  <2>2. Switched(c.lun) /\ Luns[c.lun].part \in Parts
    BY <1>5, <2>1, LunOf, PartOf DEF Received
  <2> QED
    BY <2>2 DEF Switched, Upset, FlagsKnown
<1>6. CASE TimeOut \/ StopEarly \/ BulkReset
  BY <1>6 DEF TimeOut, StopEarly, BulkReset, Upset, FlagsKnown, device
<1> QED
  BY <1>1, <1>3, <1>4, <1>5, <1>6
  DEF Next, Device, Transport, EpOperation, HandleException, PastLuns, GetCommand,
      NoneReceived, ReadPastEnd, ReadSent, WriteStuck, WritePastEnd,
      WriteAsk, Abandoned, FinishNothing, FinishReply, FinishPadded, FinishShort,
      FinishDiscard, Pad, Replied, Answer, StatusOver, Buttons, Sleep, SendCommand, SendData,
      TakeData, TakeStatus, device, vars, finished

LEMMA FlagsStep ==
  ASSUME Shape, JobKnown, Sorts, FlagsKnown, [Next]_vars PROVE FlagsKnown'
<1>1. res' \in {"ok", "error", "timeout"} /\ pc' \in Points
      /\ part' \in Parts /\ upsets' \subseteq Upsets
  BY ResKnown, PcKnown, PartKnown
<1>2. timeouts' \in 0 .. Patience + 1
  <2>1. timeouts' = timeouts \/ timeouts' = Tired \/ timeouts' = 0
    BY DEF Next, Device, Transport, EpOperation, TimeOut, HandleException, PastLuns, GetCommand,
       NoneReceived, Received, ReadPastEnd, ReadAccess, ReadSent, WriteStuck, WritePastEnd,
       WriteAsk, Filled, Abandoned, FinishNothing, FinishReply, FinishPadded, FinishShort,
       FinishDiscard, Pad, Replied, Answer, StatusOver, Buttons, Sleep, SendCommand, SendData,
       TakeData, TakeStatus, StopEarly, BulkReset, device, vars, finished
  <2>2. timeouts \in 0 .. Patience + 1 /\ 0 \in 0 .. Patience + 1
    BY GadgetAssumption DEF FlagsKnown
  <2> QED
    BY <2>1, <2>2, TiredKind
<1>3. queued' \in BOOLEAN /\ asleep' \in BOOLEAN
  <2>1. queued' \in {queued, TRUE, FALSE} /\ asleep' \in {asleep, ~asleep}
    BY DEF Next, Device, Transport, EpOperation, TimeOut, HandleException, PastLuns, GetCommand,
       NoneReceived, Received, ReadPastEnd, ReadAccess, ReadSent, WriteStuck, WritePastEnd,
       WriteAsk, Filled, Abandoned, FinishNothing, FinishReply, FinishPadded, FinishShort,
       FinishDiscard, Pad, Replied, Answer, StatusOver, Buttons, Sleep, SendCommand, SendData,
       TakeData, TakeStatus, StopEarly, BulkReset, device, vars, finished
  <2> QED
    BY <2>1 DEF FlagsKnown
<1>4. ignore' \in BOOLEAN
  <2>1. \/ ignore' = ignore \/ ignore' = TRUE
        \/ ignore' = (ignore /\ state # "reset")
    BY DEF Next, Device, Transport, EpOperation, TimeOut, HandleException, PastLuns, GetCommand,
       NoneReceived, Received, ReadPastEnd, ReadAccess, ReadSent, WriteStuck, WritePastEnd,
       WriteAsk, Filled, Abandoned, FinishNothing, FinishReply, FinishPadded, FinishShort,
       FinishDiscard, Pad, Replied, Answer, StatusOver, Buttons, Sleep, SendCommand, SendData,
       TakeData, TakeStatus, StopEarly, BulkReset, device, vars, finished
  <2>2. (ignore /\ state # "reset") \in BOOLEAN
    <3>1. CASE ignore /\ state # "reset"
      BY <3>1, (ignore /\ state # "reset") = TRUE, Zenon
    <3>2. CASE ~(ignore /\ state # "reset")
      BY <3>2, (ignore /\ state # "reset") = FALSE, Zenon
    <3> QED
      BY <3>1, <3>2
  <2> QED
    BY <2>1, <2>2, Zenon DEF FlagsKnown
<1> QED
  BY <1>1, <1>2, <1>3, <1>4 DEF FlagsKnown

LEMMA InitKnown == Init => Known
<1> SUFFICES ASSUME Init PROVE Known
  OBVIOUS
<1>1. Shape
  BY InitShape
<1>2. JobKnown
  <2>1. cmd \in Command /\ pc = "top"
    BY NoCommandKind DEF Init
  <2>2. job = NoJob
    BY DEF Init
  <2> QED
    BY <2>1, <2>2 DEF JobKnown, NoJob, Transferring
<1>3. RingsKnown
  <2>1. <<>> \in Seq(Nat \ {0}) /\ <<>> \in Seq(InTrb) /\ <<>> \in Seq(Event)
    OBVIOUS
  <2>2. [out |-> [count |-> 0, bytes |-> 0], in |-> [count |-> 0, bytes |-> 0]] \in TxKind
    BY DEF TxKind
  <2> QED
    BY <2>1, <2>2 DEF Init, RingsKnown
<1>4. HostKnown
  <2>1. /\ DOMAIN host = {"phase", "cmd", "tag", "left", "good", "astray", "status", "residue"}
        /\ host.phase = "idle" /\ host.cmd = NoCommand /\ host.left = 0 /\ host.good = 0
        /\ host.residue = 0 /\ host.tag = 0
    BY DEF Init
  <2> QED
    BY <2>1, NoCommandKind DEF HostKnown
<1>5. Statuses
  BY DEF Init, Statuses
<1>6. FlagsKnown
  <2>1. timeouts \in 0 .. Patience + 1
    BY GadgetAssumption DEF Init
  <2>2. pc \in Points /\ part \in Parts /\ upsets \subseteq Upsets
    BY DEF Init, Points, Parts
  <2> QED
    BY <2>1, <2>2 DEF Init, FlagsKnown
<1> QED
  BY <1>1, <1>2, <1>3, <1>4, <1>5, <1>6 DEF Known

LEMMA StepKnown == Known /\ InOrder /\ [Next]_vars => Known'
<1> SUFFICES ASSUME Known, InOrder, [Next]_vars PROVE Known'
  OBVIOUS
<1>1. Shape /\ JobKnown /\ RingsKnown /\ HostKnown /\ Statuses /\ FlagsKnown
  BY DEF Known
<1>2. Sorts
  BY <1>1, KnownSorts
<1>3. Shape'
  BY <1>1, StepShape
<1> QED
  BY <1>1, <1>2, <1>3, JobStep, RingsStep, HostStep, StatusesStep, FlagsStep DEF Known

LEMMA KnownTypes == Known => TypeOK
<1> SUFFICES ASSUME Known PROVE TypeOK
  OBVIOUS
<1>1. /\ outq \in Seq(Nat) /\ inq \in Seq([from : Memory, len : Nat])
      /\ tx \in [{"in", "out"} -> [count : {0, 1}, bytes : Int]]
  BY DEF Known, RingsKnown, InTrb, TxKind
<1>2. events \in Seq([ep : {"in", "out", "reset"}, ok : BOOLEAN, rest : Int])
  <2> DEFINE E == [ep : {"in", "out", "reset"}, ok : BOOLEAN, rest : Int]
  <2>1. Event \subseteq E
    BY DEF Event
  <2>2. events \in Seq(Event)
    BY DEF Known, RingsKnown
  <2> HIDE DEF E
  <2>3. events \in Seq(E)
    BY <2>1, <2>2
  <2> QED
    BY <2>3 DEF E
<1>3. /\ bulkReset \in BOOLEAN /\ DOMAIN bufs = Memory /\ state \in States
      /\ lun \in Lun \cup {0}
  BY DEF Known, Shape
<1>4. units \in [Lun -> [{"unmounted", "prevent", "sense", "attention"} -> BOOLEAN]]
  <2> DEFINE U == [{"unmounted", "prevent", "sense", "attention"} -> BOOLEAN]
  <2>1. Unit \subseteq U
    BY DEF Unit
  <2>2. units \in [Lun -> Unit]
    BY DEF Known, Shape
  <2> HIDE DEF U
  <2>3. units \in [Lun -> U]
    BY <2>1, <2>2
  <2> QED
    BY <2>3 DEF U
<1>5. /\ job.residue \in Nat /\ job.left \in Nat /\ job.len \in Nat /\ job.lba \in Nat
      /\ job.todo \in Nat /\ job.posted \in Nat /\ cmd \in Command
      /\ {job.phase, job.short, job.first} \subseteq BOOLEAN
  BY DEF Known, JobKnown
<1>6. {job.from, job.cur} \subseteq Memory
  BY DEF Known, JobKnown, InBuf, OutBuf, Memory
<1>7. /\ pc \in Waits \cup Terminal \cup {"top", "read", "write", "finish", "pad", "replied"}
      /\ res \in {"ok", "error", "timeout"} /\ {queued, ignore, asleep} \subseteq BOOLEAN
      /\ timeouts \in 0 .. Patience + 1 /\ part \in Parts /\ upsets \subseteq Upsets
  BY DEF Known, FlagsKnown, Points
<1>8. /\ host.phase \in {"idle", "out", "in", "status", "lost"} /\ host.cmd \in Command
      /\ host.left \in Nat /\ host.good \in Nat /\ host.residue \in Nat
  BY DEF Known, HostKnown
<1>9. {job.phase, job.short, job.first, queued, ignore, asleep} \subseteq BOOLEAN
  BY <1>5, <1>7
<1> QED
  BY <1>1, <1>2, <1>3, <1>4, <1>5, <1>6, <1>7, <1>8, <1>9 DEF TypeOK

\* Every variable has a value of its kind, in every behaviour, whatever goes
\* wrong.  This is no matter of declarations: residue and usb_amount_left of a
\* command and the amounts of _scsi_read and _scsi_write are unsigned, counted
\* down by what a storage access or a transfer moved; that they are naturals
\* says that none of them wraps.
THEOREM TypeOKHolds == Spec => []TypeOK
<1>1. Init => Known /\ InOrder
  BY InitKnown, InitShape
<1>2. Known /\ InOrder /\ [Next]_vars => (Known /\ InOrder)'
  BY StepKnown, StepShape DEF Known
<1> QED
  BY <1>1, <1>2, KnownTypes, PTL DEF Spec

=============================================================================
