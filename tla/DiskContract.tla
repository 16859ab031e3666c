---------------------------- MODULE DiskContract ----------------------------
(***************************************************************************)
(* What a client of diskio.c can rely on, each call being one step: with   *)
(* no fault a transfer is exact or it is refused; with a fault it can have *)
(* happened in another partition and with a damaged buffer, but it is      *)
(* never reported done when part of it is missing.                         *)
(***************************************************************************)
EXTENDS DiskTypes

VARIABLES
  media,    \* the sectors of the card
  cells,    \* the sectors of memory
  last      \* what the client was last told

vars == <<media, cells, last>>

Init ==
  /\ media = InitMedia
  /\ cells \in Fill
  /\ last = Pending

\* The client prepares its buffer and calls.
Begin ==
  /\ cells' \in [Cell -> Data]
  /\ last' = Pending
  /\ UNCHANGED media

\* The first k sectors of r's window, written from memory c to partition p
\* of m, or read from there into memory.
Put(m, p, c, r, k) ==
  [m EXCEPT ![p] = [s \in Sector |->
     IF s - First(r) \in 0 .. k - 1 THEN c[r.off + s - First(r)] ELSE m[p][s]]]

Get(m, p, c, r, k) ==
  [x \in Cell |->
     IF x - r.off \in 0 .. k - 1 THEN m[p][First(r) + x - r.off] ELSE c[x]]

\* Memory after an initialisation of the card.
Scribbled(c) == [c EXCEPT ![0] = Junk]

WriteDone(r, clean) ==
  \/ /\ clean
     /\ media' = Put(media, PartOf(r.drv), cells, r, r.n)
     /\ UNCHANGED cells
  \/ /\ ~clean
     /\ \E p \in Part :
          \/ media' = Put(media, p, cells, r, r.n) /\ UNCHANGED cells
          \/ /\ cells' = Scribbled(cells)
             /\ \E k \in 0 .. r.n :
                  media' = Put(Put(media, p, cells, r, k), GPP, cells', r, r.n)

ReadDone(r, clean) ==
  /\ UNCHANGED media
  /\ \/ clean /\ cells' = Get(media, PartOf(r.drv), cells, r, r.n)
     \/ ~clean /\ \E p \in Part : cells' = Get(media, p, cells, r, r.n)
     \/ ~clean /\ cells' = Get(media, GPP, Scribbled(cells), r, r.n)

WriteFailed(r, clean) ==
  \/ UNCHANGED <<media, cells>>
  \/ /\ ~clean
     /\ cells' \in {cells, Scribbled(cells)}
     /\ \E p \in Part, k, l \in 0 .. r.n :
          media' = Put(Put(media, p, cells, r, k), GPP, cells', r, l)

\* What a cell can hold after a read that failed.
Left(r, x) ==
  {cells[x]} \cup (IF x = 0 THEN {Junk} ELSE {})
             \cup (IF x - r.off \in 0 .. r.n - 1
                   THEN {Junk} \cup {media[p][First(r) + x - r.off] : p \in Part}
                   ELSE {})

ReadFailed(r, clean) ==
  /\ UNCHANGED media
  /\ \/ UNCHANGED cells
     \/ /\ ~clean
        /\ cells' \in {c \in [Cell -> UNION {Left(r, x) : x \in Cell}] :
                         \A x \in Cell : c[x] \in Left(r, x)}

\* Initialising and ending the card touch no sector of it.
Controlled == UNCHANGED media /\ cells' \in {cells, Scribbled(cells)}

Finish(r, ok, clean) ==
  /\ ~last.done
  /\ last' = [req |-> r, ok |-> ok, clean |-> clean, done |-> TRUE]
  /\ \/ r.op = "write" /\ ok /\ r.drv = "BOOT0" /\ WriteDone(r, clean)
     \/ r.op = "write" /\ ~ok /\ WriteFailed(r, clean)
     \/ r.op = "read" /\ ok /\ ReadDone(r, clean)
     \/ r.op = "read" /\ ~ok /\ ReadFailed(r, clean)
     \/ r \in Control /\ Controlled

Next == Begin \/ \E r \in Request, ok, clean \in BOOLEAN : Finish(r, ok, clean)

Spec == Init /\ [][Next]_vars
=============================================================================
