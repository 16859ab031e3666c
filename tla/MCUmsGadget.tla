---------------------------- MODULE MCUmsGadget ----------------------------
(* A volume in the user area, and the first boot partition, read-only.     *)
EXTENDS UmsGadget

MCLuns == <<[part |-> "gpp", offset |-> 1, sectors |-> 3, ro |-> FALSE],
            [part |-> "boot0", offset |-> 0, sectors |-> 2, ro |-> TRUE]>>

Data(op, l, lba, n) ==
  [op |-> op, lun |-> l, lba |-> lba, size |-> n * Sector, want |-> n * Sector,
   dir |-> IF op = "read" THEN "in" ELSE "out"]
Bare(op, l) == [op |-> op, lun |-> l, lba |-> 0, dir |-> "none", size |-> 0, want |-> 0]

\* Over two buffers, in one, and past the end of the volume: by a buffer, by
\* the last sector.  The second volume refuses to be written.
MCCommands ==
  {Data("read", 1, 0, 3), Data("read", 1, 1, 3), Data("read", 2, 0, 2),
   Data("write", 1, 0, 3), Data("write", 1, 1, 4), Data("write", 1, 2, 2),
   Data("write", 2, 0, 2),
   [Bare("sense", 1) EXCEPT !.dir = "in", !.size = 1, !.want = 1],
   Bare("prevent", 1), Bare("eject", 1), Bare("eject", 2)}

=============================================================================
