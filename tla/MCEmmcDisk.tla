----------------------------- MODULE MCEmmcDisk -----------------------------
(* A small instance of EmmcDisk for TLC.                                   *)
EXTENDS EmmcDisk

CONSTANTS img, usr, junk

MCData == {img, usr, junk}
MCFill == {[c \in Cell |-> img]}
MCMedia == [p \in Part |-> [s \in Sector |-> usr]]
=============================================================================
