------------------------------ MODULE MCToolbox -----------------------------
(* A small instance of Toolbox for TLC.                                    *)
EXTENDS Toolbox

MCData == [lo : Half, hi : Half]
MCJunk == [lo |-> Mk("none", 1, 1), hi |-> Mk("none", 1, 1)]
MCFill == {[c \in Cell |-> MCJunk]}

\* Settings that are not the default ones.
MCMedia ==
  [p \in Part |-> [s \in Sector |->
    IF p = BOOT0 /\ s = CfgSec
    THEN [lo |-> Mk("desc", 0, 0), hi |-> Mk("cfg", 1, 0)]
    ELSE [lo |-> None, hi |-> Mk("boot", p, s)]]]
=============================================================================
