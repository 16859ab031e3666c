------------------------------ MODULE MCModchip -----------------------------
(* A small instance of Modchip for TLC.                                    *)
EXTENDS Modchip

MCData == [lo : Half, hi : Half]
MCJunk == [lo |-> Mk("none", 1, 1), hi |-> Mk("none", 1, 1)]

\* The buffer holds nothing in particular at power-on.
MCFill == {[c \in Cell |-> MCJunk]}

\* BOOT0 as the modchip left it, the other partitions with boot data in them.
MCMedia ==
  [p \in Part |-> [s \in Sector |->
    IF p = BOOT0 /\ s = CfgSec
    THEN [lo |-> Mk("desc", 0, 0), hi |-> DefaultCfg]
    ELSE [lo |-> None, hi |-> Mk("boot", p, s)]]]
=============================================================================
