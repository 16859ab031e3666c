------------------------------- MODULE MCBoot -------------------------------
(* A small instance of Boot for TLC.                                       *)
EXTENDS Boot

\* A payload on the last drive behind empty file systems, or on two with the
\* first too large; the host and the SD card bring the others.
NoFs  == [fat |-> FALSE, file |-> NoFile]
Has(e) == [fat |-> TRUE, file |-> e]
MCWorlds == {<<Has(TooLarge), Has(1), NoFs, NoFs>>,
             <<Has(0), Has(0), NoFs, Has(1)>>}
Numbered == {[d \in Drives |-> w[d + 1]] : w \in MCWorlds}
=============================================================================
