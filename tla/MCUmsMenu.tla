----------------------------- MODULE MCUmsMenu -----------------------------
(* Values for model checking UmsMenu.                                      *)
EXTENDS UmsMenu

Formatted(n, p, g) == [sectors |-> n, parts |-> p, gpt |-> g]

MCGpp == Formatted(5, <<>>, FALSE)

\* Two partitions in a GPT; two in an MBR, which shows one.  The second card is
\* smaller than the offset chosen on the first may be, and smaller than the
\* step of the high digit: then the subtraction of the selector need not end.
MCCards == {Formatted(7, << <<1, 2>>, <<3, 4>> >>, TRUE),
            Formatted(2, << <<1, 1>>, <<0, 1>> >>, FALSE)}
=============================================================================
