------------------------------ MODULE MCXusbd ------------------------------
(* Xusbd with one bulk endpoint, rings of three or four slots and an event  *)
(* ring of four: a few requests take every ring past its end.              *)
EXTENDS Xusbd

MCIn == {"in"}
MCOut == {"out"}

\* Reads: all that is only answered, and a halt that is cleared.
MCEnumeration == {"address", "configure", "maxlun", "descriptor", "interface", "unknown",
                  "device", "clear"}
MCBabble == {"babble"}

\* Writes of one and two requests: what changes the endpoints, and what goes wrong.
MCChanging == {"address", "configure", "deconfigure", "maxlun", "bulkreset"}
MCUpsets == {"abandon", "reset", "deconfigure", "bulkreset", "residue", "error"}
=============================================================================
