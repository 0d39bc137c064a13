-------------------------------- MODULE MCTab --------------------------------
(* An instance of Tab: three failed runs on two pages, two lists of tools. *)
EXTENDS Tab

CONSTANTS t1, t2

MCPageOf     == <<1, 1, 2>>
MCToolOrders == {<<t1, t2>>, <<t1>>}
==============================================================================
