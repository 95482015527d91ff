--------------------------- MODULE MCCrtLifecycle ---------------------------
(* Small instance: the tables hold the {0} slot of the library, padding and *)
(* one or two functions.                                                    *)
EXTENDS CrtLifecycle

MCXI == <<FALSE, TRUE>>
MCXC == <<FALSE, TRUE, FALSE, TRUE>>
MCXP == <<FALSE, TRUE>>
MCXT == <<FALSE, TRUE>>
=============================================================================
