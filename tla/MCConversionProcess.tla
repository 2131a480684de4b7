----------------------- MODULE MCConversionProcess -----------------------
(* A capture limit below the output, reads of more than one byte and pipes *)
(* that fill up.                                                           *)
EXTENDS ConversionProcess

No == {FALSE}
Yes == {TRUE}
Either == {FALSE, TRUE}
=============================================================================
