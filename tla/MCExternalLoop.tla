--------------------------- MODULE MCExternalLoop ---------------------------
(* Two sockets, to find what the first leaves behind; with and without a    *)
(* second thread.                                                           *)
EXTENDS ExternalLoop

OneOrTwo == BOOLEAN
=============================================================================
