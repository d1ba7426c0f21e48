------------------------ MODULE MCFirefoxObservation ------------------------
(***************************************************************************)
(* A small instance of FirefoxObservation of its own: two requests, one    *)
(* path, a limit of one active stream.                                     *)
(***************************************************************************)
EXTENDS FirefoxObservation

=============================================================================
