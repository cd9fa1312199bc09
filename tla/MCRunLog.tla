------------------------------ MODULE MCRunLog ------------------------------
(* Small instances of RunLog: channels of one event, so that a browser that *)
(* stalls is dropped at once, and a connection more than there are browsers.*)
EXTENDS RunLog
=============================================================================
