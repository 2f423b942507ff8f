---------------------------- MODULE MCDeviceStreams ----------------------------
(* DeviceStreams for TLC: a request, one draft, three calls.          *)
EXTENDS DeviceStreams

CONSTANT r1

MCReq == {r1}

Base == [async |-> TRUE, pool |-> FALSE, dummies |-> FALSE, waits |-> FALSE,
         readers |-> {FALSE}, fits |-> {TRUE}, finishes |-> BOOLEAN]

MCModes ==
  { [Base EXCEPT !.readers = BOOLEAN],
    [Base EXCEPT !.dummies = TRUE, !.waits = TRUE],
    [Base EXCEPT !.fits = BOOLEAN],
    [Base EXCEPT !.pool = TRUE],
    [Base EXCEPT !.async = FALSE, !.dummies = TRUE, !.fits = BOOLEAN],
    [Base EXCEPT !.async = FALSE, !.pool = TRUE, !.finishes = {TRUE}] }
=============================================================================
