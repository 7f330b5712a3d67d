---------------------------- MODULE MCUuidClock ----------------------------
(***************************************************************************)
(* Instances of UuidClock for TLC.  The code has ten ticks in a            *)
(* microsecond and a MAX_ADJUSTMENT of ten; here both are two.  The        *)
(* history takes in more calls than one microsecond can serve.             *)
(***************************************************************************)
EXTENDS UuidClock

MCTicks == 2
=============================================================================
