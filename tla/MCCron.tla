------------------------------- MODULE MCCron -------------------------------
(***************************************************************************)
(* TLC instance of Cron.                                                   *)
(***************************************************************************)
EXTENDS Cron

\* Nothing is claimed once an excused hazard has struck.
Unhurt == ~Excusing
=============================================================================
