------------------------------- MODULE MCSchedule -------------------------------
(* Schedule on small instances. *)
EXTENDS Schedule

CONSTANTS s1, s2

\* A day has three moments; an interval, a daily and two one-time specs.
MCSpecs ==
  {[kind |-> "interval", n |-> 2], [kind |-> "daily", n |-> 1],
   [kind |-> "once", n |-> 2], [kind |-> "interval", n |-> 0]}
================================================================================
