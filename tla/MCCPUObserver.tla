--------------------------- MODULE MCCPUObserver ---------------------------
(* CPUObserver with two-bit counters.                                      *)
EXTENDS CPUObserver

\* From the first reading, the second has grown by a busy, an idle and a
\* stolen tick; the busy sum of the third overflows, of the fourth only the
\* total.  The last belongs to another epoch.
MCReadings ==
    {[epoch |-> 1, counters |-> <<0, 0, 0, 0, 0, 0, 0, 0>>],
     [epoch |-> 1, counters |-> <<1, 0, 0, 0, 1, 0, 0, 1>>],
     [epoch |-> 1, counters |-> <<3, 0, 0, 0, 1, 1, 0, 1>>],
     [epoch |-> 1, counters |-> <<1, 0, 0, 3, 1, 0, 0, 1>>],
     [epoch |-> 2, counters |-> <<1, 0, 0, 3, 1, 0, 0, 1>>]}
=============================================================================
