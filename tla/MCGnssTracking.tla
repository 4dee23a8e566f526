---------------------------- MODULE MCGnssTracking ----------------------------
(***************************************************************************)
(* Small instances of GnssTracking.  Intervals are in units of the minimum *)
(* interval; 0 is below it, so the adapter raises it.                      *)
(***************************************************************************)
EXTENDS GnssTracking

CONSTANTS alice, bob

Opt(i, d, p) == [size |-> 1, interval |-> i, distance |-> d, power |-> p]

\* Session 2 belongs to bob, the others to alice.
MCOwner == [s \in Sessions |-> IF s = 2 THEN bob ELSE alice]

\* Time based options: raised to the minimum, and slow.
TimeOpts == {Opt(0, 0, M2), Opt(2, 0, M1)}

\* The same and one that the adapter holds back until it knows the modem.
HeldOpts == TimeOpts \cup {Opt(2, 50, M2)}

\* Distinct in rate and power.
PowerOpts == {Opt(2, 0, M3), Opt(3, 0, M1), Opt(1, 0, M2)}

=============================================================================
