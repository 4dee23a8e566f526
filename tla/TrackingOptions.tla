--------------------------- MODULE TrackingOptions ---------------------------
(***************************************************************************)
(* The options of a tracking session and the pure part of the multiplexing *)
(* of gps/gnss/GnssAdapter.cpp: the modem accepts one time based session   *)
(* only, so the adapter computes one set of options from those of all the  *)
(* sessions listed in a std::map.  Such a map is a total function here:    *)
(* an absent key is mapped to the all-zero record, whose size is 0, as in  *)
(* the code the zeroed record is the one that is "not set yet".            *)
(***************************************************************************)
EXTENDS Integers, FiniteSets

\* GnssPowerMode.  A smaller valid mode draws more power; INVALID is 0.
INVALID == 0
M1 == 1
M2 == 2
M3 == 3
M4 == 4
M5 == 5
PowerModes == INVALID .. M5

\* TrackingOptions: size is 0 for a record nobody filled in, 1 for sizeof.
Options ==
  [size : {0, 1}, interval : Nat, distance : Nat, power : PowerModes]

NoOptions == [size |-> 0, interval |-> 0, distance |-> 0, power |-> INVALID]

\* The keys of a session map: session ids, in the order std::map iterates.
Listed(m) == {s \in DOMAIN m : m[s].size # 0}

-----------------------------------------------------------------------------

\* "it->second.minInterval < multiplexedOptions.minInterval": the options of
\* the first session of S with the smallest interval, zero when S is empty.
Fastest(m, S) ==
  IF S = {} THEN NoOptions
  ELSE m[CHOOSE s \in S :
           \A t \in S : \/ m[s].interval < m[t].interval
                        \/ m[s].interval = m[t].interval /\ s <= t]

LeastPower(m, S) ==
  CHOOSE p \in {m[s].power : s \in S} : \A s \in S : p <= m[s].power

\* The loop "INVALID == multiplexedPowerMode || it->second.powerMode <
\* multiplexedPowerMode": a session with mode INVALID is below every other, so
\* it is taken, and the session after it then starts the search again.
MuxPower(m, S) ==
  LET invalid == {s \in S : m[s].power = INVALID}
      after   == {s \in S : \A t \in invalid : t < s}
  IN IF after = {} THEN INVALID ELSE LeastPower(m, after)

\* checkAndRestartTimeBasedSession searches differently: the first session is
\* taken whatever its mode is, and later sessions only when theirs is valid.
RestartPower(m, S) ==
  LET first == CHOOSE s \in S : \A t \in S : s <= t
      valid == {s \in S : m[s].power # INVALID}
  IN IF m[first].power = INVALID THEN INVALID ELSE LeastPower(m, valid)

=============================================================================
