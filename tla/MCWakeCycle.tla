---------------------------- MODULE MCWakeCycle ----------------------------
(* Values for model checking WakeCycle.  The unit is half a minute; the day *)
(* and the longest sleep are shortened (2 h and 50 min) and keep their      *)
(* order: an interval < four default sleeps < the longest sleep < a night.  *)
EXTENDS WakeCycle, TLC

Event(s, e) == [start |-> s, end |-> e]

\* Nothing; two back to back with a third after a gap; a short one inside a
\* long one, then one late in the day.
MCCalendars == {<<>>,
                <<Event(75, 95), Event(100, 104), Event(126, 140)>>,
                <<Event(88, 120), Event(96, 104), Event(200, 240)>>}

MCRoomSettings == {[mode |-> "smart", interval |-> 0],
                   [mode |-> "flat", interval |-> 0],
                   [mode |-> "flat", interval |-> 30]}

MCAges == {0, 4}
MCDrifts == {-1, 1}
MCTouches == {7}
MCStartTimes == {62, 172}
\* A morning; the end of a day, and the next morning, off.
MCWatched == 60..112 \cup 172..212 \cup 270..300

Symmetry == Permutations(APs)
=============================================================================
