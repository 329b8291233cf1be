--------------------------- MODULE MCFleetConfig ---------------------------
EXTENDS FleetConfig, TLC

\* Nobody, a person, or a group that is told instead of a person.
MCContacts == {[email |-> FALSE, chat |-> FALSE, mode |-> ""],
               [email |-> TRUE, chat |-> FALSE, mode |-> ""],
               [email |-> FALSE, chat |-> TRUE, mode |-> "group"]}

\* Only invariants are checked, so ids that look alike may be exchanged.
MCSymmetry == Permutations(Devices) \cup Permutations(Labels) \cup Permutations(Offices)
=============================================================================
