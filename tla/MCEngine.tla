------------------------------ MODULE MCEngine ------------------------------
EXTENDS Engine

\* Two states of the tests with up to three lanes set, and the uniform states.
Bases == {set_all(False), make_test_state_single_invalid(0)}
Set(states) == {set_lane(s, k, v) : s \in states, k \in Lane, v \in DR4}
MCStarts == Set(Set(Set(Bases))) \cup {set_all(v) : v \in DR4}
=============================================================================
