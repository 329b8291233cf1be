---------------------------- MODULE MCConfigWrite ----------------------------
(* Values for model checking ConfigWrite: the room is in use and the login  *)
(* exists, as Validate wants at least one of each; the wake setting is free.*)
EXTENDS ConfigWrite

CONSTANTS room, login, wake, absent, v1, v2

MCItems == {room, login, wake}
MCValues == {absent, v1, v2}
MCDerived == {room, login}
MCPasswords == {login}
MCValidConfigs ==
    {c \in [MCItems -> MCValues] : c[room] # absent /\ c[login] # absent}
=============================================================================
