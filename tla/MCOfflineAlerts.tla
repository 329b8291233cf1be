--------------------------- MODULE MCOfflineAlerts ---------------------------
(* Values for model checking OfflineAlerts: a short and a long sleep, a     *)
(* stale_after and a renotify in between, and settings that are stricter,   *)
(* laxer or left empty.                                                     *)
EXTENDS OfflineAlerts

MCDefaults == [staleAfter |-> 2, renotify |-> 3]
MCSettings == {[staleAfter |-> 0, renotify |-> 0], [staleAfter |-> 4, renotify |-> 2]}
=============================================================================
