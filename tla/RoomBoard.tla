----------------------------- MODULE RoomBoard -----------------------------
(***************************************************************************)
(* What a display of a meeting room promises whoever walks past it, with   *)
(* no broker, cache or network in sight: it is blank, or it shows a        *)
(* version the calendar of some room really had, and for as long as it is  *)
(* about one room it never falls back to an earlier version.  RoomPoller   *)
(* implements it with the broker's cache, DisplayPath with the e-ink panel.*)
(***************************************************************************)
EXTENDS Naturals, Sequences

CONSTANTS Devices, Rooms, NoRoom, Contents

VARIABLES calendar,   \* Room -> the versions its calendar went through
          board       \* Device -> the room and version it shows, or Blank

Blank == [room |-> NoRoom, version |-> 0]

BoardInit ==
    /\ calendar \in [Rooms -> {<<c>> : c \in Contents}]
    /\ board = [d \in Devices |-> Blank]

Rebook(r) ==
    /\ \E c \in Contents : calendar' = [calendar EXCEPT ![r] = Append(@, c)]
    /\ UNCHANGED board

Post(d, r, v) ==
    /\ board[d].room = r => v >= board[d].version
    /\ board' = [board EXCEPT ![d] = [room |-> r, version |-> v]]
    /\ UNCHANGED calendar

Wipe ==
    /\ board' = [d \in Devices |-> Blank]
    /\ UNCHANGED calendar

BoardNext ==
    \/ \E r \in Rooms : Rebook(r)
    \/ \E d \in Devices, r \in Rooms : \E v \in 1..Len(calendar[r]) : Post(d, r, v)
    \/ Wipe

BoardSpec == BoardInit /\ [][BoardNext]_<<calendar, board>>
=============================================================================
