----------------------------- MODULE ReportBook -----------------------------
(***************************************************************************)
(* What the broker promises about the reports of its displays, with no     *)
(* queue, writer, lock or shutdown in sight: it knows the latest report of *)
(* each, and keeps one for the next start.  The one kept is a report that  *)
(* really came in, whole, and is only replaced by a later one; reports may *)
(* be lost on their way there; after a restart what is known is what was   *)
(* kept.  TelemetryStore implements it.                                    *)
(***************************************************************************)
EXTENDS Naturals

CONSTANTS Devices, Times

VARIABLES known,      \* Device -> its latest report, with the last repaint
          underway,   \* Device -> the reports that may still be kept
          kept        \* Device -> the report kept

book == <<known, underway, kept>>

NoReport == [seen |-> 0, rendered |-> 0]

BookInit ==
    /\ known = [d \in Devices |-> NoReport]
    /\ underway = [d \in Devices |-> {}]
    /\ kept = [d \in Devices |-> NoReport]

Hear(d, t, rendered) ==
    LET report == [seen |-> t, rendered |-> IF rendered THEN t ELSE known[d].rendered] IN
    /\ t > known[d].seen
    /\ known' = [known EXCEPT ![d] = report]
    /\ underway' = [underway EXCEPT ![d] = @ \cup {report}]
    /\ UNCHANGED kept

\* Some of what is under way, the whole of it or nothing of it is lost.
Fewer ==
    /\ underway' = [d \in Devices |-> underway'[d]]
    /\ \A d \in Devices : underway'[d] \subseteq underway[d]

Lose ==
    /\ Fewer
    /\ UNCHANGED <<known, kept>>

Keep(d) ==
    /\ \E report \in underway[d] :
          /\ report.seen >= kept[d].seen /\ report.rendered >= kept[d].rendered
          /\ kept' = [kept EXCEPT ![d] = report]
    /\ Fewer
    /\ UNCHANGED known

StartAgain ==
    /\ known' = kept
    /\ underway' = [d \in Devices |-> {}]
    /\ UNCHANGED kept

BookNext ==
    \/ \E d \in Devices : \/ \E t \in Times, rendered \in BOOLEAN : Hear(d, t, rendered)
                          \/ Keep(d)
    \/ Lose
    \/ StartAgain

BookSpec == BookInit /\ [][BookNext]_book
=============================================================================
