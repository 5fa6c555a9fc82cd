-------------------------- MODULE MCNotifications --------------------------
(* Notifications for TLC: a day is a second, so are a minute and an hour.        *)
EXTENDS Notifications

CONSTANTS k1, k2, v1

MCKeys == {k1}
MCTwoKeys == {k1, k2}
MCValues == {v1}
MCNone == {}
MCExpiries == {2}
MCPast == {1}
MCTwoDates == {1, 2}
MCDays == {1}
MCNoRetryAfter == {0}
MCRetryAfter == {0, 2}

MCOff == [enabled |-> FALSE, onExpiry |-> TRUE, days |-> MCDays]
MCOn  == [enabled |-> TRUE, onExpiry |-> TRUE, days |-> MCDays]
MCProfiles == {MCOff, MCOn}

\* No reminder days: mail on expiry only.
MCBareOff == [enabled |-> FALSE, onExpiry |-> TRUE, days |-> {}]
MCBareOn  == [enabled |-> TRUE, onExpiry |-> TRUE, days |-> {}]
MCBareProfiles == {MCBareOff, MCBareOn}

\* Retries need seven seconds; two thresholds of one date need two.
Dated(e) == \E k \in Keys : \E n \in DOMAIN versions[k] : versions[k][n].expiry = e
MCShort == Dated(2) => now <= 2
MCNoteSpec == NoteInit /\ [][NoteNext /\ MCShort']_vars

\* A date moved there and back makes a third revision: of a key's only version.
MCThereAndBack ==
  \A k \in Keys : (\E n \in DOMAIN versions[k] : versions[k][n].rev > 2) => Len(versions[k]) = 1
MCKeysSpec == NoteInit /\ [][NoteNext /\ MCThereAndBack']_vars
============================================================================
