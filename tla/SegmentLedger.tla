--------------------------- MODULE SegmentLedger ---------------------------
(***************************************************************************)
(* What a session promises about what was said, without handlers, locks or *)
(* failures: turns are said into one open segment; the open segment is     *)
(* handed over whole; it may be handed over again, or come back as it was  *)
(* handed over, when the hand-over is not known to have worked; and what   *)
(* is open when the session ends is gone with it.                          *)
(***************************************************************************)
EXTENDS Naturals, Sequences

VARIABLES length, \* how many turns were said
          open,   \* the open segment
          handed, \* the segments handed over, in order
          ended   \* the session is over

ledger == <<length, open, handed, ended>>

Init == /\ length = 1
        /\ open = {1}
        /\ handed = <<>>
        /\ ended = FALSE

Say == /\ ~ended
       /\ length' = length + 1
       /\ open' = open \cup {length + 1}
       /\ UNCHANGED <<handed, ended>>

\* The segment is closed, or was handed over without the session knowing.
HandOver == /\ open # {}
            /\ handed' = Append(handed, open)
            /\ open' \in {{}, open}
            /\ UNCHANGED <<length, ended>>

\* The close was cut short: the whole segment is open again.
Reopen == /\ ~ended
          /\ open = {}
          /\ handed # <<>>
          /\ open' = handed[Len(handed)]
          /\ UNCHANGED <<length, handed, ended>>

End == /\ ~ended
       /\ ended' = TRUE
       /\ open' = {}
       /\ UNCHANGED <<length, handed>>

Next == Say \/ HandOver \/ Reopen \/ End

Spec == Init /\ [][Next]_ledger
=============================================================================
