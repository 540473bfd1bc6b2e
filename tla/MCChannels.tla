----------------------------- MODULE MCChannels -----------------------------
EXTENDS Channels

CONSTANTS T0, T1

MCBudgets == {[edits |-> 4, visits |-> 0, telegram |-> 0],
              [edits |-> 2, visits |-> 3, telegram |-> 0],
              [edits |-> 0, visits |-> 6, telegram |-> 0],
              [edits |-> 1, visits |-> 0, telegram |-> 3],
              [edits |-> 0, visits |-> 0, telegram |-> 4]}
MCTexts == {T0, T1}
MCElsewhere == {T1}
=============================================================================
