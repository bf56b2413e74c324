\* Two presses at a time of two keys that share an entry, and of one without confirmation and
\* one whose confirmation the plugin cannot give.
CONSTANTS
  Authority = {slow, fast, ping, wipe}
  Subject = {op}
  Control = {deck}
  Key = {k1, k2}
  MaxChallenges = 2
  Request = {r1, r2}
  Unconfirmed = {ping}
  Typed = {wipe}
  Entry = {{slow, fast}, {ping}, {wipe}}
  NoPending = NoPending
SPECIFICATION DeckSpec
SYMMETRY Symmetry
INVARIANTS
  PendingIsBound
  DeckRunsWhatWasConfirmed
CHECK_DEADLOCK FALSE
