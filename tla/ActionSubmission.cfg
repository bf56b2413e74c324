\* Two requests racing for two challenges, from two controls, under two keys.
CONSTANTS
  Authority = {restart}
  Subject = {op}
  Control = {deck, cli}
  Key = {k1, k2}
  MaxChallenges = 2
  Request = {r1, r2}
  Unconfirmed = {}
  Typed = {restart}
SPECIFICATION Spec
SYMMETRY Symmetry
INVARIANTS
  ConfirmationIsSingleUse
  WithdrawnNeverApproves
  JobsAreApproved
  AnswersNameTheirRequest
PROPERTY Confirmations
