\* Two requests at a time, the microphone and a source, two processes.
CONSTANTS
  Request = {r1, r2}
  Switch = {mic, source}
  Unchecked = {source}
  Unreadable = {mic}
  Process = {p1, p2}
  None = None
SPECIFICATION Spec
INVARIANTS
  TypeOK
  OneInhibitor
  AnswersWereTrue
PROPERTIES
  InhibitorAnswers
