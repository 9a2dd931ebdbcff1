CONSTANTS
  Request = {r1, r2}
  Local = {l1}
  Remote = {p1, p2}
SPECIFICATION FairSpec
INVARIANT TypeOK
INVARIANT AnswersFromOpenIndex
INVARIANT SentIsIndexed
INVARIANT PanicsAtTheEdgesOnly
INVARIANT NoBlindPull
PROPERTY StopEnds
CHECK_DEADLOCK FALSE
