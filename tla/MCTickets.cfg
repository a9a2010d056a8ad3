SPECIFICATION Spec
CONSTANTS
  t1 = t1
  t2 = t2
  k1 = k1
  r1 = r1
  r2 = r2
  Tickets = {t1, t2}
  Cases = {k1}
  NoCase = NoCase
  NoTicket = NoTicket
  Reviewers = {r1, r2}
  MaxAnswers = 2
  MaxUpdates = 1
  MaxFaults = 1
CHECK_DEADLOCK FALSE
SYMMETRY ReviewerSymmetry
INVARIANTS ResumeIsRecorded ResumeFitsQuestion LinkNamesTicket
PROPERTIES DecisionStandsUnlessOvertaken
