SPECIFICATION Spec
CONSTANTS
  Programs <- MCPrograms
  Answers <- MCAnswers
  MaxResumes = 4
INVARIANTS TypeOK OutcomeIsMeaning
CHECK_DEADLOCK FALSE
