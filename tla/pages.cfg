SPECIFICATION PagesSpec
CONSTANTS
  Shown <- Routes
  Rows = {r1, r2}
  MaxGestures = 4
CHECK_DEADLOCK FALSE
INVARIANTS RowsAnswerWhatWasAsked RowsShowOwnActions OneAtATime
PROPERTY SpinnersEnd
