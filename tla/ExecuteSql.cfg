\* Four rows and pages of one to three: up to four pages, full or not, cut by the
\* limit of the call or not.  The client may stop: no deadlock check.
CONSTANTS
  Texts <- MCTexts
  Limits <- MCLimits
  Offsets = {0, 1, 9}
  RowLimits = {0, 1, 5}
  Columns <- MCColumns
  Total = 4
  DefaultRowLimit = 2
  MaxRowLimit = 3
  InlineMaxBytes = 1
  MaxInt = 7
SPECIFICATION Spec
CHECK_DEADLOCK FALSE
INVARIANTS TypeOK ClauseGoesLast AnswerIsWhole WalkIsComplete KeysKeepApart
PROPERTIES PagesDisjoint
