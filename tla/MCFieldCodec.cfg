\* One field of every kind, values of every class.
SPECIFICATION Spec
CONSTANTS
  None = None
  FieldDefs <- MCFieldDefs
  Half <- MCHalf
  Rounded <- MCRounded
  Floats <- MCFloats
  Texts <- MCTexts
  Length <- MCLength
  WithNul <- MCWithNul
  Calendar <- MCCalendar
  DateNumber <- MCDateNumber
  Epoch = "epoch"
  Clock <- MCClock
  Midnight = "midnight"
  TimeNumber <- MCTimeNumber
  Words <- MCWords
  Inputs <- MCInputs
INVARIANTS
  TypeOK
  ReadsBack
  CopyKeeps
  NullAllowed
  ConversionsAgree
