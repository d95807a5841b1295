SPECIFICATION Spec
CONSTANTS
  Keys <- MCKeys
  Chords <- MCChords
  Top = 10
  RepeatDelay = 3
  RepeatRate = 2
  Foreign = {7}
INVARIANTS TeachboxTypeOK CommitIsTyped PressedKeyIsSeen
PROPERTIES CodesAreDeliberate JogsArePaced
