SPECIFICATION MCSpec
CONSTANTS
  Top = 2
  Labels = {1, 2}
  Programs <- MCPrograms
  Size = 8
  Stale = {0, 1}
  MaxCommands = 5
INVARIANTS ProgramTypeOK PcInProgram
PROPERTIES StartsUnhindered LoopsCountOut TimLasts OneInstructionPerStep ProgramEnds
