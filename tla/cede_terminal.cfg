SPECIFICATION Spec
CONSTANTS
  poor = poor
  fair = fair
  good = good
  fine = fine
  NoLayout = NoLayout
  Setting <- OnlyCede
INVARIANT TerminalCandidatesRetained
