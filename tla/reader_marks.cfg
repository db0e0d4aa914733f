\* Two packages, one section, four clicks; MarksKept is refuted.
CONSTANTS
  p1 = p1  p2 = p2
  Packages = {p1, p2}
  Sections = {s1}
  Newer <- Later
  MaxClicks = 4
  MaxFaults = 1
  MaxPolls = 1
SPECIFICATION ReaderSpec
INVARIANT MarksKept
\* A visit may be the last one.
CHECK_DEADLOCK FALSE
