CONSTANTS
  Texts = {upper, lower, another}
  Variants = {{upper, lower}}
  Blank = Blank
  Secs = 1
  CodeSecs = 2
  MaxCopies = 3
SPECIFICATION FairSpec
INVARIANT TypeOK
PROPERTIES SparesOthers StaysItsTime CopyGoes
