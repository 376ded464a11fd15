\* Every command of up to four words.
SPECIFICATION Spec
CONSTANTS
  python = python
  m = m
  script = script
  name = name
  number = number
  decimal = decimal
  short = short
  blanks = blanks
  Word <- AllWords
  Interpreter = {python}
  Option = {m}
  Unsafe = {blanks}
  Json = {number, decimal, short}
  Spelled <- AsPython
  MaxWords = 4
  None = None
CHECK_DEADLOCK FALSE
INVARIANTS
  WordsKept
  EntryPointFound
