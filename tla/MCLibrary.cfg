SPECIFICATION FairSpec
CONSTANTS
  W = 5
  Alphabet = {"a", "%", "-", "0", "3", "*", ".", "#", "l", "c", "e", "s", "d", "u", "o", "p", "x"}
  MAXLEN = 3
  MAXERROR = 9
  SIZE = 6
  Chars = {0, 1, 2}
  StrChars = {0, 1, 200}
  Letters = {"a", "b"}
  BUFFER = 5
  Texts = {" ", "+", "-", "0", "x", "7", "9", "a", "A"}
  Bases = {0, 8, 10, 16}
  N = 6
  Values = {1, 2, 4}
  Targets = {0, 1, 2, 3, 4, 5}
  UNITS = 3
  WORD = 24
  PGSIZE = 4
  ULIM = 20
  Symbols = {" ", "h", "k"}
  LENGTH = 5
  MAXARGS = 3
INVARIANTS
  ResultsRight
  RegionFound
  AnswerRight
PROPERTIES
  ReadsBack
  CallsReturn
CHECK_DEADLOCK FALSE
