SPECIFICATION Spec
CONSTANTS
  plain = plain
  tagged = tagged
  tag = tag
  Keys = {1, 2, 3}
  PathOf <- MCPathOf
  Spaces <- MCSpaces
  Values = {plain, tagged}
  Tags = {tag}
  Tokens <- MCTokens
  Words <- MCWords
  PoolMax = 3
INVARIANTS PrefixSearchExact TagSearchSound ReadableInNamespace IterationComplete
