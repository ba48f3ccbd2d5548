SPECIFICATION Spec
CONSTANTS
  s1 = s1
  s2 = s2
  breakout = breakout
  reversal = reversal
  Strategy = {s1, s2}
  RecipeOf <- MCRecipeOf
  None = None
  MinLedger = 2
  MaxVerdicts = 1
PROPERTY FailuresAreLearned
