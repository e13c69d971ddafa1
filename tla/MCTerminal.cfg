CONSTANTS
  MaxHistory = 2
  Home = Home
  Question = Question
  Uid = {u, v}
  Alias = {a, b}
  Group = {g, h}
  NoOne = NoOne
SPECIFICATION Spec
SYMMETRY Sym
INVARIANTS
  TextStaysPut
  PromptAnswered
  PromptNamesFocus
  IdleIsTimed
