SPECIFICATION Spec
CONSTANTS
  Projects = {p1, p2}
  WorkItems = {w1}
  Jobs = {j1}
  Systems = {"pm", "document"}
  Importable = {"pm"}
  Externals = {x1, x2}
  Handlers = {h1, h2}
  MaxChanges = 1
  None = None
SYMMETRY MCSymmetry
INVARIANTS
  OneProjectPerExternal
  AnswersStayTrue
  ToldOnce
PROPERTY NothingMoves
