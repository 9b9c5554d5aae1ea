SPECIFICATION Spec
CONSTANTS
  Uri = {u1}
  Text = {x, y, bad}
  Bad = {bad}
  Parse = {p1, p2}
  None = None
INVARIANT FormatKeepsText
