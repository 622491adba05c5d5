SPECIFICATION Spec
CONSTANTS
  i1 = i1  i2 = i2  v1 = v1  v2 = v2  w1 = w1
  old = old  both = both  other = other
  theme = theme  rival = rival  s1 = s1  s2 = s2
  Installation = {i1, i2}
  Version = {v1, v2, w1}
  Theme = {theme, rival}
  ThemeOf <- Themes
  Offered = {v1, v2, w1}
  Config = {old, both, other}
  Accepts <- Schemas
  Default <- Defaults
  Session = {s1, s2}
  None = None
  MaxRevision = 2
  MaxTokens = 1
SYMMETRY Symmetry
INVARIANTS
  TypeOK
  ConfigsFitTheme
  PreviewShowsItsDraft
PROPERTIES
  PublishesValidatedDraft
  LateWritesStayBehind
  UpgradesValidatedDraft
