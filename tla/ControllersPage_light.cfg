\* Two controllers, two servers, one token.
SPECIFICATION PageSpec
CONSTANTS
  Controllers = {a, b}
  Urls = {v, w}
  Tokens = {t}
  a = a
  b = b
  v = v
  w = w
  t = t
  Blank = blank
  None = none
  Starts = {{a}, {a, b}}
  MaxEvents = 3
INVARIANTS
  LightIsOfTheForm
