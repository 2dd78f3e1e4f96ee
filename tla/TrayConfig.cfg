SPECIFICATION Spec
CONSTANTS
  Token = {t1, t2}
  Child = {c1}
  TrayAccount = acc
  ChildAccount = dflt
  NoToken = nosession
  NoChild = nochild
PROPERTIES
  SignInTakesEffect
