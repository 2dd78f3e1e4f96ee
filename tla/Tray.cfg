SPECIFICATION LiveSpec
CONSTANTS
  Token = {t1, t2}
  Child = {c1, c2}
  TrayAccount = acc
  ChildAccount = acc
  NoToken = nosession
  NoChild = nochild
INVARIANTS
  TypeOK
  MenuMirrorsSession
  SignedOutStaysForgotten
PROPERTIES
  NoSessionSwap
  SignInTakesEffect
  DashboardsCarryLiveSignIn
  SignalEndsTray
