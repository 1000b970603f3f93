SPECIFICATION Spec
CONSTANTS
  Emails <- MCEmails
  Normalized <- MCNormalized
  Passwords <- MCPasswords
  Prefix <- MCPrefix
  Lower = lower
  Upper = upper
  Short = short
  Cut = cut
  TooLong = toolong
  Long = {toolong}
  Registrations = {g1, g2}
  Calls = {c1, c2}
  NoUser = NoUser
  NoKey = NoKey
INVARIANT
  PasswordOpensAccount
CHECK_DEADLOCK FALSE
