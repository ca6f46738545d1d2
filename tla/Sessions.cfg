\* Credentials and sessions of three small accounts, three slots each.
CONSTANTS
  Sessions = {s1, s2, s3}
  Accounts <- MCAccounts
  Passwords = 3
  Secrets = 2
  Instants = 2
  Challenges = 2
  AttemptLimit = 5
  PasskeyLimit = 2
SYMMETRY Symmetry
SPECIFICATION Spec
INVARIANT LiveSessionsAreCurrent
INVARIANT SecondFactorCovered
INVARIANT CodesWorkOnce
PROPERTY SignedOutChangeNothing
PROPERTY EnrolledUnderCurrentPassword
PROPERTY ResetByNewestCode
