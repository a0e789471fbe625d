SPECIFICATION Spec
CONSTANTS
  r1 = r1
  r2 = r2
  e1 = e1
  e2 = e2
  e3 = e3
  n1 = n1
  n2 = n2
  n3 = n3
  Capital = Capital
  Ids = {1, 2, 3}
  Emails = {e1, e2, e3}
  Usernames <- Names
  Lower <- MCLower
  SignUps <- MCSignUps
  Requests = {r1, r2}
  Profiles <- MCProfiles
  Limits = {1, 2}
  Instants = {1, 2, 3}
  Tables <- MCTables
SYMMETRY MCSymmetry
INVARIANT UsernamesUnique
