SPECIFICATION Spec
CONSTANTS
  Users = {u1, u2}
  Admins = {a1, a2}
  Owners = {u1, u2}
PROPERTY CriticalStays
