\* Three administrators and two requests of any kind; one more account may be invited.
CONSTANTS
  ann = ann
  ben = ben
  cat = cat
  dee = dee
  cus = cus
  i1 = i1
  i2 = i2
  v1 = v1
  None = None
  Staff = {ann, ben, cat, dee}
  Customers = {cus}
  Items = {i1, i2}
  Invitations = {v1}
  Opening <- MCOpening
  Agendas <- MCAgendas
  Roles = {"admin", "finance"}
  MaxVersion = 2
  MaxStops = 2
SYMMETRY Symmetry
SPECIFICATION Spec
INVARIANT TwoAdministratorsRemain
PROPERTY DecidedAsProposed
PROPERTY StopHolds
CHECK_DEADLOCK FALSE
