CONSTANTS
  Connections = {c1, c2}
  Tokens = {t1, t2}
  Invitations = {i1, i2}
  None = None
  MaxBadProofs = 2
  MaxPending = 2
SPECIFICATION Spec
SYMMETRY Phones
INVARIANTS TypeOK LeaseIsCurrent ReservationIsInFlight OneCredentialPerInvitation
INVARIANTS AcknowledgedIsDurable OrphanIsRevoked NoWriteAfterRevoke
PROPERTIES LeaseIsNotStolen WithdrawnIsWorthless
