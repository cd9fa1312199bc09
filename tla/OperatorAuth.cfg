\* two requests, two browsers, two accounts, one verification at a time
CONSTANTS
  Request = {r1, r2}
  Browser = {b1, b2}
  User = {u1, u2}
  Password = {p1, p2}
  None = None
  MaxConcurrentVerifies = 1
SYMMETRY Symmetry
SPECIFICATION Spec
INVARIANTS SlotsAreHeld SetupIsSound SessionsFollowPassword
PROPERTIES OperatorsStay
