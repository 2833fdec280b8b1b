SPECIFICATION TokenSpec
CONSTANTS
  Publisher = {p1, p2}
  Request = {r1}
  Member = {m1, m2}
  Renewable = {TRUE, FALSE}
  MaxGrants = 3
  MaxFailures = 1
SYMMETRY TokenSymmetry
INVARIANTS TokenInv AuthorOwnsToken OldTokensStayOut
