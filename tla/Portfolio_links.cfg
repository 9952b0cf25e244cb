SPECIFICATION PortfolioSpec
CONSTANTS
  Owner = {alice, bob}
  Username = {n1, n2}
  Project = {p1, p2}
  Slug = {x}
  Claim = {c1, c2}
  Guest = {g1}
SYMMETRY Names
INVARIANTS LinksAreUnambiguous 
