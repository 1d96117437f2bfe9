\* Two requests, each followed by any number of others.
SPECIFICATION MCSpec
CONSTANTS
    acme = acme
    zeta = zeta
    Tenant = {acme, zeta}
    User = {u1, u2}
    Email = {e1, e2}
    Connection = {c1, c2}
    Request = {r1, r2}
    None = None
    Gone = Gone
SYMMETRY Symmetry
INVARIANTS ConnectionCarriesContext
PROPERTIES SignedInAsAddressed NoForeignWrite
CONSTRAINT Scenario
