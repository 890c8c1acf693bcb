CONSTANTS
    Dbs = {d1, d2, d3}
    Hosts = {h1, h2}
    Requests = {r1, r2}
    NoHost = NoHost
    Null = Null
SPECIFICATION Spec
INVARIANTS ServedIsShown ExclusiveUnlessRaced ShownIsServed
