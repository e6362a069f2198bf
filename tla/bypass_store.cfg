SPECIFICATION Spec
CONSTANTS
    c1 = c1
    c2 = c2
    push = push
    net = net
    debug = debug
    here = here
    Calls = {c1, c2}
    Humans = {h1, h2}
    NoProc = NoProc
    Rules = {push, net, debug}
    CommandRules = {push, net}
    Scopes = {here}
    Scope <- MCScope
    Denied <- MCDenied
    Inputs <- MCInputs
    Requests = {{push, net}, {push, debug}}
    Ttls = {1}
    MaxGrants = 2
    MaxTime = 1
    Horizon = 2
INVARIANTS
    TypeOK
    OneShot
    NothingUnpaid
PROPERTIES
    ActsAtomically
    EveryCallDecided
