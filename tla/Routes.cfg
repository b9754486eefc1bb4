SPECIFICATION Spec
CONSTANTS
    Routes = {home, r1}
    Accounts = {a1}
    Home = home
    Direct = Direct
    Inherit = Inherit
    Nobody = Nobody
    MaxProbes = 1
INVARIANTS RoutesTypeOK OnlineIsProven ActiveIsCertified KeyHasRoute
