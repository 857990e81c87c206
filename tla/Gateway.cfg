CONSTANTS
    None = None  Admin = Admin  Redis = Redis
    u1 = u1  u3 = u3  g1 = g1  b1 = b1
    Addresses = {a1}  Githubs = {g1}  Browsers = {b1, b2}  Pods = {p1, p2}
    UserIds = {u1, u2, u3}  MaxNonces = 2  MaxLogins = 2  MaxFaults = 1  MaxOutages = 1
    KeyIds = {k0, k1}  AdminKey = k0  AdminNet = testnet  Reqs = {r1}  Networks = {testnet, mainnet}
    Enabled = {testnet}  Default = testnet  Points = 1  Watched = u3
SPECIFICATION MCSpec
INVARIANTS SessionsAgree  BudgetHolds
PROPERTY AdminProvisioned
CHECK_DEADLOCK FALSE
