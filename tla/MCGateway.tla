------------------------------- MODULE MCGateway -------------------------------
(***************************************************************************)
(* Three initial states share the run, each with some bounds used up.  In  *)
(* Launch the database is empty, pods boot and users sign in, two tabs by  *)
(* wallet, or one by wallet and one by GitHub and passkey; Redis stays and *)
(* the admin's key is the only one.  In Steady the pods serve the admin    *)
(* and a GitHub user, keys are issued and Redis may go; no wallet signs    *)
(* in.                                                                     *)
(***************************************************************************)
EXTENDS Gateway

CONSTANTS u1, u3, g1, b1

\* A row no route finds and no route takes.
UsedUp == [NoKey EXCEPT !.st = "revoked"]

Launch ==
    /\ EmptyDb /\ NoRequests /\ outages = MaxOutages
    /\ keys = [k \in KeyIds |-> IF k = AdminKey THEN NoKey ELSE UsedUp]
    /\ \/ nonces = 0 /\ logins = MaxLogins
       \/ nonces = MaxNonces - 1 /\ logins = 0

Steady ==
    /\ NoRequests /\ outages = 0
    /\ keys = [k \in KeyIds |-> IF k # AdminKey THEN NoKey
                               ELSE [user |-> u1, network |-> AdminNet, st |-> "live"]]
    /\ emailOf = [u \in UserIds |-> CASE u = u1 -> Admin [] u = u3 -> g1 [] OTHER -> None]
    /\ accounts = [a \in Addresses |-> None]
    /\ latest = [a \in Addresses |-> 0] /\ nonces = MaxNonces /\ logins = MaxLogins
    /\ sessions = {[user |-> u3, addr |-> None]}
    /\ tab = [b \in Browsers |-> IF b = b1 THEN SignedIn(u3) ELSE NoTab]
    /\ pod = [p \in Pods |-> [NoBoot EXCEPT !.pc = "up"]] /\ bootKey = u1
    /\ faults = 0

MCSpec == (Launch \/ Steady) /\ [][Next]_vars /\ Fairness
=============================================================================
