--------------------------- MODULE MCSessionCache ---------------------------
(* SessionCache for an instance that moves between two accounts.            *)
EXTENDS SessionCache
CONSTANTS w1, w2, a, b
MCWorkers == {w1, w2}
MCAccounts == {a, b}
MCConfigs == {[owner |-> a, password |-> TRUE, key |-> FALSE],
              [owner |-> b, password |-> TRUE, key |-> TRUE],
              [owner |-> b, password |-> FALSE, key |-> TRUE]}
MCCustomers == {{a, b}, {a}}
MCPrograms == {"token", "sub2api"}
MCIds == {1, 2}
=============================================================================
