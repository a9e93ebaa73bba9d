----------------------------- MODULE MCLSProxy -----------------------------
(* A small instance of LSProxy for TLC. *)
EXTENDS LSProxy

CONSTANTS q1, q2, n1, n2, c1, p1

\* Every kind of message once with callbacks, at two levels, and the client's
\* also without.
MCHandlers ==
    [m \in Messages |-> CASE m = q1 -> {"method", "any"}
                          [] m = n1 -> {"kind", "any"}
                          [] m = c1 -> {"method"}
                          [] OTHER -> {}]
MCMiddlewares ==
    [m \in Messages |-> CASE m = q1 -> {"kind", "any"}
                          [] m \in {n1, c1} -> {"method"}
                          [] m = p1 -> {"method", "any"}
                          [] OTHER -> {}]
MCResultMiddlewares == [r \in Requests |-> IF r = q1 THEN {"method"} ELSE {"method", "any"}]
=============================================================================
