----------------------------- MODULE MCRouting -----------------------------
(* A small instance of Routing for TLC. *)
EXTENDS Routing

CONSTANTS c1, c2, n1, s1

\* Two requests under the same numeric id, or under the same string id, or one of each.
MCWorkloads == {{<<c1, n1>>, <<c2, n1>>}, {<<c1, s1>>, <<c2, s1>>}, {<<c1, n1>>, <<c2, s1>>}}
=============================================================================
