------------------------------- MODULE EnvTable -------------------------------
(***************************************************************************)
(* What the comments of bienvhash.c promise of the table of environment    *)
(* variables: a map, and what bi_put() returns: "0, if the key is new, 1   *)
(* if a value was overwritten, and -1 if an error occured".                *)
(***************************************************************************)
EXTENDS Integers

CONSTANTS
  KEYS, VALUES,
  NULL            \* no value

VARIABLES
  env,            \* the map
  ret             \* what the last bi_put() returned

vars == <<env, ret>>

Init == env = [k \in {} |-> NULL] /\ ret = NULL

\* A new or another value for key k.
Put(k, v) ==
  /\ env' = [x \in DOMAIN env \cup {k} |-> IF x = k THEN v ELSE env[x]]
  /\ ret' = IF k \in DOMAIN env THEN 1 ELSE 0

\* Without memory a new key is refused.  A known key loses its value, although 1
\* is returned: here the code does not keep the promise.
Refuse(k) == k \notin DOMAIN env /\ ret' = -1 /\ UNCHANGED env
Lose(k)   == k \in DOMAIN env /\ Put(k, NULL)

Next == \E k \in KEYS : (\E v \in VALUES : Put(k, v)) \/ Refuse(k) \/ Lose(k)

Spec == Init /\ [][Next]_vars
=============================================================================
