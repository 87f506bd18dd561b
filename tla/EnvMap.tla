------------------------------- MODULE EnvMap -------------------------------
(* What the environment of the shell promises to export, unset and cd: a map  *)
(* from names to values, in which each request takes effect once, in order,   *)
(* and nothing else changes.                                                  *)
CONSTANTS Name, NotName, Value, NULL, Unset, OLDPWD, PWD, SHLVL, One

\* NULL is the value of a name that was exported without one; Unset stands for
\* a name that is not there, or for the request to remove it.
Held == Value \cup {NULL, Unset}
Request == [name : Name \cup {NotName}, value : Held]

VARIABLES m,       \* the map
          asked    \* the request that comes next, or NULL

Init == m = [n \in Name |-> Unset] /\ asked \in Request \cup {NULL}

\* A request about something that is not a name changes nothing.
Fulfil ==
    /\ asked # NULL
    /\ m' = [n \in Name |-> IF n = asked.name THEN asked.value ELSE m[n]]
    /\ asked' \in Request \cup {NULL}

Ask ==
    /\ asked = NULL
    /\ m' = m
    /\ asked' \in Request

HasValue(n) == m[n] \in Value

\* A shell starts with a level and a directory.
Defaults ==
    /\ asked = NULL
    /\ m' = [m EXCEPT ![SHLVL] = IF HasValue(SHLVL) THEN @ ELSE One,
                      ![PWD] = IF HasValue(PWD) THEN @ ELSE m'[PWD]]
    /\ m'[PWD] \in Value
    /\ asked' = NULL

\* cd: what was the directory is the old one, also when the new one cannot be
\* entered; the new one is known only if the old one was.
LeaveDirectory ==
    /\ asked = NULL
    /\ m' = [m EXCEPT ![OLDPWD] = IF HasValue(PWD) THEN m[PWD] ELSE NULL]
    /\ asked' = NULL

EnterDirectory ==
    /\ asked = NULL
    /\ HasValue(PWD)
    /\ m' = [m EXCEPT ![PWD] = m'[PWD]]
    /\ m'[PWD] \in Value
    /\ asked' = NULL

Next == Fulfil \/ Ask \/ Defaults \/ LeaveDirectory \/ EnterDirectory

Spec == Init /\ [][Next]_<<m, asked>>
=============================================================================
