----------------------------- MODULE MCTwoRuns -----------------------------
(* Two invocations and one container with a config file and a secret, and  *)
(* inputs that change and drop what it uses, or are refused.               *)
EXTENDS TwoRuns

CONSTANTS c1, s1, f1, x, y

Plain == [def |-> x, allowed |-> TRUE, reclaim |-> TRUE, type |-> "running",
          reloadable |-> FALSE, refs |-> {}, image |-> None, secrets |-> {}, mounts |-> {}]
Full ==
    [unit |-> [u \in Container \cup Volume \cup Network \cup Build |-> [Plain EXCEPT !.secrets = {s1}]],
     files |-> [u \in Container \cup Build |-> [f \in File |-> x]],
     dirs |-> [c \in Container |-> [d \in Dir |-> x]],
     secrets |-> [s \in Secret |-> x]]
MCInputs ==
    {Full,
     [Full EXCEPT !.unit[c1] = Plain, !.files[c1][f1] = y, !.secrets[s1] = None],
     [Full EXCEPT !.secrets[s1] = None]}  \* refused
=============================================================================
