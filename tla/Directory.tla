----------------------------- MODULE Directory -----------------------------
(***************************************************************************)
(* What a configDir promises to the containers that read it: the files     *)
(* behind "..data" are those of one whole update, replaced in a single     *)
(* step, and taken away only once no input asks for the directory.         *)
(* ConfigDir implements it (property ImplementsDirectory there).           *)
(***************************************************************************)
CONSTANTS Name, Value, None, Torn, Wants

OnDisk == [Name -> Value \cup {None, Torn}]
Empty == [n \in Name |-> None]

VARIABLES
    wanted,    \* what the current or latest run wants of the directory
    shown,     \* the files a reader finds behind the link
    disturbed  \* whether a call has failed or a run has died so far

vars == <<wanted, shown, disturbed>>

\* A run reads its input.  It shows nothing yet.
Choose(w) == wanted' = w /\ UNCHANGED <<shown, disturbed>>

\* All the wanted files appear at once and whole.  Other names may appear with
\* them only as the remains of a run that was disturbed.
Publish ==
    /\ wanted # None
    /\ shown' \in OnDisk
    /\ \A n \in Name : wanted[n] # None => shown'[n] = wanted[n]
    /\ ~disturbed => shown' = wanted
    /\ UNCHANGED <<wanted, disturbed>>

\* A directory nobody wants is removed, in part only if something goes wrong.
Remove ==
    /\ wanted = None
    /\ shown' \in OnDisk
    /\ \A n \in Name : shown'[n] \in {shown[n], None}
    /\ shown' = Empty \/ disturbed'
    /\ disturbed => disturbed'
    /\ UNCHANGED wanted

Disturb == disturbed' /\ UNCHANGED <<wanted, shown>>

Init == wanted = None /\ shown = Empty /\ ~disturbed
Next == (\E w \in Wants : Choose(w)) \/ Publish \/ Remove \/ Disturb
Spec == Init /\ [][Next]_vars
=============================================================================
