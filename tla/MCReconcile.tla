---------------------------- MODULE MCReconcile ----------------------------
(* Instances of Reconcile for TLC: two containers, one volume, one network *)
(* and one build, and per run the inputs the operator applies in any       *)
(* order, any number of times.                                             *)
EXTENDS Promises

CONSTANTS c1, c2, v1, n1, b1, i1, i2, s1, s2, f1, f2, d1, x, y

Off == [def |-> x, allowed |-> TRUE, reclaim |-> TRUE, type |-> "stopped",
        reloadable |-> FALSE, refs |-> {}, image |-> None, secrets |-> {}, mounts |-> {}]
Running(rs) == [Off EXCEPT !.type = "running", !.refs = rs]
Locked(f) == [f EXCEPT !.allowed = FALSE]
Redefined(f) == [f EXCEPT !.def = y]

Empty == [unit |-> [u \in Unit |-> None], files |-> [u \in Stored |-> NoFiles],
          dirs |-> [c \in Container |-> [d \in Dir |-> None]],
          secrets |-> [s \in Secret |-> None]]
With(in, u, f) == [in EXCEPT !.unit[u] = f]

\* A volume, a network and a build, and the container c1 that uses all three.
Backing == [With(With(With(Empty, v1, Off), n1, Off), b1, Off) EXCEPT !.files[b1][f1] = x]
Backed == With(Backing, c1, Running({v1, n1, b1}))

\* What can change about them while all of them stay.
ResourceChanges(in) ==
    {in,
     With(in, n1, Redefined(Off)),
     With(in, v1, Redefined(Off)),
     [in EXCEPT !.files[b1][f1] = y],
     [in EXCEPT !.files[b1][f2] = x],
     With(in, v1, Locked(Off)),
     [in EXCEPT !.unit[c1].def = y]}
\* in with a container c that has a config file, a configDir, a secret and an image.
Configure(in, c) ==
    [in EXCEPT !.unit[c] = [Running({}) EXCEPT !.image = i1, !.secrets = {s1}],
               !.files[c][f1] = x, !.dirs[c][d1] = x, !.secrets[s1] = x]
Reloadable(in, c) == [in EXCEPT !.unit[c].reloadable = TRUE]
ConfigChanges(in, c) ==
    {in,
     [in EXCEPT !.files[c][f1] = y],
     [in EXCEPT !.files[c][f2] = x],
     [in EXCEPT !.dirs[c][d1] = y],
     [in EXCEPT !.dirs[c][d1] = None],
     [in EXCEPT !.secrets[s1] = y],
     [in EXCEPT !.unit[c].secrets = {s2}, !.secrets[s1] = None, !.secrets[s2] = x],
     [in EXCEPT !.unit[c].image = i2],
     [in EXCEPT !.unit[c].type = "stopped"],
     Reloadable(in, c),
     [Reloadable(in, c) EXCEPT !.dirs[c][d1] = y],
     [Reloadable(in, c) EXCEPT !.unit[c].allowed = FALSE]}
Configured == Configure(Empty, c1)
ConfigInputs == ConfigChanges(Configured, c1)

\* The container with resources, config file, configDir and secret, and what can
\* change about all of them.
Loaded == [Configure(Backed, c1) EXCEPT !.unit[c1].refs = {v1, n1, b1}]
CrashInputs ==
    ResourceChanges(Loaded) \cup
    {[Loaded EXCEPT !.files[c1][f1] = y],
     [Loaded EXCEPT !.dirs[c1][d1] = y],
     [Loaded EXCEPT !.secrets[s1] = y],
     [Loaded EXCEPT !.unit[c1].secrets = {s2}, !.secrets[s1] = None, !.secrets[s2] = x]}

\* Both at once, for the runs nothing disturbs.
Host == Configure(Backed, c2)
HostInputs == ResourceChanges(Host) \cup ConfigChanges(Host, c2)

\* Two containers, c2 locked, and what may be taken away or changed around them.
Shared == With(With(Backing, c1, Running({v1, b1})), c2, Locked(Running({v1, n1, b1})))
RemovalInputs ==
    {Shared,
     Empty,
     With(Shared, c2, None),
     With(Shared, v1, Locked(Off)),
     With(With(Shared, v1, Redefined(Off)), n1, Redefined(Off)),
     [Shared EXCEPT !.files[b1][f1] = y, !.files[b1][f2] = x],
     With(With(With(Shared, c1, None), c2, None), v1, None),
     With(Shared, c2, Running({}))}

\* The inputs of the runs that contradict Promises.
OnlyConfigured == {Configured}
LastFileDropped == {Configured, [Configured EXCEPT !.files[c1][f1] = None]}
LockedLeft == {Shared, With(With(Shared, c2, None), n1, Redefined(Off))}
=============================================================================
