------------------------------ MODULE Promises ------------------------------
(* What the documentation of syslet says of a run, where the code does      *)
(* something else.  Each property is checked by a run of its own, which     *)
(* violates it; the README tells what the code does instead.  One more, of  *)
(* a single configDir, is at the end of ConfigDir.                          *)
EXTENDS Reconcile

\* "files exist before the unit files that reference them"
\* (docs/explanation/how-an-apply-works.md:41).
FilesExistBeforeUnits ==
    [][\A c \in Container :
          (installed'[c] # installed[c] /\ installed'[c] # None)
          => /\ \A f \in installed'[c].mounts \cap File : files[c][f] # None
             /\ \A d \in installed'[c].mounts \cap Dir : dirs[c][d] # None]_vars

\* "dropping the spec from the input leaves the container running and reports it as
\* skipped" (docs/how-to/manage-containers.md:90): a run does not stop a container
\* it keeps.
LockedKeepsRunning ==
    [][\A c \in Container :
          (/\ pc = "apply" /\ Active(c) /\ goal.unit[c] = None
           /\ installed[c] # None /\ ~installed[c].allowed)
          => Active(c)']_vars

=============================================================================
