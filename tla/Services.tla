------------------------------ MODULE Services ------------------------------
(***************************************************************************)
(* main.go's resolveAction and the switch over its result: the same flags  *)
(* lead to deploy/systemd.go and deploy/release.go on Linux (module        *)
(* Deploy) and to deploy/service_windows.go on Windows (module             *)
(* WindowsService); without one of them the process runs.                  *)
(*                                                                         *)
(* What is deployed under systemd is in Deploy's state; the life of a      *)
(* process on a console, the same on both systems, is only followed for    *)
(* "windows".                                                              *)
(***************************************************************************)
EXTENDS WindowsService, Deploy

VARIABLE goos   \* runtime.GOOS

servicesVars == <<goos, allVars, deployVars>>

ServicesInit ==
    /\ Init /\ DeployInit
    /\ goos \in {"linux", "windows"}
    /\ goos = "linux" => ~Alive /\ interval = "positive"

ServicesNext ==
    \/ goos = "linux" /\ DeployNext /\ UNCHANGED <<goos, allVars>>
    \/ goos = "windows" /\ Next /\ UNCHANGED <<goos, deployVars>>

\* Nothing is assumed of an administrator, of dpkg or of systemd.
ServicesSpec == ServicesInit /\ [][ServicesNext]_servicesVars /\ Fairness
=============================================================================
