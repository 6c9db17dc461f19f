-------------------------------- MODULE Systems --------------------------------
(***************************************************************************)
(* A vehicle as the SDK sees it: the table of systems with the connections *)
(* they are heard on (SystemRegistry), and the connection state of one     *)
(* system with its plugins (SystemConnection).  Each is looked at on its   *)
(* own with any messages; "part" says which.                               *)
(***************************************************************************)
EXTENDS SystemConnection, SystemRegistry

VARIABLE part

systemsVars == <<vars, registryVars, part>>

SystemsInit ==
    /\ Init /\ RegistryInit
    /\ part \in {"system", "registry"}
    \* the other is not looked at: one initial state of it is enough
    /\ part = "system" => foreign = {}

SystemStep == part = "system" /\ Next /\ UNCHANGED <<registryVars, part>>
RegistryStep == part = "registry" /\ RegistryNext /\ UNCHANGED <<vars, part>>

SystemsSpec == SystemsInit /\ [][SystemStep \/ RegistryStep]_systemsVars

\* Fairness of SystemConnection, and: the threads of the connections and the thread
\* that destroys the SDK run.  Nothing need arrive, fail or be asked for.
SystemsFairSpec ==
    /\ SystemsSpec
    /\ Fairness
    /\ \A c \in Conn : WF_registryVars(part = "registry" /\ Receiving(c))
    /\ \A c \in Conn :
          WF_registryVars(part = "registry" /\ (Close(c) \/ Join(c) \/ StopReceiver(c)))

\* A vehicle that falls silent is disconnected (SystemConnection), and the SDK can be
\* destroyed (SystemRegistry).
SystemsEnd == SilenceDisconnects /\ StopEnds

SystemsTypeOK == TypeOK /\ RegistryTypeOK
===============================================================================
