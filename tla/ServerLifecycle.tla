--------------------------- MODULE ServerLifecycle ---------------------------
(***************************************************************************)
(* What an HttpServer promises to the code that owns it, without any of    *)
(* the machinery: the code of each request runs at most once, and when     *)
(* shutdown is reported as successful, no such code is running and none    *)
(* will start again, but for what was set free before: code that a handler *)
(* gave to a websocket task without a hold on the server.  A failed        *)
(* shutdown promises nothing.                                              *)
(***************************************************************************)
CONSTANT Requests

VARIABLES
  phase,   \* what the owner has been told
  active,  \* requests whose code is running and owns a part of the server
  free,    \* requests whose code goes on without owning any of it
  ended    \* requests whose code has run

lifecycleVars == <<phase, active, free, ended>>

LifecycleInit ==
  /\ phase = "up"
  /\ active = {}
  /\ free = {}
  /\ ended = {}

Begin(r) ==
  /\ phase # "stopped"
  /\ r \notin active \cup free \cup ended
  /\ active' = active \cup {r}
  /\ UNCHANGED <<phase, free, ended>>

End(r) ==
  /\ r \in active
  /\ active' = active \ {r}
  /\ ended' = ended \cup {r}
  /\ UNCHANGED <<phase, free>>

SetFree(r) ==
  /\ r \in active
  /\ active' = active \ {r}
  /\ free' = free \cup {r}
  /\ UNCHANGED <<phase, ended>>

EndFree(r) ==
  /\ r \in free
  /\ free' = free \ {r}
  /\ ended' = ended \cup {r}
  /\ UNCHANGED <<phase, active>>

Stop ==
  /\ phase = "up"
  /\ phase' = "stopping"
  /\ UNCHANGED <<active, free, ended>>

Stopped ==
  /\ phase = "stopping"
  /\ active = {}
  /\ phase' = "stopped"
  /\ UNCHANGED <<active, free, ended>>

Fail ==
  /\ phase \in {"up", "stopping"}
  /\ phase' = "failed"
  /\ UNCHANGED <<active, free, ended>>

LifecycleNext ==
  \/ Stop \/ Stopped \/ Fail
  \/ \E r \in Requests : Begin(r) \/ End(r) \/ SetFree(r) \/ EndFree(r)

LifecycleSpec == LifecycleInit /\ [][LifecycleNext]_lifecycleVars

=============================================================================
