-------------------------- MODULE RoutingProperties --------------------------
(***************************************************************************)
(* What the routing to profiles promises.                                  *)
(***************************************************************************)
EXTENDS ProfileRouting

PortMap == [Profile -> Port \cup {None}]

SessionType ==
  [pc : {"idle", "get", "dir", "probe", "lock", "insert", "clone", "launch", "all",
         "mirror", "route", "answered", "stop", "remove", "rm", "read", "unroute",
         "delete"},
   name : Profile \cup {None}, port : Port \cup {None}, seen : PortMap,
   create : BOOLEAN, clean : BOOLEAN]

(* Every variable has its type.                                            *)
TypeOK ==
  /\ map \in PortMap /\ process \in PortMap /\ nginx \in PortMap
  /\ row \in PortMap /\ mirror \in PortMap
  /\ dir \subseteq Profile /\ failed \subseteq Profile /\ cached \subseteq Profile
  /\ ses \in [Session -> SessionType]
  /\ boot \in [pc : {"up", "reconcile", "nginx", "launch", "register"}, seen : PortMap]
  /\ handled \in 0 .. MaxHandled /\ failures \in 0 .. MaxFailures /\ calm \in BOOLEAN

Injective(m) == \A p, q \in Profile : m[p] = m[q] /\ m[p] # None => p = q

(* port_map.py:11: every profile has a port of its own, whatever handlers, *)
(* failed execs and Pod starts do to the map.                              *)
PortsUnique == Injective(map)

(* So has whatever was copied from the map, some time ago and through      *)
(* failures: the routes of nginx, the mirror in the database, what a       *)
(* handler or the start of the Pod has read and has yet to write.          *)
CopiesUnique ==
  /\ Injective(nginx) /\ Injective(mirror) /\ Injective(boot.seen)
  /\ \A s \in Session : Injective(ses[s].seen)

(* A message the gateway sends to p, from its cache or because the mirror  *)
(* has a port of p, never reaches the process of another profile, as long  *)
(* as every process to be stopped has stopped, every write of the routes   *)
(* has been made and handlers came one after another: failed allocations,  *)
(* copies, launches, removals and readings of the map, processes that die  *)
(* and restarts of the Pod do no harm.  A target cached for a profile that *)
(* has been deleted since is the exception (profile_resolver.py:95-106).   *)
Crosses(p)    == nginx[p] # None /\ \E q \in Profile \ {p} : process[q] = nginx[p]
Sent(p)       == Trusted(p) \/ (p \in cached /\ row[p] # None)
ReachesItsOwn == calm => \A p \in Profile : Sent(p) => ~ Crosses(p)

(* An ensure that nobody interferes with puts everything right, whatever   *)
(* the failures before it have left behind: the map, the row, the mirror,  *)
(* the route and the process agree.  Two cases are beyond it: another      *)
(* process sits on the port, or the map has lost the profile.              *)
EnsureHeals ==
  \A s \in Session :
    LET p == Name(s) IN
    At(s, "answered") /\ ses[s].clean /\ map[p] # None =>
      \/ /\ row[p] = map[p] /\ mirror[p] = map[p] /\ nginx[p] = map[p]
         /\ process[p] = map[p]
      \/ \E q \in Profile \ {p} : process[q] = map[p]
=============================================================================
