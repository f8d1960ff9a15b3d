---------------------------- MODULE ProfileRouting ----------------------------
(***************************************************************************)
(* How a message of a user reaches the profile of that user in the engine  *)
(* Pod.  The gateway (profile_resolver.py, proxy.py) asks the manager to   *)
(* ensure a profile; the manager (profiles.py) allocates a port in the     *)
(* Pod's port_map.json, starts the profile's process on it, writes the     *)
(* nginx routes and mirrors the ports in the database; entrypoint-v2.sh    *)
(* does the same when the Pod starts.  A message goes to the port nginx    *)
(* has for its profile; without a route it goes to the base profile.       *)
(*                                                                         *)
(* Every exec into the Pod is a step of its own and may fail: its error is *)
(* logged and the handler goes on.                                         *)
(***************************************************************************)
EXTENDS Naturals, FiniteSets

CONSTANTS
  Session,    \* requests the manager works on
  Profile,    \* profile names
  MinPort, MaxPort,  \* HERMES_PORT_MIN, HERMES_PORT_MAX
  None,
  Faults,     \* the execs that may fail, and "restart" of the Pod
  MaxHandled, \* bound: requests handled
  MaxFailures \* bound: execs that fail, processes that die, restarts

ASSUME RoutingAssumption ==
  /\ MinPort \in Nat /\ MaxPort \in Nat /\ None \notin MinPort .. MaxPort
  /\ MaxHandled \in Nat /\ MaxFailures \in Nat

VARIABLES
  map,      \* port_map.json: the port of each profile, or None
  dir,      \* profiles that have a directory on the volume
  process,  \* process[p]: the port the process of p listens on, or None
  nginx,    \* nginx[p]: the port messages for p are sent to, or None (base)
  row,      \* agent_profiles.internal_port, or None
  mirror,   \* internal_port_map["profiles"] of the deployment row
  failed,   \* _failed_profiles of the gateway
  cached,   \* profiles whose resolved target the gateway has cached (60 s)
  ses,      \* the requests
  boot,     \* how far entrypoint-v2.sh is, and the port map it has read
  handled,  \* requests handled so far
  failures, \* failures so far
  calm      \* so far no stop and no route failed, and no two handlers overlapped

pod      == <<map, dir, process, nginx>>
database == <<row, mirror>>
gateway  == <<failed, cached>>
history  == <<handled, failures, calm>>
vars     == <<pod, database, gateway, ses, boot, history>>

Port     == MinPort .. MaxPort
Nowhere  == [p \in Profile |-> None]
PortsOf(m) == {m[p] : p \in Profile} \ {None}

(* clean: nothing else was going on, and nothing failed, since it began.   *)
Idle == [pc |-> "idle", name |-> None, port |-> None, seen |-> Nowhere,
         create |-> FALSE, clean |-> FALSE]

Up == [pc |-> "up", seen |-> Nowhere]

Init ==
  /\ map = Nowhere /\ dir = {} /\ process = Nowhere /\ nginx = Nowhere
  /\ row = Nowhere /\ mirror = Nowhere /\ failed = {} /\ cached = {}
  /\ ses = [s \in Session |-> Idle] /\ boot = Up
  /\ handled = 0 /\ failures = 0 /\ calm = TRUE

At(s, pc)   == ses[s].pc = pc
Name(s)     == ses[s].name
Goto(s, pc) == ses' = [ses EXCEPT ![s].pc = pc]
Slip(s, pc) == ses' = [ses EXCEPT ![s].pc = pc, ![s].clean = FALSE]
TeardownPc  == {"stop", "remove", "rm", "read", "unroute", "delete"}
Active      == {s \in Session : ~ At(s, "idle")}

Fine       == UNCHANGED failures
Failure(e) == e \in Faults /\ failures < MaxFailures /\ failures' = failures + 1

(* A request comes in: whoever is at work is no longer alone.              *)
Start(s, pc, p, create) ==
  LET alone == Active = {} /\ boot = Up IN
  /\ At(s, "idle") /\ handled < MaxHandled
  /\ ses' = [u \in Session |->
       IF u = s THEN [Idle EXCEPT !.pc = pc, !.name = p, !.port = row[p],
                                  !.create = create, !.clean = alone]
       ELSE [ses[u] EXCEPT !.clean = FALSE]]
  /\ handled' = handled + 1
  /\ calm' = (calm /\ alone) /\ Fine

(***************************************************************************)
(* The gateway                                                             *)
(***************************************************************************)
(* resolve, without a cached target (each channel has its own): a port in  *)
(* the mirror means that the profile is ready, unless a message has just   *)
(* failed.  Otherwise the manager is asked.                                *)
Trusted(p) == mirror[p] # None /\ p \notin failed

(* ensure_profile: a row with a port, or _do_create_profile.               *)
Ensure(s, p) ==
  /\ ~ Trusted(p)
  /\ IF row[p] # None THEN Start(s, "get", p, FALSE) ELSE Start(s, "lock", p, TRUE)
  /\ UNCHANGED <<pod, database, gateway, boot>>

(* The target of p is known, from the mirror or because the manager has    *)
(* answered, with an error perhaps, or not within 20 s: it is cached, and  *)
(* the messages of p are sent without a look at the mirror.                *)
Asking(p) == \E s \in Session : Name(s) = p /\ ses[s].pc \notin TeardownPc

Resolve(p) ==
  /\ Trusted(p) \/ Asking(p)
  /\ cached' = cached \cup {p} /\ failed' = failed \ {p}
  /\ UNCHANGED <<pod, database, ses, boot, history>>

(* Nothing listens where nginx sends the message: 502, invalidate.         *)
Answers502(p) ==
  /\ p \in cached /\ nginx[p] # None /\ nginx[p] \notin PortsOf(process)
  /\ failed' = failed \cup {p} /\ cached' = cached \ {p}
  /\ UNCHANGED <<pod, database, ses, boot, history>>

FailureExpires(p) ==
  /\ p \in failed /\ failed' = failed \ {p}
  /\ UNCHANGED <<pod, database, cached, ses, boot, history>>

CacheExpires(p) ==
  /\ p \in cached /\ cached' = cached \ {p}
  /\ UNCHANGED <<pod, database, failed, ses, boot, history>>

(***************************************************************************)
(* ensure_profile                                                          *)
(***************************************************************************)
(* The port of the map counts, where the map has one and can be read.  The *)
(* correction of the row is committed with the mirror.                     *)
EnsureGet(s) ==
  /\ At(s, "get")
  /\ \/ /\ Fine
        /\ ses' = [ses EXCEPT ![s].pc = "dir",
                     ![s].port = IF map[Name(s)] # None THEN map[Name(s)] ELSE @]
     \/ Failure("get") /\ Slip(s, "dir")
  /\ UNCHANGED <<pod, database, gateway, boot, handled, calm>>

(* No directory, or none could be seen: the row is deleted and the profile *)
(* created anew.                                                           *)
EnsureDir(s) ==
  LET recreate == row' = [row EXCEPT ![Name(s)] = None] IN
  /\ At(s, "dir")
  /\ \/ Name(s) \in dir /\ Goto(s, "probe") /\ Fine /\ UNCHANGED row
     \/ /\ Name(s) \notin dir /\ recreate /\ Fine
        /\ ses' = [ses EXCEPT ![s].pc = "lock", ![s].create = TRUE]
     \/ /\ Failure("dir") /\ recreate
        /\ ses' = [ses EXCEPT ![s].pc = "lock", ![s].create = TRUE, ![s].clean = FALSE]
  /\ UNCHANGED <<pod, mirror, gateway, boot, handled, calm>>

(* The port answers, whoever listens there; else the process is started.   *)
Alive_Fault(s) == ses[s].port # None
Alive(s)       == ses[s].port \in PortsOf(process)

EnsureProbe(s) ==
  /\ At(s, "probe")
  /\ \/ (IF Alive(s) THEN Goto(s, "all") ELSE Goto(s, "launch")) /\ Fine
     \/ Failure("probe") /\ Slip(s, "launch")
  /\ UNCHANGED <<pod, database, gateway, boot, handled, calm>>

(***************************************************************************)
(* _do_create_profile                                                      *)
(***************************************************************************)
(* port_map.py alloc: the port it has, or the first free one.              *)
Free_Fault == Port \ PortsOf(process)
Free       == Port \ PortsOf(map)

FirstFree_Fault == CHOOSE n \in MinPort .. MaxPort + 1 : \A m \in PortsOf(map) : m < n
FirstFree       == CHOOSE n \in Free : \A m \in Free : n <= m

Alloc(p) == IF map[p] # None THEN map ELSE [map EXCEPT ![p] = FirstFree]

(* The advisory lock of the deployment covers the allocation and the       *)
(* insertion of the row.  The insertion of a user who has been deleted     *)
(* violates a foreign key: 404, and the port stays allocated.              *)
CreateAlloc(s) ==
  /\ At(s, "lock") /\ \A u \in Session : ~ At(u, "insert")
  /\ \/ /\ map[Name(s)] # None \/ Free # {}
        /\ Fine
        /\ map' = Alloc(Name(s))
        /\ ses' = [ses EXCEPT ![s].pc = "insert", ![s].port = map'[Name(s)]]
     \/ /\ Failure("alloc") \/ (map[Name(s)] = None /\ Free = {} /\ Fine)
        /\ ses' = [ses EXCEPT ![s] = Idle] /\ UNCHANGED map
  /\ UNCHANGED <<dir, process, nginx, database, gateway, boot, handled, calm>>

CreateInsert(s) ==
  /\ At(s, "insert")
  /\ \/ /\ row' = [row EXCEPT ![Name(s)] = ses[s].port]
        /\ Goto(s, "clone") /\ Fine
     \/ Failure("insert") /\ ses' = [ses EXCEPT ![s] = Idle] /\ UNCHANGED row
  /\ UNCHANGED <<pod, mirror, gateway, boot, handled, calm>>

(* hermes profile create                                                   *)
CreateClone(s) ==
  /\ At(s, "clone")
  /\ \/ dir' = dir \cup {Name(s)} /\ Goto(s, "launch") /\ Fine
     \/ Failure("clone") /\ Slip(s, "launch") /\ UNCHANGED dir
  /\ UNCHANGED <<map, process, nginx, database, gateway, boot, handled, calm>>

(***************************************************************************)
(* What both end with.                                                     *)
(***************************************************************************)
(* profile_isolation.py launch: gateway run --replace.  A process cannot   *)
(* listen where another one does.                                          *)
Launched(m, p, port) ==
  [m EXCEPT ![p] = IF \E q \in Profile \ {p} : m[q] = port THEN None ELSE port]

Launch(s) ==
  /\ At(s, "launch")
  /\ \/ /\ Name(s) \in dir
        /\ process' = Launched(process, Name(s), ses[s].port) /\ Goto(s, "all") /\ Fine
     \/ Name(s) \notin dir /\ Goto(s, "all") /\ Fine /\ UNCHANGED process
     \/ Failure("launch") /\ Slip(s, "all") /\ UNCHANGED process
  /\ UNCHANGED <<map, dir, nginx, database, gateway, boot, handled, calm>>

(* port_map_all.  An unreadable or empty map ends ensure; a creation goes  *)
(* on with the profile it knows.                                           *)
ReadAll(s) ==
  LET read(m, unclean) ==
        ses' = [ses EXCEPT
          ![s].seen = IF m = Nowhere /\ ses[s].create
                      THEN [Nowhere EXCEPT ![Name(s)] = ses[s].port] ELSE m,
          ![s].pc = IF ses[s].create THEN "route"
                    ELSE IF m = Nowhere THEN "answered" ELSE "mirror",
          ![s].clean = @ /\ ~ unclean]
  IN
  /\ At(s, "all")
  /\ (Fine /\ read(map, FALSE)) \/ (Failure("all") /\ read(Nowhere, TRUE))
  /\ UNCHANGED <<pod, database, gateway, boot, handled, calm>>

(* ensure: mirror, then routes.  create: routes, then mirror.              *)
Mirror(s) ==
  /\ At(s, "mirror")
  /\ mirror' = ses[s].seen
  /\ row' = IF ses[s].create \/ row[Name(s)] = None THEN row
            ELSE [row EXCEPT ![Name(s)] = ses[s].port]
  /\ Goto(s, IF ses[s].create THEN "answered" ELSE "route")
  /\ UNCHANGED <<pod, gateway, boot, history>>

(* update_nginx_config writes all routes anew.                             *)
Routed_Fault(m) == [p \in Profile |-> IF m[p] = None THEN nginx[p] ELSE m[p]]
Routed(m)       == m

Route(s) ==
  LET next == IF ses[s].create THEN "mirror" ELSE "answered" IN
  /\ At(s, "route")
  /\ \/ nginx' = Routed(ses[s].seen) /\ Goto(s, next) /\ Fine /\ UNCHANGED calm
     \/ /\ Failure("route") /\ Slip(s, next)
        /\ calm' = FALSE /\ UNCHANGED nginx
  /\ UNCHANGED <<map, dir, process, database, gateway, boot, handled>>

Answer(s) ==
  /\ At(s, "answered") /\ ses' = [ses EXCEPT ![s] = Idle]
  /\ UNCHANGED <<pod, database, gateway, boot, history>>

(***************************************************************************)
(* teardown_profile: the user, or the profile, is deleted.                 *)
(***************************************************************************)
Teardown(s, p) ==
  /\ row[p] # None /\ Start(s, "stop", p, FALSE)
  /\ UNCHANGED <<pod, database, gateway, boot>>

(* The process is found by the owner of the directory.  That it did not    *)
(* stop is not noticed.                                                    *)
TeardownStop(s) ==
  /\ At(s, "stop")
  /\ \/ /\ process' = IF Name(s) \in dir THEN [process EXCEPT ![Name(s)] = None] ELSE process
        /\ Goto(s, "remove") /\ Fine
        /\ calm' = (calm /\ process'[Name(s)] = None)
     \/ /\ Failure("stop") /\ Slip(s, "remove")
        /\ calm' = FALSE /\ UNCHANGED process
  /\ UNCHANGED <<map, dir, nginx, database, gateway, boot, handled>>

TeardownRemove(s) ==
  /\ At(s, "remove")
  /\ \/ map' = [map EXCEPT ![Name(s)] = None] /\ Goto(s, "rm") /\ Fine
     \/ Failure("remove") /\ Slip(s, "rm") /\ UNCHANGED map
  /\ UNCHANGED <<dir, process, nginx, database, gateway, boot, handled, calm>>

TeardownRm(s) ==
  /\ At(s, "rm")
  /\ \/ dir' = dir \ {Name(s)} /\ Goto(s, "read") /\ Fine
     \/ Failure("rm") /\ Slip(s, "read") /\ UNCHANGED dir
  /\ UNCHANGED <<map, process, nginx, database, gateway, boot, handled, calm>>

TeardownRead(s) ==
  /\ At(s, "read")
  /\ \E m \in {map, Nowhere} :
       /\ (m = map /\ Fine) \/ (m = Nowhere /\ Failure("all"))
       /\ ses' = [ses EXCEPT ![s].pc = "unroute", ![s].seen = m]
  /\ UNCHANGED <<pod, database, gateway, boot, handled, calm>>

TeardownRoute(s) ==
  /\ At(s, "unroute") /\ Goto(s, "delete")
  /\ \/ /\ nginx' = IF ses[s].seen = Nowhere THEN nginx ELSE ses[s].seen
        /\ Fine /\ UNCHANGED calm
     \/ Failure("route") /\ calm' = FALSE /\ UNCHANGED nginx
  /\ UNCHANGED <<map, dir, process, database, gateway, boot, handled>>

TeardownDelete(s) ==
  /\ At(s, "delete")
  /\ mirror' = ses[s].seen
  /\ row' = [row EXCEPT ![Name(s)] = None]
  /\ ses' = [ses EXCEPT ![s] = Idle]
  /\ UNCHANGED <<pod, gateway, boot, history>>

(***************************************************************************)
(* The Pod starts again: entrypoint-v2.sh, while handlers go on.           *)
(***************************************************************************)
Restart ==
  /\ Failure("restart") /\ boot = Up
  /\ process' = Nowhere /\ nginx' = Nowhere
  /\ boot' = [Up EXCEPT !.pc = "reconcile"]
  /\ ses' = [s \in Session |-> [ses[s] EXCEPT !.clean = FALSE]]
  /\ calm' = (calm /\ Active = {})
  /\ UNCHANGED <<map, dir, database, gateway, handled>>

(* port_map.py reconcile: entries without directory go, each directory     *)
(* without entry gets the first free port.                                 *)
Kept_Fault == {}
Kept       == {map[p] : p \in dir} \ {None}

Orphans    == {p \in dir : map[p] = None}
Surviving  == [p \in Profile |-> IF p \in dir THEN map[p] ELSE None]

Reconciled ==
  {m \in [Profile -> Port \cup {None}] :
     /\ \A p \in Profile \ Orphans : m[p] = Surviving[p]
     /\ \A p \in Orphans :
          LET taken == Kept \cup {m[q] : q \in Orphans \ {p}} IN
          m[p] \in Port \ taken /\ \A n \in Port : n < m[p] => n \in taken}

BootReconcile ==
  /\ boot.pc = "reconcile"
  /\ map' \in Reconciled
  /\ boot' = [pc |-> "nginx", seen |-> map']
  /\ UNCHANGED <<dir, process, nginx, database, gateway, ses, history>>

BootNginx ==
  /\ boot.pc = "nginx"
  /\ nginx' = boot.seen
  /\ boot' = [Up EXCEPT !.pc = "launch"]
  /\ UNCHANGED <<map, dir, process, database, gateway, ses, history>>

(* Every profile of the map is launched on its port, or fails to start.    *)
BootLaunch ==
  /\ boot.pc = "launch"
  /\ \E up \in SUBSET {p \in dir : map[p] # None /\ map[p] \notin PortsOf(process)} :
       process' = [p \in Profile |-> IF p \in up THEN map[p] ELSE process[p]]
  /\ boot' = [Up EXCEPT !.pc = "register"]
  /\ UNCHANGED <<map, dir, nginx, database, gateway, ses, history>>

(* register_profiles deletes the rows of profiles without directory.       *)
BootRegister ==
  /\ boot.pc = "register"
  /\ row' = [p \in Profile |-> IF p \in dir THEN row[p] ELSE None]
  /\ boot' = Up
  /\ UNCHANGED <<pod, mirror, gateway, ses, history>>

(* The process of a profile dies by itself.                                *)
ProcessDies(p) ==
  /\ process[p] # None /\ Failure("dies") /\ process' = [process EXCEPT ![p] = None]
  /\ ses' = [s \in Session |-> [ses[s] EXCEPT !.clean = FALSE]]
  /\ UNCHANGED <<map, dir, nginx, database, gateway, boot, handled, calm>>

(***************************************************************************)
(* Specification                                                           *)
(***************************************************************************)
HandlerStep(s) ==
  \/ EnsureGet(s) \/ EnsureDir(s) \/ EnsureProbe(s)
  \/ CreateAlloc(s) \/ CreateInsert(s) \/ CreateClone(s)
  \/ Launch(s) \/ ReadAll(s) \/ Mirror(s) \/ Route(s) \/ Answer(s)
  \/ TeardownStop(s) \/ TeardownRemove(s) \/ TeardownRm(s)
  \/ TeardownRead(s) \/ TeardownRoute(s) \/ TeardownDelete(s)

BootStep == Restart \/ BootReconcile \/ BootNginx \/ BootLaunch \/ BootRegister

GatewayStep(p) == Resolve(p) \/ Answers502(p) \/ FailureExpires(p) \/ CacheExpires(p)

Next ==
  \/ \E s \in Session : HandlerStep(s) \/ \E p \in Profile : Ensure(s, p) \/ Teardown(s, p)
  \/ \E p \in Profile : GatewayStep(p) \/ ProcessDies(p)
  \/ BootStep

Spec == Init /\ [][Next]_vars
=============================================================================
