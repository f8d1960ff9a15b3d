---------------------------- MODULE RoutingReach ----------------------------
(***************************************************************************)
(* The two promises of the routing to a single user, for any number of     *)
(* requests, profiles, ports and failures: an ensure nobody interferes     *)
(* with heals, and in calm weather no message reaches another profile.     *)
(***************************************************************************)
EXTENDS RoutingProofs

(***************************************************************************)
(* What an undisturbed handler knows                                       *)
(***************************************************************************)
CleanAlone ==
  \A s \in Session : ses[s].clean =>
    boot = Up /\ \A u \in Session \ {s} : At(u, "idle")

Made == {"insert", "clone", "launch", "all", "route", "mirror", "answered"}

(* Somebody listens on the port of p, p itself or a leftover of another.   *)
Listens(p) == process[p] = map[p] \/ \E q \in Profile \ {p} : process[q] = map[p]

(* By the place of the handler: what a creation has allocated and          *)
(* inserted, what an ensure has found, and what either has put right.      *)
Knows(s) ==
  LET p == Name(s)
      t == ses[s]
      mine == t.port = map[p]
      known == map[p] # None
  IN
  /\ t.pc \in {"lock", "insert", "clone"} => t.create
  /\ t.pc \in {"get", "dir", "probe"} => ~ t.create
  /\ t.create /\ t.pc \in Made => known /\ mine /\ (t.pc # "insert" => row[p] = map[p])
  /\ ~ t.create /\ t.pc \in {"get", "dir", "probe", "launch", "all", "mirror"} => row[p] # None
  /\ ~ t.create /\ t.pc \in {"dir", "probe", "launch", "all", "mirror"} /\ known => mine
  /\ t.pc \in {"probe", "launch"} => p \in dir
  /\ t.pc \in {"all", "mirror", "route", "answered"} /\ known => Listens(p)
  /\ t.pc \in {"mirror", "route"} /\ known => t.seen[p] = map[p]
  /\ known /\ (t.pc = "answered" \/ (t.pc = "mirror" /\ t.create)) => nginx[p] = map[p]
  /\ known /\ (t.pc = "answered" \/ (t.pc = "route" /\ ~ t.create)) =>
       mirror[p] = map[p] /\ row[p] = map[p]

CleanKnows == \A s \in Session : ses[s].clean => Knows(s)

(***************************************************************************)
(* What calm weather means                                                 *)
(***************************************************************************)
(* One handler at a time, and none while the Pod starts.                   *)
OneAtATime == \A s \in Session : ~ At(s, "idle") =>
                boot = Up /\ \A u \in Session \ {s} : At(u, "idle")

Making(p) == \E s \in Session : /\ Name(s) = p /\ ses[s].create
                                /\ ses[s].pc \in {"insert", "clone", "launch", "all", "route"}
Launching(p) == \E s \in Session : /\ Name(s) = p /\ ses[s].create
                                   /\ ses[s].pc \in {"all", "route"}
Tearing(p) == \E s \in Session : /\ Name(s) = p
                                 /\ ses[s].pc \in {"rm", "read", "unroute", "delete"}
Mirrored   == \E s \in Session : ~ ses[s].create /\ ses[s].pc = "route"
Forgotten(p) == boot.pc \in {"nginx", "launch", "register"} /\ p \notin dir

(* The Pod comes up with no process and no route; then it has every route. *)
Booting ==
  /\ boot.pc \in {"reconcile", "nginx", "launch"} => process = Nowhere
  /\ boot.pc \in {"reconcile", "nginx"} => nginx = Nowhere
  /\ boot.pc = "nginx" => boot.seen = map
  /\ boot.pc = "launch" => nginx = map

(* A route that is out of date belongs to a profile nobody sends to: it    *)
(* has no row and is not mirrored, but for what a handler is about to      *)
(* change.  If another profile has got the port, that profile is only      *)
(* being created.                                                          *)
Unsent(p) == /\ row[p] = None \/ Making(p) \/ Tearing(p)
             /\ mirror[p] = None \/ Mirrored \/ Tearing(p)
Young(q)  == /\ process[q] = None \/ Launching(q)
             /\ row[q] = None \/ Making(q)
Harmless(p) ==
  nginx[p] # None /\ nginx[p] # map[p] =>
    /\ Unsent(p)
    /\ \A q \in Profile \ {p} : map[q] = nginx[p] => Young(q) /\ ~ Tearing(p)

(* Processes, rows and routes agree with the map, except where a handler   *)
(* or the Pod is about to change them.                                     *)
Follows(p) ==
  /\ process[p] # None => process[p] = map[p]
  /\ row[p] # None => row[p] = map[p] \/ Tearing(p) \/ Forgotten(p)
  /\ Harmless(p)

(* A handler works with the port of the map, and what it has read is true. *)
(* A row is there while an ensure or a teardown works on it, and not yet   *)
(* there when a creation is about to insert it.                            *)
Right(s) ==
  LET p == Name(s)
      t == ses[s]
  IN
  /\ t.pc \in {"lock", "insert", "clone"} => t.create
  /\ t.pc \in {"get", "dir", "probe"} => ~ t.create
  /\ t.create /\ t.pc \in {"insert", "clone", "launch", "all", "route"} =>
       t.port = map[p] /\ map[p] # None
  /\ ~ t.create /\ t.pc \in {"get", "dir", "probe", "launch", "all", "mirror"} =>
       t.port = map[p] /\ map[p] # None /\ row[p] # None
  /\ t.pc \in {"lock", "insert"} => row[p] = None
  /\ t.pc \in {"stop", "remove"} => row[p] # None
  /\ t.pc = "remove" => process[p] = None
  /\ t.pc \in {"mirror", "route", "unroute", "delete"} =>
       \A q \in Profile : t.seen[q] # None => t.seen[q] = map[q]
  /\ (t.pc = "mirror" /\ t.create) \/ (t.pc = "delete" /\ t.seen # Nowhere) => nginx = t.seen

Calm == OneAtATime /\ Booting /\ (\A p \in Profile : Follows(p))
                   /\ (\A s \in Session : Right(s))
CalmHolds == calm => Calm

(***************************************************************************)
(* Frames                                                                  *)
(***************************************************************************)

(* A step of a handler leaves the other handlers and the boot alone, keeps *)
(* its name, and what is clean was clean.                                  *)
LEMMA HandlerFrame ==
  ASSUME TInv, NEW s \in Session, HandlerStep(s)
  PROVE  /\ ~ At(s, "idle") /\ Name(s) \in Profile /\ boot' = boot
         /\ \A u \in Session \ {s} : ses'[u] = ses[u]
         /\ ses'[s].clean => ses[s].clean
         /\ ses'[s].pc = "idle" => ~ ses'[s].clean
         /\ ses'[s].pc # "idle" => ses'[s].name = ses[s].name
                                   /\ (ses'[s].create = ses[s].create \/ ses[s].pc = "dir")
<1> USE DEF TInv, SessionsOK
<1>1. CASE EnsureGet(s) \/ EnsureDir(s) \/ EnsureProbe(s)
  BY <1>1 DEF EnsureGet, EnsureDir, EnsureProbe, Goto, Slip, At, Name, SessionType, pod,
     database
<1>2. CASE CreateAlloc(s) \/ CreateInsert(s) \/ CreateClone(s)
  BY <1>2 DEF CreateAlloc, CreateInsert, CreateClone, Goto, Slip, At, Name, SessionType, Idle
<1>3. CASE Launch(s) \/ Mirror(s) \/ Route(s)
  BY <1>3 DEF Launch, Mirror, Route, Goto, Slip, At, Name, SessionType
<1>4. CASE ReadAll(s)
  BY <1>4 DEF ReadAll, At, Name, SessionType
<1>5. CASE Answer(s) \/ TeardownDelete(s)
  BY <1>5 DEF Answer, TeardownDelete, At, Name, SessionType, Idle
<1>6. CASE TeardownStop(s) \/ TeardownRemove(s) \/ TeardownRm(s)
  BY <1>6 DEF TeardownStop, TeardownRemove, TeardownRm, Goto, Slip, At, Name, SessionType
<1>7. CASE TeardownRead(s) \/ TeardownRoute(s)
  BY <1>7 DEF TeardownRead, TeardownRoute, Goto, At, Name, SessionType
<1> QED BY <1>1, <1>2, <1>3, <1>4, <1>5, <1>6, <1>7 DEF HandlerStep

(* A request that begins is new; the others are no longer clean.           *)
LEMMA StartFrame ==
  ASSUME NEW s \in Session, NEW p, NEW pc, NEW create, Start(s, pc, p, create)
  PROVE  /\ At(s, "idle") /\ ses'[s].pc = pc /\ ses'[s].name = p /\ ses'[s].port = row[p]
         /\ ses'[s].create = create
         /\ \A u \in Session \ {s} : ses'[u] = [ses[u] EXCEPT !.clean = FALSE]
<1> DEFINE alone == Active = {} /\ boot = Up
<1>1. /\ ses' = [u \in Session |-> IF u = s THEN [Idle EXCEPT !.pc = pc, !.name = p,
                     !.port = row[p], !.create = create, !.clean = alone]
                   ELSE [ses[u] EXCEPT !.clean = FALSE]]
      /\ At(s, "idle")
  BY DEF Start
<1> HIDE DEF alone
<1> QED BY <1>1 DEF Idle

(* It is clean if nothing else goes on, and calm stays calm only then.     *)
LEMMA StartClean ==
  ASSUME NEW s \in Session, NEW p, NEW pc, NEW create, Start(s, pc, p, create)
  PROVE  /\ ses'[s].clean => Active = {} /\ boot = Up
         /\ calm' => calm /\ Active = {} /\ boot = Up
<1> DEFINE alone == Active = {} /\ boot = Up
<1>1. /\ ses' = [u \in Session |-> IF u = s THEN [Idle EXCEPT !.pc = pc, !.name = p,
                     !.port = row[p], !.create = create, !.clean = alone]
                   ELSE [ses[u] EXCEPT !.clean = FALSE]]
      /\ calm' = (calm /\ alone)
  BY DEF Start
<1> HIDE DEF alone
<1>2. ses'[s].clean = alone
  BY <1>1 DEF Idle
<1> QED BY <1>1, <1>2 DEF alone

(* Nobody is active: every handler is idle.                                *)
LEMMA NobodyActive ==
  ASSUME Active = {} PROVE \A s \in Session : At(s, "idle")
BY DEF Active

(***************************************************************************)
(* An undisturbed handler                                                  *)
(***************************************************************************)

(* A clean handler that takes a step knows what it did.                    *)
LEMMA EnsureKnows ==
  ASSUME TInv, NEW s \in Session, Knows(s), ses'[s].clean,
         EnsureGet(s) \/ EnsureDir(s) \/ EnsureProbe(s)
  PROVE  Knows(s)'
<1> USE DEF TInv, SessionsOK, MapsOK
<1>1. Name(s) \in Profile /\ ses[s] \in SessionType
  BY DEF EnsureGet, EnsureDir, EnsureProbe, At, Name
<1>2. CASE EnsureGet(s)
  <2>1. /\ ses'[s].pc = "dir" /\ ses'[s].name = Name(s) /\ ses'[s].create = ses[s].create
        /\ map[Name(s)] # None => ses'[s].port = map[Name(s)]
    BY <1>1, <1>2 DEF EnsureGet, Slip, Name, SessionType
  <2>2. UNCHANGED <<map, row>> /\ ses[s].pc = "get"
    BY <1>2 DEF EnsureGet, At, pod, database
  <2> QED BY <1>1, <2>1, <2>2 DEF Knows, Name, Made
<1>3. CASE EnsureDir(s)
  <2>1. /\ ses'[s].name = Name(s) /\ ses'[s].port = ses[s].port
        /\ \/ ses'[s].pc = "lock" /\ ses'[s].create
           \/ /\ ses'[s].pc = "probe" /\ ses'[s].create = ses[s].create
              /\ Name(s) \in dir /\ row' = row
    BY <1>1, <1>3 DEF EnsureDir, Goto, Name, SessionType
  <2>2. UNCHANGED <<map, dir>> /\ ses[s].pc = "dir"
    BY <1>3 DEF EnsureDir, At, pod
  <2> QED BY <1>1, <2>1, <2>2 DEF Knows, Name, Made
<1>4. CASE EnsureProbe(s)
  <2>1. /\ ses'[s] = [ses[s] EXCEPT !.pc = ses'[s].pc] /\ ses[s].pc = "probe"
        /\ \/ ses'[s].pc = "launch"
           \/ ses'[s].pc = "all" /\ ses[s].port \in PortsOf(process)
    BY <1>1, <1>4 DEF EnsureProbe, Alive, Goto, Slip, At, SessionType
  <2>2. UNCHANGED <<map, dir, row, process>>
    BY <1>4 DEF EnsureProbe, pod, database
  <2>3. ses'[s].pc = "all" /\ map[Name(s)] = ses[s].port => Listens(Name(s))
    BY <2>1 DEF Listens, PortsOf
  <2>4. /\ ses'[s].name = Name(s) /\ ses'[s].port = ses[s].port
        /\ ses'[s].create = ses[s].create
    BY <1>1, <2>1 DEF Name, SessionType
  <2> QED BY <1>1, <2>1, <2>2, <2>3, <2>4 DEF Knows, Name, Made, Listens
<1> QED BY <1>2, <1>3, <1>4

LEMMA CreateKnows ==
  ASSUME TInv, NEW s \in Session, Knows(s), ses'[s].clean,
         CreateAlloc(s) \/ CreateInsert(s) \/ CreateClone(s)
  PROVE  Knows(s)'
<1> USE DEF TInv, SessionsOK, MapsOK
<1>1. Name(s) \in Profile /\ ses[s] \in SessionType
  BY DEF CreateAlloc, CreateInsert, CreateClone, At, Name
<1>2. CASE CreateAlloc(s)
  <2>1. /\ map' = Alloc(Name(s)) /\ (map[Name(s)] # None \/ Free # {})
        /\ ses' = [ses EXCEPT ![s].pc = "insert", ![s].port = map'[Name(s)]]
        /\ ses[s].pc = "lock"
    BY <1>2 DEF CreateAlloc, At, Idle
  <2>2. map'[Name(s)] # None
    BY <1>1, <2>1, FirstFreeIsFree, PortsAreNumbers DEF Alloc, Free, PortMap
  <2>3. /\ ses'[s].pc = "insert" /\ ses'[s].name = Name(s) /\ ses'[s].port = map'[Name(s)]
        /\ ses'[s].create = ses[s].create
    BY <1>1, <2>1 DEF Name, SessionType
  <2> QED BY <1>1, <2>1, <2>2, <2>3 DEF Knows, Name, Made
<1>3. CASE CreateInsert(s)
  <2>1. ses' # [ses EXCEPT ![s] = Idle]
    BY DEF Idle
  <2>2. /\ ses'[s].pc = "clone" /\ ses'[s].name = Name(s) /\ ses'[s].port = ses[s].port
        /\ ses'[s].create = ses[s].create /\ ses[s].pc = "insert"
    BY <1>1, <1>3, <2>1 DEF CreateInsert, Goto, At, Name, SessionType
  <2>3. map' = map /\ row'[Name(s)] = ses[s].port
    BY <1>1, <1>3, <2>1 DEF CreateInsert, PortMap, pod
  <2> QED BY <1>1, <2>2, <2>3 DEF Knows, Name, Made
<1>4. CASE CreateClone(s)
  <2>1. /\ ses'[s].pc = "launch" /\ ses'[s].name = Name(s) /\ ses'[s].port = ses[s].port
        /\ ses'[s].create = ses[s].create /\ ses[s].pc = "clone" /\ Name(s) \in dir'
    BY <1>1, <1>4 DEF CreateClone, Goto, Slip, At, Name, SessionType
  <2>2. UNCHANGED <<map, row>>
    BY <1>4 DEF CreateClone, database
  <2> QED BY <1>1, <2>1, <2>2 DEF Knows, Name, Made
<1> QED BY <1>2, <1>3, <1>4

LEMMA EndKnows ==
  ASSUME TInv, NEW s \in Session, Knows(s), ses'[s].clean,
         Launch(s) \/ ReadAll(s) \/ Mirror(s) \/ Route(s)
  PROVE  Knows(s)'
<1> USE DEF TInv, SessionsOK, MapsOK
<1>1. Name(s) \in Profile /\ ses[s] \in SessionType
  BY DEF Launch, ReadAll, Mirror, Route, At, Name
<1>2. CASE Launch(s)
  <2>1. /\ ses'[s].pc = "all" /\ ses'[s].name = Name(s) /\ ses'[s].port = ses[s].port
        /\ ses'[s].create = ses[s].create /\ ses[s].pc = "launch"
        /\ Name(s) \in dir => process' = Launched(process, Name(s), ses[s].port)
    BY <1>1, <1>2 DEF Launch, Goto, Slip, At, Name, SessionType
  <2>2. UNCHANGED <<map, row>>
    BY <1>2 DEF Launch, database
  <2>3. map[Name(s)] # None => ses[s].port = map[Name(s)] /\ Name(s) \in dir
    BY <2>1 DEF Knows, Name, Made
  <2>4. map[Name(s)] # None => Listens(Name(s))'
    <3> SUFFICES ASSUME map[Name(s)] # None PROVE Listens(Name(s))'
      OBVIOUS
    <3>1. process' = Launched(process, Name(s), map[Name(s)])
      BY <2>1, <2>3
    <3>2. CASE \E q \in Profile \ {Name(s)} : process[q] = map[Name(s)]
      <4>1. PICK q \in Profile \ {Name(s)} : process[q] = map[Name(s)]
        BY <3>2
      <4>2. process'[q] = process[q]
        BY <3>1, <4>1 DEF Launched, PortMap
      <4> QED BY <2>1, <2>2, <4>1, <4>2 DEF Listens, Name
    <3>3. CASE ~ \E q \in Profile \ {Name(s)} : process[q] = map[Name(s)]
      <4>1. process'[Name(s)] = map[Name(s)]
        BY <1>1, <3>1, <3>3 DEF Launched, PortMap
      <4> QED BY <2>1, <2>2, <4>1 DEF Listens, Name
    <3> QED BY <3>2, <3>3
  <2> QED BY <1>1, <2>1, <2>2, <2>4 DEF Knows, Name, Made
<1>3. CASE ReadAll(s)
  <2>1. /\ ses'[s].name = Name(s) /\ ses'[s].port = ses[s].port
        /\ ses'[s].create = ses[s].create /\ ses[s].pc = "all"
        /\ ses'[s].pc = IF ses[s].create THEN "route"
                        ELSE IF map = Nowhere THEN "answered" ELSE "mirror"
        /\ ses'[s].seen = IF map = Nowhere /\ ses[s].create
                          THEN [Nowhere EXCEPT ![Name(s)] = ses[s].port] ELSE map
    BY <1>1, <1>3 DEF ReadAll, At, Name, SessionType
  <2>2. UNCHANGED <<map, row, process>>
    BY <1>3 DEF ReadAll, pod, database
  <2>3. map[Name(s)] # None => map # Nowhere
    BY <1>1 DEF Nowhere
  <2> QED BY <1>1, <2>1, <2>2, <2>3 DEF Knows, Name, Made, Listens
<1>4. CASE Mirror(s)
  <2>1. /\ ses'[s].name = Name(s) /\ ses'[s].port = ses[s].port
        /\ ses'[s].create = ses[s].create /\ ses[s].pc = "mirror"
        /\ ses'[s].seen = ses[s].seen
        /\ ses'[s].pc = IF ses[s].create THEN "answered" ELSE "route"
    BY <1>1, <1>4 DEF Mirror, Goto, At, Name, SessionType
  <2>2. UNCHANGED <<map, process, nginx>> /\ mirror' = ses[s].seen
    BY <1>4 DEF Mirror, pod
  <2>3. \/ ses[s].create /\ row' = row
        \/ ~ ses[s].create /\ row[Name(s)] = None
        \/ ~ ses[s].create /\ row'[Name(s)] = ses[s].port
    BY <1>1, <1>4 DEF Mirror, PortMap
  <2> QED BY <1>1, <2>1, <2>2, <2>3 DEF Knows, Name, Made, Listens
<1>5. CASE Route(s)
  <2>1. /\ ses'[s].name = Name(s) /\ ses'[s].port = ses[s].port
        /\ ses'[s].create = ses[s].create /\ ses[s].pc = "route"
        /\ ses'[s].seen = ses[s].seen
        /\ ses'[s].pc = IF ses[s].create THEN "mirror" ELSE "answered"
        /\ nginx' = ses[s].seen
    BY <1>1, <1>5 DEF Route, Routed, Goto, Slip, At, Name, SessionType
  <2>2. UNCHANGED <<map, process, row, mirror>>
    BY <1>5 DEF Route, database
  <2> QED BY <1>1, <2>1, <2>2 DEF Knows, Name, Made, Listens
<1> QED BY <1>2, <1>3, <1>4, <1>5

LEMMA HandlerKnows ==
  ASSUME TInv, CleanAlone, CleanKnows, NEW s \in Session, HandlerStep(s)
  PROVE  CleanAlone' /\ CleanKnows'
<1>1. ASSUME NEW u \in Session \ {s} PROVE ~ ses'[u].clean
  BY <1>1, HandlerFrame DEF CleanAlone
<1>2. CleanAlone'
  BY <1>1, HandlerFrame DEF CleanAlone, At
<1>3. ASSUME ses'[s].clean PROVE Knows(s)'
  <2>1. Knows(s) /\ ses'[s].pc # "idle"
    BY <1>3, HandlerFrame DEF CleanKnows
  <2>2. CASE EnsureGet(s) \/ EnsureDir(s) \/ EnsureProbe(s)
    BY <1>3, <2>1, <2>2, EnsureKnows
  <2>3. CASE CreateAlloc(s) \/ CreateInsert(s) \/ CreateClone(s)
    BY <1>3, <2>1, <2>3, CreateKnows
  <2>4. CASE Launch(s) \/ ReadAll(s) \/ Mirror(s) \/ Route(s)
    BY <1>3, <2>1, <2>4, EndKnows
  <2>5. CASE Answer(s) \/ TeardownDelete(s)
    BY <2>1, <2>5 DEF Answer, TeardownDelete, Idle, TInv, SessionsOK
  <2>6. CASE \/ TeardownStop(s) \/ TeardownRemove(s) \/ TeardownRm(s)
             \/ TeardownRead(s) \/ TeardownRoute(s)
    <3>1. ses'[s].pc \in {"remove", "rm", "read", "unroute", "delete"}
      BY <2>6 DEF TeardownStop, TeardownRemove, TeardownRm, TeardownRead, TeardownRoute,
         Goto, Slip, TInv, SessionsOK, SessionType
    <3> QED BY <3>1 DEF Knows, Made
  <2> QED BY <2>2, <2>3, <2>4, <2>5, <2>6 DEF HandlerStep
<1> QED BY <1>1, <1>2, <1>3 DEF CleanKnows

LEMMA OthersKnow ==
  ASSUME TInv, CleanAlone, CleanKnows,
         \/ BootStep
         \/ \E p \in Profile : GatewayStep(p) \/ ProcessDies(p)
         \/ \E s \in Session, p \in Profile : Ensure(s, p) \/ Teardown(s, p)
         \/ UNCHANGED vars
  PROVE  CleanAlone' /\ CleanKnows'
<1> USE DEF TInv, SessionsOK
<1>1. ASSUME \A u \in Session : ~ ses'[u].clean PROVE CleanAlone' /\ CleanKnows'
  BY <1>1 DEF CleanAlone, CleanKnows
<1>2. CASE Restart \/ \E p \in Profile : ProcessDies(p)
  <2>1. ses' = [u \in Session |-> [ses[u] EXCEPT !.clean = FALSE]]
    BY <1>2 DEF Restart, ProcessDies
  <2> QED BY <1>1, <2>1 DEF SessionType
<1>3. CASE BootReconcile \/ BootNginx \/ BootLaunch \/ BootRegister
  <2>1. ses' = ses /\ boot # Up
    BY <1>3 DEF BootReconcile, BootNginx, BootLaunch, BootRegister, Up
  <2> QED BY <1>1, <2>1 DEF CleanAlone
<1>4. CASE UNCHANGED vars \/ \E p \in Profile : GatewayStep(p)
  <2>1. UNCHANGED <<map, dir, process, nginx, row, mirror, ses, boot>>
    BY <1>4 DEF vars, pod, database, GatewayStep, Resolve, Answers502, FailureExpires, CacheExpires
  <2>2. CleanAlone'
    BY <2>1 DEF CleanAlone, At
  <2>3. CleanKnows'
    BY <2>1 DEF CleanKnows, Knows, Listens, Name
  <2> QED BY <2>2, <2>3
<1>5. ASSUME NEW s \in Session, NEW p \in Profile, Ensure(s, p) \/ Teardown(s, p)
      PROVE  CleanAlone' /\ CleanKnows'
  <2>1. PICK pc \in {"get", "lock", "stop"}, create \in BOOLEAN :
          /\ Start(s, pc, p, create) /\ (pc = "get" => row[p] # None)
          /\ create = (pc = "lock")
    BY <1>5 DEF Ensure, Teardown
  <2>2. \A u \in Session \ {s} : ~ ses'[u].clean /\ ses'[u].pc = ses[u].pc
    <3>1. \A u \in Session \ {s} : ses'[u] = [ses[u] EXCEPT !.clean = FALSE]
      BY <2>1, StartFrame
    <3> QED BY <3>1 DEF SessionType
  <2>3. ses'[s].clean => boot' = Up /\ \A u \in Session \ {s} : ses[u].pc = "idle"
    BY <1>5, <2>1, StartClean, NobodyActive DEF At, Ensure, Teardown
  <2>4. CleanAlone'
    BY <2>2, <2>3 DEF CleanAlone, At
  <2>5. Knows(s)'
    <3>1. ses'[s].pc = pc /\ ses'[s].name = p /\ ses'[s].create = create
      BY <2>1, StartFrame
    <3>2. row' = row
      BY <1>5 DEF Ensure, Teardown, database
    <3> QED BY <2>1, <3>1, <3>2 DEF Knows, Name, Made
  <2> QED BY <2>2, <2>4, <2>5 DEF CleanKnows
<1> QED BY <1>2, <1>3, <1>4, <1>5 DEF BootStep

LEMMA KnowledgeHolds == Spec => [](CleanAlone /\ CleanKnows)
<1>1. Init => CleanAlone /\ CleanKnows
  BY DEF Init, CleanAlone, CleanKnows, Idle
<1>2. TInv /\ CleanAlone /\ CleanKnows /\ [Next]_vars => CleanAlone' /\ CleanKnows'
  BY HandlerKnows, OthersKnow DEF Next
<1> QED BY <1>1, <1>2, TypesHold, PTL DEF Spec

(* When an ensure nobody interfered with answers, the map, the row, the    *)
(* mirror, the route and the process agree, or the process of another      *)
(* profile sits on the port.                                               *)
THEOREM UndisturbedEnsureHeals == Spec => []EnsureHeals
<1>1. CleanKnows => EnsureHeals
  BY DEF CleanKnows, EnsureHeals, Knows, Listens, At, Name
<1> QED BY <1>1, KnowledgeHolds, PTL

(***************************************************************************)
(* Calm weather                                                            *)
(***************************************************************************)

(* With one handler at work, Making and Tearing speak of that handler.     *)
LEMMA Solo ==
  ASSUME NEW s \in Session, OneAtATime, ~ At(s, "idle")
  PROVE  \A p \in Profile :
           /\ Making(p) <=> /\ Name(s) = p /\ ses[s].create
                            /\ ses[s].pc \in {"insert", "clone", "launch", "all", "route"}
           /\ Launching(p) <=> /\ Name(s) = p /\ ses[s].create
                               /\ ses[s].pc \in {"all", "route"}
           /\ Tearing(p) <=> Name(s) = p /\ ses[s].pc \in {"rm", "read", "unroute", "delete"}
           /\ Mirrored <=> ~ ses[s].create /\ ses[s].pc = "route"
           /\ ~ Forgotten(p)
BY DEF OneAtATime, Making, Launching, Tearing, Mirrored, Forgotten, At, Up

(* After a step of the handler it is still alone.                          *)
LEMMA SoloNext ==
  ASSUME TInv, NEW s \in Session, OneAtATime, HandlerStep(s)
  PROVE  /\ OneAtATime' /\ Booting'
         /\ \A u \in Session \ {s} : Right(u)'
         /\ \A p \in Profile :
              /\ Making(p)' <=>
                   /\ ses'[s].name = p /\ ses'[s].create
                   /\ ses'[s].pc \in {"insert", "clone", "launch", "all", "route"}
              /\ Launching(p)' <=>
                   ses'[s].name = p /\ ses'[s].create /\ ses'[s].pc \in {"all", "route"}
              /\ Mirrored' <=> ~ ses'[s].create /\ ses'[s].pc = "route"
              /\ Tearing(p)' <=>
                   ses'[s].name = p /\ ses'[s].pc \in {"rm", "read", "unroute", "delete"}
              /\ ~ Forgotten(p)'
<1>1. /\ boot = Up /\ boot' = Up
      /\ \A u \in Session \ {s} : ses'[u] = ses[u] /\ ses[u].pc = "idle"
  BY HandlerFrame DEF OneAtATime, At
<1>2. OneAtATime' /\ Booting'
  BY <1>1 DEF OneAtATime, Booting, At, Up
<1>3. \A u \in Session \ {s} : Right(u)'
  BY <1>1 DEF Right
<1>4. \A p \in Profile : ~ Forgotten(p)'
  BY <1>1 DEF Forgotten, Up
<1> QED BY <1>1, <1>2, <1>3, <1>4 DEF Making, Launching, Tearing, Mirrored, Name

(* What a handler does that changes neither map nor copies.                *)
LEMMA QuietStepCalm ==
  ASSUME TInv, Calm, NEW s \in Session, HandlerStep(s),
         UNCHANGED <<map, process, nginx, mirror>>,
         \A p \in Profile : row'[p] \in {row[p], None},
         \A p \in Profile : (Making(p) /\ row'[p] # None => Making(p)')
                            /\ (Launching(p) => Launching(p)')
                            /\ (Tearing(p) <=> Tearing(p)'),
         Mirrored => Mirrored'
  PROVE  \A p \in Profile : Follows(p)'
<1> SUFFICES ASSUME NEW p \in Profile PROVE Follows(p)'
  OBVIOUS
<1>1. ~ Forgotten(p)
  BY HandlerFrame, Solo DEF Calm
<1>2. Follows(p)
  BY DEF Calm
<1>3. Unsent(p) => Unsent(p)'
  BY DEF Unsent
<1>4. \A q \in Profile : Young(q) => Young(q)'
  BY DEF Young
<1>5. Harmless(p)'
  BY <1>2, <1>3, <1>4 DEF Follows, Harmless
<1> QED BY <1>1, <1>2, <1>5 DEF Follows

(* Routes that are those of the map do no harm.                            *)
LEMMA FreshRoutes ==
  ASSUME \A p \in Profile : nginx'[p] # None => nginx'[p] = map'[p]
  PROVE  \A p \in Profile : Harmless(p)'
BY DEF Harmless

LEMMA EnsureCalm ==
  ASSUME TInv, Calm, NEW s \in Session, EnsureGet(s) \/ EnsureDir(s) \/ EnsureProbe(s)
  PROVE  Calm'
<1>1. HandlerStep(s) /\ OneAtATime /\ Right(s)
  BY DEF HandlerStep, Calm
<1>2. ses[s] \in SessionType /\ ses[s].pc \in {"get", "dir", "probe"} /\ ~ At(s, "idle")
  BY DEF EnsureGet, EnsureDir, EnsureProbe, At, TInv, SessionsOK
<1>3. /\ UNCHANGED <<map, process, nginx, mirror>>
      /\ \A p \in Profile : row'[p] \in {row[p], None}
  BY DEF EnsureGet, EnsureDir, EnsureProbe, TInv, MapsOK, PortMap, pod, gateway, database
<1>4. \A p \in Profile : Follows(p)'
  <2>1. \A p \in Profile : ~ Making(p) /\ ~ Launching(p) /\ ~ Tearing(p)
    BY <1>1, <1>2, Solo DEF Right
  <2>2. ses'[s].pc \in {"lock", "dir", "probe", "launch", "all"}
    BY <1>2 DEF EnsureGet, EnsureDir, EnsureProbe, Goto, Slip, SessionType, TInv, SessionsOK
  <2>3. ~ Mirrored /\ \A p \in Profile : ~ Tearing(p)'
    <3>1. ~ Mirrored
      BY <1>1, <1>2 DEF OneAtATime, Mirrored, At
    <3> QED BY <1>1, <2>2, <3>1, SoloNext
  <2> QED BY <1>1, <1>3, <2>1, <2>3, QuietStepCalm
<1>5. /\ ses'[s].name = Name(s)
      /\ \/ ses'[s].pc = "lock" /\ ses'[s].create /\ row'[Name(s)] = None
         \/ /\ ses'[s].pc \in {"dir", "probe", "launch", "all"}
            /\ ses'[s].create = ses[s].create /\ (ses'[s].pc = "dir" => ses[s].pc = "get")
            /\ ses'[s].port \in {ses[s].port, map[Name(s)]} /\ row' = row
  <2>1. Name(s) \in Profile
    BY <1>2 DEF At, Name, TInv, SessionsOK
  <2>2. CASE EnsureGet(s)
    BY <1>2, <2>2 DEF EnsureGet, Slip, At, Name, SessionType, TInv, SessionsOK, database
  <2>3. CASE EnsureDir(s)
    BY <1>2, <2>1, <2>3 DEF EnsureDir, Goto, At, Name, SessionType, TInv, SessionsOK, MapsOK,
       PortMap
  <2>4. CASE EnsureProbe(s)
    BY <1>2, <2>4 DEF EnsureProbe, Goto, Slip, At, Name, SessionType, TInv, SessionsOK,
       database
  <2> QED BY <2>2, <2>3, <2>4
<1>6. Right(s)'
  BY <1>1, <1>2, <1>3, <1>5 DEF Right, Name
<1> QED BY <1>1, <1>4, <1>6, SoloNext DEF Calm

LEMMA CreateCalm ==
  ASSUME TInv, Unique, Calm, NEW s \in Session,
         CreateAlloc(s) \/ CreateInsert(s) \/ CreateClone(s)
  PROVE  Calm'
<1>1. HandlerStep(s) /\ OneAtATime /\ Right(s) /\ \A p \in Profile : Follows(p)
  BY DEF HandlerStep, Calm
<1>2. /\ ses[s] \in SessionType /\ ~ At(s, "idle") /\ Name(s) \in Profile
      /\ ses[s].pc \in {"lock", "insert", "clone"} /\ ses[s].create
  BY <1>1 DEF CreateAlloc, CreateInsert, CreateClone, At, Name, TInv, SessionsOK, Right
<1>3. \A p \in Profile : ~ Tearing(p) /\ ~ Forgotten(p)
  BY <1>1, <1>2, Solo
<1>4. CASE CreateAlloc(s)
  <2>1. ses[s].pc = "lock" /\ UNCHANGED <<process, nginx, row, mirror>>
    BY <1>4 DEF CreateAlloc, At, database
  <2>2. \A p \in Profile : ~ Making(p) /\ ~ Launching(p)
    BY <1>1, <1>2, <2>1, Solo
  <2>5. ~ Mirrored
    BY <1>1, <1>2, Solo
  <2>3. CASE /\ map' = Alloc(Name(s)) /\ (map[Name(s)] # None \/ Free # {})
             /\ ses' = [ses EXCEPT ![s].pc = "insert", ![s].port = map'[Name(s)]]
    <3>1. /\ ses'[s].pc = "insert" /\ ses'[s].name = Name(s) /\ ses'[s].create
          /\ ses'[s].port = map'[Name(s)]
      BY <1>2, <2>3 DEF TInv, SessionsOK, SessionType, Name
    <3>2. /\ \A p \in Profile \ {Name(s)} : map'[p] = map[p]
          /\ map[Name(s)] # None => map' = map
          /\ map'[Name(s)] # None
          /\ map[Name(s)] = None => \A p \in Profile : map[p] # map'[Name(s)]
      <4>1. CASE map[Name(s)] # None
        BY <2>3, <4>1 DEF Alloc
      <4>2. CASE map[Name(s)] = None
        <5>1. FirstFree \in Free
          BY <2>3, <4>2, FirstFreeIsFree
        <5>2. FirstFree # None /\ \A p \in Profile : map[p] # FirstFree
          BY <5>1, PortsAreNumbers DEF Free, PortsOf
        <5>3. map' = [map EXCEPT ![Name(s)] = FirstFree]
          BY <2>3, <4>2 DEF Alloc
        <5> QED BY <1>2, <4>2, <5>2, <5>3 DEF TInv, MapsOK, PortMap
      <4> QED BY <4>1, <4>2
    <3>3. Right(s)'
      <4>1. row[Name(s)] = None
        BY <1>1, <2>1 DEF Right, Name
      <4> QED BY <2>1, <3>1, <3>2, <4>1 DEF Right, Name
    <3>6. \A p \in Profile : ~ Tearing(p)'
      BY <1>1, <3>1, SoloNext
    <3>5. ASSUME NEW p \in Profile PROVE Follows(p)'
      <4>1. Follows(p) /\ ~ Making(p) /\ ~ Tearing(p) /\ ~ Forgotten(p)
        BY <1>1, <1>3, <2>2
      <4>2. process[p] # None => process[p] = map'[p]
        BY <1>2, <3>2, <4>1 DEF Follows
      <4>3. row[p] # None => row[p] = map'[p]
        BY <1>2, <3>2, <4>1 DEF Follows
      <4>4. Harmless(p)'
        <5> SUFFICES ASSUME nginx[p] # None, nginx[p] # map'[p]
                     PROVE  /\ Unsent(p)'
                            /\ \A q \in Profile \ {p} : map'[q] = nginx[p] =>
                                 Young(q)' /\ ~ Tearing(p)'
          BY <2>1 DEF Harmless
        <5>1. nginx[p] # map[p]
          BY <1>2, <3>2
        <5>2. Unsent(p)'
          BY <2>1, <2>5, <4>1, <5>1 DEF Follows, Harmless, Unsent
        <5>3. ASSUME NEW q \in Profile \ {p}, map'[q] = nginx[p] PROVE Young(q)'
          <6>1. Follows(q) /\ ~ Making(q) /\ ~ Launching(q) /\ ~ Tearing(q) /\ ~ Forgotten(q)
            BY <1>1, <1>3, <2>2
          <6>2. CASE map'[q] = map[q]
            BY <2>1, <4>1, <5>1, <5>3, <6>1, <6>2 DEF Follows, Harmless, Young
          <6>3. CASE map'[q] # map[q]
            <7>1. map[q] = None
              BY <1>2, <3>2, <6>3
            <7> QED BY <2>1, <6>1, <7>1 DEF Follows, Young
          <6> QED BY <6>2, <6>3
        <5> QED BY <3>6, <5>2, <5>3
      <4> QED BY <2>1, <4>2, <4>3, <4>4 DEF Follows
    <3> QED BY <1>1, <3>3, <3>5, SoloNext DEF Calm
  <2>4. CASE ses' = [ses EXCEPT ![s] = Idle] /\ UNCHANGED map
    <3>1. ses'[s].pc = "idle"
      BY <2>4 DEF Idle, TInv, SessionsOK
    <3>4. \A p \in Profile : ~ Tearing(p)'
      BY <1>1, <3>1, SoloNext
    <3>2. \A p \in Profile : Follows(p)'
      BY <1>1, <1>3, <2>1, <2>2, <2>4, <2>5, <3>4, QuietStepCalm
    <3>3. Right(s)'
      BY <3>1 DEF Right
    <3> QED BY <1>1, <3>2, <3>3, SoloNext DEF Calm
  <2> QED BY <1>4, <2>3, <2>4 DEF CreateAlloc
<1>5. CASE CreateInsert(s) /\ ses' = [ses EXCEPT ![s] = Idle]
  <2>1. /\ ses[s].pc = "insert" /\ ses'[s].pc = "idle" /\ row[Name(s)] = None
    BY <1>1, <1>5 DEF CreateInsert, At, Idle, Right, Name, TInv, SessionsOK
  <2>2. UNCHANGED <<map, process, nginx, row, mirror>>
    <3>1. ~ Goto(s, "clone")
      BY <2>1 DEF Goto, TInv, SessionsOK, SessionType
    <3> QED BY <1>5, <3>1 DEF CreateInsert, pod
  <2>3. /\ \A p \in Profile : (Making(p) => p = Name(s)) /\ ~ Launching(p)
        /\ ~ Mirrored /\ \A p \in Profile : ~ Tearing(p)'
    BY <1>1, <1>2, <2>1, Solo, SoloNext
  <2>4. \A p \in Profile : Follows(p)'
    BY <1>1, <1>3, <2>1, <2>2, <2>3, QuietStepCalm
  <2>5. Right(s)'
    BY <2>1 DEF Right
  <2> QED BY <1>1, <2>4, <2>5, SoloNext DEF Calm
<1>6. CASE (CreateInsert(s) /\ Goto(s, "clone")) \/ CreateClone(s)
  <2>1. /\ ses'[s].pc \in {"clone", "launch"} /\ ses'[s].name = Name(s)
        /\ ses'[s].port = ses[s].port /\ ses'[s].create
        /\ ses[s].pc \in {"insert", "clone"}
    BY <1>2, <1>6 DEF CreateInsert, CreateClone, Goto, Slip, At, Name, TInv, SessionsOK,
       SessionType
  <2>2. /\ UNCHANGED <<map, process, nginx, mirror>>
        /\ row' = row \/ row' = [row EXCEPT ![Name(s)] = ses[s].port]
    BY <1>6 DEF CreateInsert, CreateClone, pod, database
  <2>3. Right(s)'
    BY <1>1, <1>2, <2>1, <2>2 DEF Right, Name
  <2>4. /\ \A p \in Profile : /\ Making(p) => p = Name(s)
                              /\ p = Name(s) => Making(p)'
                              /\ ~ Launching(p) /\ ~ Tearing(p)'
        /\ ~ Mirrored
    BY <1>1, <1>2, <2>1, Solo, SoloNext
  <2>5. ses[s].port = map[Name(s)]
    BY <1>1, <1>2, <2>1 DEF Right, Name
  <2>7. \A p \in Profile : p = Name(s) \/ row'[p] = row[p]
    BY <2>2 DEF TInv, MapsOK, PortMap
  <2>6. ASSUME NEW p \in Profile PROVE Follows(p)'
    <3>1. Follows(p) /\ ~ Tearing(p) /\ ~ Forgotten(p)
      BY <1>1, <1>3
    <3>2. row'[p] # None => row'[p] = map[p]
      BY <1>2, <2>2, <2>5, <3>1 DEF Follows, TInv, MapsOK, PortMap
    <3>3. Unsent(p) => Unsent(p)'
      BY <2>2, <2>4, <2>7, <3>1 DEF Unsent
    <3>4. \A q \in Profile : Young(q) => Young(q)'
      BY <2>2, <2>4, <2>7 DEF Young
    <3>5. Harmless(p)'
      BY <2>2, <2>4, <3>1, <3>3, <3>4 DEF Follows, Harmless
    <3> QED BY <2>2, <3>1, <3>2, <3>5 DEF Follows
  <2> QED BY <1>1, <2>3, <2>6, SoloNext DEF Calm
<1> QED BY <1>4, <1>5, <1>6 DEF CreateInsert

LEMMA EndCalm ==
  ASSUME TInv, Unique, Calm, NEW s \in Session, calm',
         Launch(s) \/ ReadAll(s) \/ Mirror(s) \/ Route(s) \/ Answer(s)
  PROVE  Calm'
<1>1. HandlerStep(s) /\ OneAtATime /\ Right(s) /\ \A p \in Profile : Follows(p)
  BY DEF HandlerStep, Calm
<1>2. /\ ses[s] \in SessionType /\ ~ At(s, "idle") /\ Name(s) \in Profile
      /\ ses[s].pc \in {"launch", "all", "mirror", "route", "answered"}
  BY <1>1 DEF Launch, ReadAll, Mirror, Route, Answer, At, Name, TInv, SessionsOK
<1>3. \A p \in Profile : ~ Tearing(p) /\ ~ Forgotten(p)
  BY <1>1, <1>2, Solo
<1>4. CASE Launch(s)
  <2>1. /\ ses'[s].pc = "all" /\ ses'[s].name = Name(s) /\ ses'[s].port = ses[s].port
        /\ ses'[s].create = ses[s].create /\ ses[s].pc = "launch"
    BY <1>2, <1>4 DEF Launch, Goto, Slip, At, Name, TInv, SessionsOK, SessionType
  <2>2. /\ UNCHANGED <<map, nginx, row, mirror>>
        /\ process' = process \/ process' = Launched(process, Name(s), ses[s].port)
    BY <1>4 DEF Launch, database
  <2>3. Right(s)' /\ ses[s].port = map[Name(s)]
    BY <1>1, <1>2, <2>1, <2>2 DEF Right, Name
  <2>4. /\ \A p \in Profile : /\ Making(p) => Making(p)'
                              /\ ses[s].create /\ p = Name(s) => Launching(p)'
                              /\ ~ ses[s].create => ~ Making(p)
                              /\ ~ Launching(p) /\ ~ Tearing(p)'
        /\ ~ Mirrored /\ (~ ses[s].create => row[Name(s)] # None)
    BY <1>1, <1>2, <2>1, Solo, SoloNext DEF Right, Name
  <2>5. \A p \in Profile : process'[p] \in {process[p], None}
                          \/ (p = Name(s) /\ process'[p] = map[p])
    BY <1>2, <2>2, <2>3 DEF Launched, TInv, MapsOK, PortMap
  <2>6. ASSUME NEW p \in Profile PROVE Follows(p)'
    <3>1. Follows(p) /\ ~ Tearing(p) /\ ~ Forgotten(p)
      BY <1>1, <1>3
    <3>2. process'[p] # None => process'[p] = map[p]
      BY <2>5, <3>1 DEF Follows
    <3>3. Unsent(p) => Unsent(p)'
      BY <1>3, <2>2, <2>4 DEF Unsent
    <3>4. \A q \in Profile : Young(q) => Young(q)'
      BY <2>2, <2>4, <2>5 DEF Young
    <3>5. Harmless(p)'
      BY <2>2, <2>4, <3>1, <3>3, <3>4 DEF Follows, Harmless
    <3> QED BY <2>2, <3>1, <3>2, <3>5 DEF Follows
  <2> QED BY <1>1, <2>3, <2>6, SoloNext DEF Calm
<1>5. CASE ReadAll(s)
  <2>1. /\ ses'[s].name = Name(s) /\ ses'[s].port = ses[s].port
        /\ ses'[s].create = ses[s].create /\ ses[s].pc = "all"
        /\ ses'[s].pc \in {"route", "answered", "mirror"}
        /\ ses[s].create <=> ses'[s].pc = "route"
        /\ \/ ses'[s].seen = map \/ ses'[s].seen = Nowhere
           \/ ses[s].create /\ ses'[s].seen = [Nowhere EXCEPT ![Name(s)] = ses[s].port]
    BY <1>2, <1>5 DEF ReadAll, At, Name, TInv, SessionsOK, SessionType
  <2>2. UNCHANGED <<map, process, nginx, row, mirror>>
    BY <1>5 DEF ReadAll, pod, database
  <2>3. /\ ses[s].port = map[Name(s)] /\ map[Name(s)] # None
        /\ ~ ses[s].create => row[Name(s)] # None
    BY <1>1, <2>1 DEF Right, Name
  <2>4. \A q \in Profile : ses'[s].seen[q] # None => ses'[s].seen[q] = map[q]
    BY <2>1, <2>3 DEF Nowhere
  <2>5. Right(s)'
    BY <2>1, <2>2, <2>3, <2>4 DEF Right, Name
  <2>6. /\ \A p \in Profile : /\ Making(p) => Making(p)'
                              /\ Launching(p) => Launching(p)'
                              /\ ~ Tearing(p)'
        /\ ~ Mirrored
    BY <1>1, <1>2, <2>1, Solo, SoloNext
  <2>7. \A p \in Profile : Follows(p)'
    BY <1>1, <1>3, <2>2, <2>6, QuietStepCalm
  <2> QED BY <1>1, <2>5, <2>7, SoloNext DEF Calm
<1>6. CASE Mirror(s)
  <2>1. /\ ses'[s].name = Name(s) /\ ses'[s].seen = ses[s].seen
        /\ ses'[s].create = ses[s].create /\ ses[s].pc = "mirror"
        /\ ses'[s].pc = IF ses[s].create THEN "answered" ELSE "route"
    BY <1>2, <1>6 DEF Mirror, Goto, At, Name, TInv, SessionsOK, SessionType
  <2>2. /\ UNCHANGED <<map, process, nginx>> /\ mirror' = ses[s].seen
        /\ \/ row' = row
           \/ ~ ses[s].create /\ row' = [row EXCEPT ![Name(s)] = ses[s].port]
    BY <1>6 DEF Mirror, pod
  <2>3. /\ \A p \in Profile : ~ Making(p) /\ ~ Launching(p) /\ ~ Tearing(p)'
        /\ ~ Mirrored /\ (~ ses[s].create => Mirrored')
    BY <1>1, <1>2, <2>1, Solo, SoloNext
  <2>4. Right(s)'
    BY <1>1, <2>1, <2>2 DEF Right, Name
  <2>6. \A p \in Profile : row[p] = None => row'[p] = None
    BY <1>1, <2>1, <2>2 DEF Right, Name, TInv, MapsOK, PortMap
  <2>5. ASSUME NEW p \in Profile PROVE Follows(p)'
    <3>1. Follows(p) /\ ~ Making(p) /\ ~ Tearing(p) /\ ~ Forgotten(p)
      BY <1>1, <1>3, <2>3
    <3>2. row'[p] # None => row'[p] = map[p]
      BY <1>1, <2>1, <2>2, <3>1 DEF Follows, Right, Name, TInv, MapsOK, PortMap
    <3>3. CASE ses[s].create
      <4>1. \A q \in Profile : nginx'[q] # None => nginx'[q] = map'[q]
        BY <1>1, <2>1, <2>2, <3>3 DEF Right
      <4> QED BY <2>2, <3>1, <3>2, <4>1, FreshRoutes DEF Follows
    <3>4. CASE ~ ses[s].create
      <4>1. Unsent(p) => Unsent(p)'
        BY <2>3, <2>6, <3>1, <3>4 DEF Unsent
      <4>2. \A q \in Profile : Young(q) => Young(q)'
        BY <2>2, <2>3, <2>6 DEF Young
      <4>3. Harmless(p)'
        BY <2>2, <2>3, <3>1, <4>1, <4>2 DEF Follows, Harmless
      <4> QED BY <2>2, <3>1, <3>2, <4>3 DEF Follows
    <3> QED BY <3>3, <3>4
  <2> QED BY <1>1, <2>4, <2>5, SoloNext DEF Calm
<1>7. CASE Route(s)
  <2>1. /\ UNCHANGED <<map, process, row, mirror>> /\ nginx' = ses[s].seen
    BY <1>7 DEF Route, Routed, database
  <2>2. /\ ses'[s].name = Name(s) /\ ses'[s].seen = ses[s].seen
        /\ ses'[s].create = ses[s].create /\ ses[s].pc = "route"
        /\ ses'[s].pc = IF ses[s].create THEN "mirror" ELSE "answered"
        /\ nginx' = ses'[s].seen
    BY <1>2, <1>7, <2>1 DEF Route, Goto, Slip, At, Name, TInv, SessionsOK, SessionType
  <2>3. Right(s)'
    BY <1>1, <2>1, <2>2 DEF Right, Name
  <2>5. \A p \in Profile : Harmless(p)'
    BY <1>1, <2>1, <2>2, FreshRoutes DEF Right
  <2>4. ASSUME NEW p \in Profile PROVE Follows(p)'
    BY <1>1, <1>3, <2>1, <2>5 DEF Follows
  <2> QED BY <1>1, <2>3, <2>4, SoloNext DEF Calm
<1>8. CASE Answer(s)
  <2>1. UNCHANGED <<map, process, nginx, row, mirror>> /\ ses[s].pc = "answered"
        /\ ses'[s].pc = "idle"
    BY <1>8 DEF Answer, Idle, At, pod, database, TInv, SessionsOK
  <2>2. /\ \A p \in Profile : ~ Making(p) /\ ~ Launching(p) /\ ~ Tearing(p)'
        /\ ~ Mirrored
    BY <1>1, <1>2, <2>1, Solo, SoloNext
  <2>3. \A p \in Profile : Follows(p)'
    BY <1>1, <1>3, <2>1, <2>2, QuietStepCalm
  <2>4. Right(s)'
    BY <2>1 DEF Right
  <2> QED BY <1>1, <2>3, <2>4, SoloNext DEF Calm
<1> QED BY <1>4, <1>5, <1>6, <1>7, <1>8

LEMMA TeardownCalm ==
  ASSUME TInv, Unique, Calm, NEW s \in Session, calm',
         \/ TeardownStop(s) \/ TeardownRemove(s) \/ TeardownRm(s)
         \/ TeardownRead(s) \/ TeardownRoute(s) \/ TeardownDelete(s)
  PROVE  Calm'
<1>1. HandlerStep(s) /\ OneAtATime /\ Right(s) /\ \A p \in Profile : Follows(p)
  BY DEF HandlerStep, Calm
<1>2. /\ ses[s] \in SessionType /\ ~ At(s, "idle") /\ Name(s) \in Profile
      /\ ses[s].pc \in {"stop", "remove", "rm", "read", "unroute", "delete"}
  BY <1>1 DEF TeardownStop, TeardownRemove, TeardownRm, TeardownRead, TeardownRoute,
     TeardownDelete, At, Name, TInv, SessionsOK
<1>3. /\ \A p \in Profile : ~ Making(p) /\ ~ Launching(p) /\ ~ Forgotten(p)
      /\ ~ Mirrored
  BY <1>1, <1>2, Solo
<1>4. CASE TeardownStop(s)
  <2>1. /\ ses'[s].pc = "remove" /\ ses'[s].name = Name(s) /\ ses[s].pc = "stop"
    BY <1>2, <1>4 DEF TeardownStop, Goto, Slip, At, Name, TInv, SessionsOK, SessionType
  <2>2. /\ UNCHANGED <<map, nginx, row, mirror>> /\ process'[Name(s)] = None
        /\ \A p \in Profile : process'[p] \in {process[p], None}
    BY <1>2, <1>4 DEF TeardownStop, database, TInv, MapsOK, PortMap
  <2>3. Right(s)'
    BY <1>1, <2>1, <2>2 DEF Right, Name
  <2>4. \A p \in Profile : ~ Tearing(p) /\ ~ Tearing(p)'
    BY <1>1, <1>2, <2>1, Solo, SoloNext
  <2>5. ASSUME NEW p \in Profile PROVE Follows(p)'
    <3>1. Unsent(p) => Unsent(p)'
      BY <1>3, <2>2, <2>4 DEF Unsent
    <3>2. \A q \in Profile : Young(q) => Young(q)'
      BY <1>3, <2>2 DEF Young
    <3>3. Harmless(p)'
      BY <1>1, <2>2, <2>4, <3>1, <3>2 DEF Follows, Harmless
    <3> QED BY <1>1, <1>3, <2>2, <2>4, <3>3 DEF Follows
  <2> QED BY <1>1, <2>3, <2>5, SoloNext DEF Calm
<1>5. CASE TeardownRemove(s)
  <2>1. /\ ses'[s].pc = "rm" /\ ses'[s].name = Name(s) /\ ses[s].pc = "remove"
    BY <1>2, <1>5 DEF TeardownRemove, Goto, Slip, At, Name, TInv, SessionsOK, SessionType
  <2>2. /\ UNCHANGED <<process, nginx, row, mirror>>
        /\ \A p \in Profile \ {Name(s)} : map'[p] = map[p]
        /\ map'[Name(s)] \in {map[Name(s)], None}
    BY <1>2, <1>5 DEF TeardownRemove, database, TInv, MapsOK, PortMap
  <2>3. process[Name(s)] = None /\ row[Name(s)] # None
    BY <1>1, <2>1 DEF Right, Name
  <2>4. /\ \A p \in Profile : ~ Tearing(p)
        /\ \A p \in Profile : p = Name(s) <=> Tearing(p)'
    BY <1>1, <1>2, <2>1, Solo, SoloNext
  <2>5. Right(s)'
    BY <2>1 DEF Right
  <2>6. ASSUME NEW p \in Profile PROVE Follows(p)'
    <3>1. Follows(p) /\ ~ Making(p) /\ ~ Tearing(p) /\ ~ Forgotten(p)
      BY <1>1, <1>3, <2>4
    <3>2. CASE p # Name(s)
      <4>1. map'[p] = map[p] /\ ~ Tearing(p)'
        BY <2>2, <2>4, <3>2
      <4>2. nginx[p] # None => \A q \in Profile \ {p} : map'[q] = nginx[p] => map[q] = nginx[p]
        BY <2>2
      <4>3. Unsent(p) => Unsent(p)'
        BY <1>3, <2>2, <3>1 DEF Unsent
      <4>4. \A q \in Profile : Young(q) => Young(q)'
        BY <1>3, <2>2 DEF Young
      <4>5. Harmless(p)'
        BY <2>2, <3>1, <4>1, <4>2, <4>3, <4>4 DEF Follows, Harmless
      <4> QED BY <2>2, <3>1, <4>1, <4>5 DEF Follows
    <3>3. CASE p = Name(s)
      <4>1. Tearing(p)' /\ process[p] = None
        BY <2>3, <2>4, <3>3
      <4>2. \A q \in Profile \ {p} : map'[q] = map[q]
        BY <2>2, <3>3
      <4>3. nginx[p] # None => nginx[p] = map[p]
        BY <1>3, <2>3, <3>1, <3>3 DEF Follows, Harmless, Unsent
      <4>4. nginx[p] # None => \A q \in Profile \ {p} : map'[q] # nginx[p]
        BY <4>2, <4>3 DEF Unique, PortsUnique, Injective
      <4>5. Harmless(p)'
        BY <2>2, <4>1, <4>4 DEF Harmless, Unsent
      <4> QED BY <2>2, <4>1, <4>5 DEF Follows
    <3> QED BY <3>2, <3>3
  <2> QED BY <1>1, <2>5, <2>6, SoloNext DEF Calm
<1>6. CASE TeardownRm(s) \/ TeardownRead(s)
  <2>1. /\ ses'[s].pc \in {"read", "unroute"} /\ ses'[s].name = Name(s)
        /\ ses[s].pc \in {"rm", "read"}
        /\ ses'[s].pc = "unroute" => ses'[s].seen \in {map, Nowhere}
    <3>1. CASE TeardownRm(s)
      BY <1>2, <3>1 DEF TeardownRm, Goto, Slip, At, Name, TInv, SessionsOK, SessionType
    <3>2. CASE TeardownRead(s)
      BY <1>2, <3>2 DEF TeardownRead, At, Name, TInv, SessionsOK, SessionType
    <3> QED BY <1>6, <3>1, <3>2
  <2>2. UNCHANGED <<map, process, nginx, row, mirror>>
    BY <1>6 DEF TeardownRm, TeardownRead, pod, database
  <2>3. \A p \in Profile : Tearing(p) <=> Tearing(p)'
    BY <1>1, <1>2, <2>1, Solo, SoloNext
  <2>4. \A p \in Profile : Follows(p)'
    BY <1>1, <1>3, <2>2, <2>3, QuietStepCalm
  <2>5. Right(s)'
    BY <2>1, <2>2 DEF Right, Nowhere
  <2> QED BY <1>1, <2>4, <2>5, SoloNext DEF Calm
<1>7. CASE TeardownRoute(s)
  <2>1. /\ ses'[s].pc = "delete" /\ ses'[s].name = Name(s) /\ ses[s].pc = "unroute"
        /\ ses'[s].seen = ses[s].seen
    BY <1>2, <1>7 DEF TeardownRoute, Goto, At, Name, TInv, SessionsOK, SessionType
  <2>2. /\ UNCHANGED <<map, process, row, mirror>>
        /\ \/ ses[s].seen = Nowhere /\ nginx' = nginx
           \/ nginx' = ses[s].seen
    BY <1>7 DEF TeardownRoute, database
  <2>3. Right(s)'
    BY <1>1, <2>1, <2>2 DEF Right, Name
  <2>4. \A p \in Profile : Tearing(p) <=> Tearing(p)'
    BY <1>1, <1>2, <2>1, Solo, SoloNext
  <2>5. \A p \in Profile : Follows(p)'
    <3>1. CASE nginx' = nginx
      BY <1>1, <1>3, <2>2, <2>4, <3>1, QuietStepCalm
    <3>2. CASE nginx' = ses[s].seen
      <4>1. \A p \in Profile : Harmless(p)'
        BY <1>1, <2>1, <2>2, <3>2, FreshRoutes DEF Right
      <4> QED BY <1>1, <1>3, <2>2, <2>4, <4>1 DEF Follows
    <3> QED BY <2>2, <3>1, <3>2
  <2> QED BY <1>1, <2>3, <2>5, SoloNext DEF Calm
<1>8. CASE TeardownDelete(s)
  <2>1. ses[s].pc = "delete" /\ ses'[s].pc = "idle"
    BY <1>8 DEF TeardownDelete, At, Idle, TInv, SessionsOK
  <2>2. /\ UNCHANGED <<map, process, nginx>> /\ mirror' = ses[s].seen
        /\ \A p \in Profile : row'[p] = IF p = Name(s) THEN None ELSE row[p]
    BY <1>8 DEF TeardownDelete, pod, TInv, MapsOK, PortMap
  <2>3. \A p \in Profile : (Tearing(p) => p = Name(s)) /\ ~ Tearing(p)'
    BY <1>1, <1>2, <2>1, Solo, SoloNext
  <2>4. Right(s)'
    BY <2>1 DEF Right
  <2>5. ASSUME NEW p \in Profile PROVE Follows(p)'
    <3>1. Follows(p) /\ ~ Making(p) /\ ~ Forgotten(p)
      BY <1>1, <1>3
    <3>2. row'[p] # None => row'[p] = map[p]
      BY <2>2, <2>3, <3>1 DEF Follows
    <3>3. nginx[p] # None /\ nginx[p] # map[p] => mirror'[p] = None
      BY <1>1, <2>1, <2>2 DEF Right, Nowhere
    <3>4. nginx[p] # None /\ nginx[p] # map[p] => Unsent(p)'
      BY <2>2, <2>3, <3>1, <3>3 DEF Follows, Harmless, Unsent
    <3>5. \A q \in Profile : Young(q) => Young(q)'
      BY <1>3, <2>2 DEF Young
    <3>6. Harmless(p)'
      BY <2>2, <2>3, <3>1, <3>4, <3>5 DEF Follows, Harmless
    <3> QED BY <2>2, <3>1, <3>2, <3>6 DEF Follows
  <2> QED BY <1>1, <2>4, <2>5, SoloNext DEF Calm
<1> QED BY <1>4, <1>5, <1>6, <1>7, <1>8

(* With nobody at work every handler is right, and only the Pod counts.    *)
LEMMA NobodyAtWork ==
  ASSUME \A s \in Session : At(s, "idle")
  PROVE  /\ OneAtATime /\ \A s \in Session : Right(s)
         /\ \A p \in Profile : ~ Making(p) /\ ~ Launching(p) /\ ~ Tearing(p)
         /\ ~ Mirrored
BY DEF OneAtATime, Right, Making, Launching, Tearing, Mirrored, At

LEMMA BootCalm ==
  ASSUME TInv, Unique, Calm, calm', BootStep
  PROVE  Calm'
<1> USE DEF TInv, MapsOK
<1>1. \A s \in Session : At(s, "idle") /\ At(s, "idle")'
  <2>1. CASE Restart
    <3>1. Active = {} /\ ses' = [s \in Session |-> [ses[s] EXCEPT !.clean = FALSE]]
      BY <2>1 DEF Restart
    <3> QED BY <3>1, NobodyActive DEF At, SessionsOK, SessionType
  <2>2. CASE BootReconcile \/ BootNginx \/ BootLaunch \/ BootRegister
    <3>1. boot # Up /\ ses' = ses
      BY <2>2 DEF BootReconcile, BootNginx, BootLaunch, BootRegister, Up
    <3> QED BY <3>1 DEF Calm, OneAtATime, At
  <2> QED BY <2>1, <2>2 DEF BootStep
<1>2. /\ \A p \in Profile : ~ Making(p) /\ ~ Launching(p) /\ ~ Tearing(p)
      /\ (\A p \in Profile : ~ Making(p) /\ ~ Launching(p) /\ ~ Tearing(p))'
      /\ ~ Mirrored
      /\ OneAtATime' /\ (\A s \in Session : Right(s))'
  BY <1>1, NobodyAtWork DEF OneAtATime, Right, Making, Launching, Tearing, At
<1>3. Booting /\ \A p \in Profile : Follows(p)
  BY DEF Calm
<1>4. CASE Restart
  <2>1. /\ process' = Nowhere /\ nginx' = Nowhere /\ UNCHANGED <<map, dir, row, mirror>>
        /\ boot = Up /\ boot'.pc = "reconcile"
    BY <1>4 DEF Restart, Up, database
  <2>2. Booting' /\ \A p \in Profile : ~ Forgotten(p)
    BY <2>1 DEF Booting, Forgotten, Up
  <2>3. \A p \in Profile : Follows(p)'
    BY <1>2, <1>3, <2>1, <2>2 DEF Follows, Harmless, Nowhere
  <2> QED BY <1>2, <2>2, <2>3 DEF Calm
<1>5. CASE BootReconcile
  <2>1. /\ map' \in Reconciled /\ UNCHANGED <<dir, process, nginx, row, mirror>>
        /\ boot.pc = "reconcile" /\ boot'.pc = "nginx" /\ boot'.seen = map'
    BY <1>5 DEF BootReconcile, database
  <2>2. process = Nowhere /\ nginx = Nowhere
    BY <1>3, <2>1 DEF Booting
  <2>3. ASSUME NEW p \in Profile PROVE Follows(p)'
    <3>1. process[p] = None /\ nginx[p] = None
      BY <2>2 DEF Nowhere
    <3>2. row[p] # None => row[p] = map[p]
      BY <1>2, <1>3, <2>1 DEF Follows, Forgotten
    <3>3. p \in dir /\ map[p] # None => map'[p] = map[p]
      BY <2>1 DEF Reconciled, Orphans, Surviving
    <3>4. row[p] # None => row[p] = map'[p] \/ Forgotten(p)'
      BY <2>1, <3>2, <3>3 DEF Forgotten
    <3> QED BY <2>1, <3>1, <3>4 DEF Follows, Harmless
  <2>4. Booting'
    BY <2>1, <2>2 DEF Booting
  <2> QED BY <1>2, <2>3, <2>4 DEF Calm
<1>6. CASE BootNginx
  <2>1. /\ nginx' = map /\ UNCHANGED <<map, dir, process, row, mirror>>
        /\ boot.pc = "nginx" /\ boot'.pc = "launch"
    BY <1>3, <1>6 DEF BootNginx, Booting, Up, database
  <2>2. Booting'
    BY <1>3, <2>1 DEF Booting
  <2>3. \A p \in Profile : Forgotten(p) => Forgotten(p)'
    BY <2>1 DEF Forgotten
  <2>5. \A p \in Profile : Follows(p)'
    BY <1>2, <1>3, <2>1, <2>3 DEF Follows, Harmless
  <2> QED BY <1>2, <2>2, <2>5 DEF Calm
<1>7. CASE BootLaunch
  <2>1. /\ UNCHANGED <<map, dir, nginx, row, mirror>>
        /\ boot.pc = "launch" /\ boot'.pc = "register"
        /\ \A p \in Profile : process'[p] \in {process[p], map[p]}
        /\ nginx = map
    BY <1>3, <1>7 DEF BootLaunch, Booting, Up, database
  <2>2. Booting'
    BY <2>1 DEF Booting
  <2>3. \A p \in Profile : Forgotten(p) => Forgotten(p)'
    BY <2>1 DEF Forgotten
  <2>4. \A p \in Profile : Follows(p)'
    BY <1>2, <1>3, <2>1, <2>3 DEF Follows, Harmless
  <2> QED BY <1>2, <2>2, <2>4 DEF Calm
<1>8. CASE BootRegister
  <2>1. /\ UNCHANGED <<map, dir, process, nginx, mirror>>
        /\ boot.pc = "register" /\ boot'.pc = "up"
        /\ \A p \in Profile : row'[p] = IF p \in dir THEN row[p] ELSE None
    BY <1>8 DEF BootRegister, Up, pod
  <2>2. Booting'
    BY <2>1 DEF Booting
  <2>3. \A p \in Profile : Forgotten(p) => p \notin dir
    BY DEF Forgotten
  <2>4. \A p \in Profile : Follows(p)'
    BY <1>2, <1>3, <2>1, <2>3 DEF Follows, Harmless, Unsent, Young
  <2> QED BY <1>2, <2>2, <2>4 DEF Calm
<1> QED BY <1>4, <1>5, <1>6, <1>7, <1>8 DEF BootStep

(* A request begins in calm weather only where nothing else goes on.       *)
LEMMA StartCalm ==
  ASSUME TInv, Calm, calm', NEW s \in Session, NEW p \in Profile,
         Ensure(s, p) \/ Teardown(s, p)
  PROVE  Calm'
<1>1. PICK pc \in {"get", "lock", "stop"}, create \in BOOLEAN :
        /\ Start(s, pc, p, create) /\ (pc = "lock" <=> row[p] = None)
        /\ create = (pc = "lock")
  BY DEF Ensure, Teardown
<1>2. /\ ses'[s].pc = pc /\ ses'[s].name = p /\ ses'[s].port = row[p]
      /\ ses'[s].create = create
      /\ \A u \in Session \ {s} : ses'[u] = [ses[u] EXCEPT !.clean = FALSE]
  BY <1>1, StartFrame
<1>3. UNCHANGED <<map, dir, process, nginx, row, mirror, boot>>
  BY DEF Ensure, Teardown, pod, database
<1>4. boot = Up /\ \A u \in Session : At(u, "idle")
  BY <1>1, StartClean, NobodyActive
<1>5. ASSUME NEW u \in Session \ {s} PROVE ses'[u].pc = "idle"
  <2>1. ses'[u] = [ses[u] EXCEPT !.clean = FALSE] /\ ses[u] \in SessionType
    BY <1>2 DEF TInv, SessionsOK
  <2>2. ses[u].pc = "idle"
    BY <1>4 DEF At
  <2> QED BY <2>1, <2>2 DEF SessionType
<1>6. /\ \A q \in Profile : ~ Making(q) /\ ~ Launching(q) /\ ~ Tearing(q) /\ ~ Forgotten(q)
      /\ ~ Mirrored
  BY <1>4, NobodyAtWork DEF Forgotten, Up
<1>12. \A q \in Profile : ~ Tearing(q)'
  <2>1. \A u \in Session : ses'[u].pc \notin {"rm", "read", "unroute", "delete"}
    BY <1>2, <1>5
  <2> QED BY <2>1 DEF Tearing
<1>13. ASSUME NEW q \in Profile PROVE Harmless(q)'
  <2>1. Harmless(q)
    BY DEF Calm, Follows
  <2>2. (Unsent(q) => Unsent(q)') /\ \A r \in Profile : Young(r) => Young(r)'
    BY <1>3, <1>6 DEF Unsent, Young
  <2> QED BY <1>3, <1>12, <2>1, <2>2 DEF Harmless
<1>7. \A q \in Profile : Follows(q)'
  BY <1>3, <1>6, <1>13 DEF Calm, Follows
<1>8. row[p] # None => row[p] = map[p]
  BY <1>6 DEF Calm, Follows
<1>9. Right(s)'
  BY <1>1, <1>2, <1>3, <1>8 DEF Right, Name
<1>10. \A u \in Session \ {s} : Right(u)'
  BY <1>5 DEF Right
<1>11. OneAtATime' /\ Booting'
  BY <1>3, <1>4, <1>5 DEF OneAtATime, Booting, At, Up
<1> QED BY <1>7, <1>9, <1>10, <1>11 DEF Calm

(* The gateway by itself, and processes that die.                          *)
LEMMA DriftCalm ==
  ASSUME TInv, Calm,
         \/ UNCHANGED vars
         \/ \E p \in Profile : GatewayStep(p) \/ ProcessDies(p)
  PROVE  Calm'
<1>1. /\ UNCHANGED <<map, dir, nginx, row, mirror, boot>>
      /\ \A p \in Profile : process'[p] \in {process[p], None}
      /\ process = Nowhere => process' = Nowhere
  BY DEF vars, pod, database, GatewayStep, Resolve, Answers502, FailureExpires, CacheExpires, ProcessDies, TInv, MapsOK, PortMap,
     Nowhere
<1>2. \A s \in Session : /\ ses'[s].pc = ses[s].pc /\ ses'[s].name = ses[s].name
                         /\ ses'[s].port = ses[s].port /\ ses'[s].create = ses[s].create
                         /\ ses'[s].seen = ses[s].seen
  BY DEF vars, GatewayStep, Resolve, Answers502, FailureExpires, CacheExpires, ProcessDies, TInv, SessionsOK, SessionType
<1>3. OneAtATime' /\ Booting'
  BY <1>1, <1>2 DEF Calm, OneAtATime, Booting, At
<1>4. /\ \A p \in Profile : /\ Making(p) => Making(p)'
                            /\ Launching(p) => Launching(p)'
                            /\ Tearing(p) <=> Tearing(p)'
                            /\ Forgotten(p) => Forgotten(p)'
      /\ Mirrored => Mirrored'
  BY <1>1, <1>2 DEF Making, Launching, Tearing, Mirrored, Forgotten, Name
<1>5. ASSUME NEW p \in Profile PROVE Follows(p)'
  <2>1. Follows(p)
    BY DEF Calm
  <2>2. (Unsent(p) => Unsent(p)') /\ \A q \in Profile : Young(q) => Young(q)'
    BY <1>1, <1>4 DEF Unsent, Young
  <2>3. Harmless(p)'
    BY <1>1, <1>4, <2>1, <2>2 DEF Follows, Harmless
  <2> QED BY <1>1, <1>4, <2>1, <2>3 DEF Follows
<1>6. ASSUME NEW s \in Session PROVE Right(s)'
  <2>1. Right(s)
    BY DEF Calm
  <2>2. ses[s].pc = "remove" => Name(s) \in Profile
    BY DEF TInv, SessionsOK, Name
  <2> QED BY <1>1, <1>2, <2>1, <2>2 DEF Right, Name
<1> QED BY <1>3, <1>5, <1>6 DEF Calm

LEMMA CalmStep == TInv /\ Unique /\ CalmHolds /\ [Next]_vars => CalmHolds'
<1> SUFFICES ASSUME TInv, Unique, CalmHolds, [Next]_vars, calm' PROVE Calm'
  BY DEF CalmHolds
<1>1. CASE UNCHANGED vars \/ \E p \in Profile : GatewayStep(p) \/ ProcessDies(p)
  <2>1. calm
    BY <1>1 DEF vars, history, GatewayStep, Resolve, Answers502, FailureExpires, CacheExpires, ProcessDies
  <2> QED BY <1>1, <2>1, DriftCalm DEF CalmHolds
<1>2. CASE BootStep
  <2>1. calm
    BY <1>2 DEF BootStep, Restart, BootReconcile, BootNginx, BootLaunch, BootRegister, history
  <2> QED BY <1>2, <2>1, BootCalm DEF CalmHolds
<1>3. ASSUME NEW s \in Session, NEW p \in Profile, Ensure(s, p) \/ Teardown(s, p)
      PROVE  Calm'
  <2>1. \E pc, create : Start(s, pc, p, create)
    BY <1>3 DEF Ensure, Teardown
  <2>2. calm
    BY <2>1, StartClean
  <2> QED BY <1>3, <2>2, StartCalm DEF CalmHolds
<1>4. ASSUME NEW s \in Session, HandlerStep(s)
      PROVE  Calm'
  <2>1. CASE EnsureGet(s) \/ EnsureDir(s) \/ EnsureProbe(s)
    BY <2>1, EnsureCalm DEF EnsureGet, EnsureDir, EnsureProbe, history, CalmHolds
  <2>2. CASE CreateAlloc(s) \/ CreateInsert(s) \/ CreateClone(s)
    BY <2>2, CreateCalm DEF CreateAlloc, CreateInsert, CreateClone, history, CalmHolds
  <2>3. CASE Launch(s) \/ ReadAll(s) \/ Mirror(s) \/ Route(s) \/ Answer(s)
    BY <2>3, EndCalm DEF Launch, ReadAll, Mirror, Route, Answer, history, CalmHolds
  <2>4. CASE \/ TeardownStop(s) \/ TeardownRemove(s) \/ TeardownRm(s)
             \/ TeardownRead(s) \/ TeardownRoute(s) \/ TeardownDelete(s)
    <3>1. calm
      BY <2>4 DEF TeardownStop, TeardownRemove, TeardownRm, TeardownRead, TeardownRoute,
         TeardownDelete, history
    <3> QED BY <2>4, <3>1, TeardownCalm DEF CalmHolds
  <2> QED BY <1>4, <2>1, <2>2, <2>3, <2>4 DEF HandlerStep
<1> QED BY <1>1, <1>2, <1>3, <1>4 DEF Next

(* In calm weather no message the gateway sends to a profile, from its     *)
(* cache or because the mirror has a port of it, reaches the process of    *)
(* another profile; a target cached for a deleted profile is excepted.     *)
THEOREM CalmReachesItsOwn == Spec => []ReachesItsOwn
<1>1. Init => CalmHolds
  BY DEF Init, CalmHolds, Calm, OneAtATime, Booting, Follows, Harmless, Right, At, Idle, Up, Nowhere
<1>2. TInv /\ Unique /\ CalmHolds /\ [Next]_vars => CalmHolds'
  BY CalmStep
<1>3. TInv /\ Unique /\ CalmHolds => ReachesItsOwn
  <2> SUFFICES ASSUME TInv, Unique, Calm, NEW p \in Profile, NEW q \in Profile \ {p},
                      Sent(p), nginx[p] # None, process[q] = nginx[p]
               PROVE  FALSE
    BY DEF CalmHolds, ReachesItsOwn, Crosses
  <2>1. process[q] = map[q] /\ nginx[p] # map[p]
    BY DEF Calm, Follows, Unique, PortsUnique, Injective
  <2>2. Unsent(p) /\ Young(q) /\ ~ Tearing(p)
    BY <2>1 DEF Calm, Follows, Harmless
  <2>3. Launching(q)
    BY <2>2 DEF Young
  <2>4. ~ Making(p) /\ ~ Mirrored
    <3>1. PICK s \in Session : Name(s) = q /\ ses[s].create /\ ses[s].pc \in {"all", "route"}
      BY <2>3 DEF Launching
    <3> QED BY <3>1, Solo DEF Calm, At
  <2> QED BY <2>2, <2>4 DEF Unsent, Sent, Trusted
<1> QED BY <1>1, <1>2, <1>3, TypesHold, UniqueHolds, PTL DEF Spec
=============================================================================
