------------------------ MODULE ClusterRouterProofs ------------------------
(***************************************************************************)
(* Theorems about the cluster router, for every number of tasks, nodes,    *)
(* slots, migrations and redirections, single commands and pipelines.      *)
(***************************************************************************)
EXTENDS ClusterRouter, TLAPS

Addr == Nodes \cup {NoNode}

Ranges == [start : Nat, end : Nat, master : Nodes, replicas : Seq(Nodes)]

Disjoint(m) == \A p, q \in m : p # q => p.end < q.start \/ q.end < p.start

\* What disjointness needs of the ranges: the bounds are there.
Bounded(m) == Disjoint(m) /\ \A r \in m : "start" \in DOMAIN r /\ "end" \in DOMAIN r

RangesInv == Bounded(slot_map) /\ \A m \in fetched : Bounded(m)

MapOK(m) == m \in SUBSET Ranges /\ Disjoint(m)

\* A node knows an owner of every slot that has one.
ServersOK ==
  /\ owner \in [Slots -> Addr] /\ importer \in [Slots -> Addr] /\ view \in [Nodes -> [Slots -> Addr]]
  /\ \A s \in Slots : owner[s] # NoNode => \A n \in Nodes : view[n][s] # NoNode
  /\ \A s \in Slots : importer[s] # NoNode => owner[s] # NoNode

MapsOK == MapOK(slot_map) /\ (\A m \in fetched : MapOK(m)) /\ nodes \subseteq Nodes

\* Replies that are not to an executed command.
Refusals == {<<"down">>, <<"tryagain">>} \cup ({"moved", "ask"} \X Slots \X Nodes)

Reply == {<<"none">>, <<"asking">>, <<"no node">>} \cup Refusals \cup ({"ok"} \X Tasks \X Nat \X Nat)

Conn == [node : Addr, owed : Seq(Reply), asking : BOOLEAN]

\* The pools hold connections to their own nodes.
PoolOK(d) == d \in [Nodes -> Seq(Conn)] /\ \A n \in Nodes : \A k \in DOMAIN d[n] : d[n][k].node = n

CallType ==
  [pc : {"idle", "route", "group", "next", "groupget", "groupsend", "groupread",
         "get", "send", "read", "askget", "asking", "asked", "asksend", "askread"},
   kind : {"execute", "pipeline"}, n : Nat, cmds : Seq(Commands), addrs : Seq(Addr), todo : SUBSET Addr, addr : Addr,
   i : Nat, to : Addr, left : Int, conn : Conn, held : Conn,
   results : Seq(Reply), runs : Seq(Nat), status : {"none", "ok", "error"}, start : {"busy", "calm"}]

\* Command j has not been executed, and its result is not known.
Fresh(c, j) == c.runs[j] = 0 /\ c.results[j] = <<"none">>

\* Reply r to command j of call n of task t tells whether the command has been executed.
Replied(t, n, j, r, runs, results) ==
  /\ results[j] = <<"none">>
  /\ (r = <<"ok", t, n, j>> /\ runs[j] = 1) \/ (r \in Refusals /\ runs[j] = 0)

\* The replies to the commands of S, and no others, are on their way, in order: the
\* k-th is that to command q[k].
Outstanding(t, n, owed, runs, results, S) ==
  \E q \in [DOMAIN owed -> S] :
    /\ \A m \in S : \E k \in DOMAIN owed : q[k] = m
    /\ \A k, l \in DOMAIN owed : k < l => q[k] < q[l]
    /\ \A k \in DOMAIN owed : Replied(t, n, q[k], owed[k], runs, results)

\* The commands of the group in hand.
Group(c) == {m \in DOMAIN c.cmds : c.addrs[m] = c.addr}

InGroup(c) == c.kind = "pipeline" /\ c.addr \in Nodes /\ c.addr \notin c.todo /\ c.i \in Group(c)

Holds(t, c, S) == c.held.node = c.addr /\ Outstanding(t, c.n, c.held.owed, c.runs, c.results, S)

\* The one command of execute, or one of a group whose guard owes the replies to those after it.
InHand(t, c) ==
  \/ c.kind = "execute" /\ c.held = NoConn /\ c.i = 1 /\ Len(c.cmds) = 1 /\ c.todo = {}
  \/ InGroup(c) /\ Holds(t, c, {m \in Group(c) : m > c.i})

NoGuards(c) == c.conn = NoConn /\ c.held = NoConn

\* At all times: what AtMostOnce and OwnReplies say of call c, and that the groups to do are untouched.
Told(t, c) ==
  /\ DOMAIN c.addrs = DOMAIN c.cmds /\ DOMAIN c.runs = DOMAIN c.cmds /\ DOMAIN c.results = DOMAIN c.cmds
  /\ \A j \in DOMAIN c.cmds :
       /\ c.runs[j] <= 1
       /\ c.results[j][1] = "ok" => c.results[j] = <<"ok", t, c.n, j>> /\ c.runs[j] = 1
       /\ c.addrs[j] \in c.todo => Fresh(c, j)
  /\ \A a \in c.todo : \E j \in DOMAIN c.cmds : c.addrs[j] = a

\* A call in execute_on, or in the ASK branch.
OnNode(t, c) ==
  /\ InHand(t, c)
  /\ c.pc \in {"get", "askget"} => c.conn = NoConn
  /\ c.pc \in {"get", "askget", "send", "read"} => c.to \in Nodes
  /\ c.pc \notin {"get", "askget"} => c.conn.node \in Nodes
  /\ c.pc \notin {"read", "askread"} => Fresh(c, c.i)
  /\ c.pc \in {"send", "asking", "asksend"} => c.conn.owed = <<>>
  /\ c.pc = "asked" => c.conn.owed = <<<<"asking">>>>
  /\ c.pc \in {"read", "askread"} =>
       Len(c.conn.owed) = 1 /\ Replied(t, c.n, c.i, Head(c.conn.owed), c.runs, c.results)

CallOK(t, c) ==
  /\ c \in CallType /\ Told(t, c)
  /\ c.pc = "idle" => NoGuards(c)
  /\ c.pc = "route" => NoGuards(c) /\ InHand(t, c) /\ c.kind = "execute" /\ Fresh(c, 1)
  /\ c.pc = "group" => /\ NoGuards(c) /\ c.kind = "pipeline" /\ c.i \in DOMAIN c.cmds /\ c.todo = {}
                       /\ \A j \in DOMAIN c.cmds : Fresh(c, j)
  /\ c.pc = "next" => NoGuards(c) /\ c.kind = "pipeline"
  /\ c.pc = "groupget" => NoGuards(c) /\ InGroup(c) /\ \A j \in Group(c) : c.i <= j /\ Fresh(c, j)
  /\ c.pc = "groupsend" => /\ c.conn = NoConn /\ InGroup(c) /\ Holds(t, c, {m \in Group(c) : m < c.i})
                           /\ \A j \in Group(c) : c.i <= j => Fresh(c, j)
  /\ c.pc = "groupread" => c.conn = NoConn /\ InGroup(c) /\ Holds(t, c, {m \in Group(c) : m >= c.i})
  /\ c.pc \in {"get", "send", "read", "askget", "asking", "asked", "asksend", "askread"} => OnNode(t, c)

CallsOK == task \in [Tasks -> CallType] /\ \A t \in Tasks : CallOK(t, task[t])

ClusterInv == ServersOK /\ MapsOK /\ PoolOK(idle) /\ CallsOK

-----------------------------------------------------------------------------
(* The slot map *)

(* The ranges that a node announces do not overlap, whatever it knows. *)
LEMMA TopologyBounded ==
  ASSUME NEW v
  PROVE  Bounded(Topology(v))
<1>1. Slots \subseteq Nat
  BY Zenon, ClusterAssumption
<1>2. ASSUME NEW p \in Topology(v), NEW q \in Topology(v), ~(p.end < q.start), ~(q.end < p.start)
      PROVE  p = q
  <2>1. PICK a \in Slots, b \in Slots :
          /\ p = [start |-> a, end |-> b, master |-> v[a], replicas |-> Replicas[v[a]]]
          /\ a <= b /\ Run(v, a, b)
          /\ ~(a - 1 \in Slots /\ v[a - 1] = v[a]) /\ ~(b + 1 \in Slots /\ v[b + 1] = v[a])
    BY Zenon, <1>1 DEF Topology
  <2>2. PICK c \in Slots, d \in Slots :
          /\ q = [start |-> c, end |-> d, master |-> v[c], replicas |-> Replicas[v[c]]]
          /\ c <= d /\ Run(v, c, d)
          /\ ~(c - 1 \in Slots /\ v[c - 1] = v[c]) /\ ~(d + 1 \in Slots /\ v[d + 1] = v[c])
    BY Zenon, <1>1 DEF Topology
  <2>3. a \in Int /\ b \in Int /\ c \in Int /\ d \in Int /\ c <= b /\ a <= d
    BY <1>1, <1>2, <2>1, <2>2
  <2>4. ~(a < c)
    <3> SUFFICES ASSUME a < c PROVE FALSE
      BY Zenon
    <3>1. c - 1 \in a..b /\ c \in a..b
      BY <2>3
    <3> QED
      BY Zenon, <2>1, <2>2, <3>1 DEF Run
  <2>5. ~(c < a)
    <3> SUFFICES ASSUME c < a PROVE FALSE
      BY Zenon
    <3>1. a - 1 \in c..d /\ a \in c..d
      BY <2>3
    <3> QED
      BY Zenon, <2>1, <2>2, <3>1 DEF Run
  <2>6. a = c
    BY <2>3, <2>4, <2>5
  <2>7. ~(b < d)
    <3> SUFFICES ASSUME b < d PROVE FALSE
      BY Zenon
    <3>1. b + 1 \in c..d
      BY <2>1, <2>3, <2>6
    <3> QED
      BY Zenon, <2>1, <2>2, <2>6, <3>1 DEF Run
  <2>8. ~(d < b)
    <3> SUFFICES ASSUME d < b PROVE FALSE
      BY Zenon
    <3>1. d + 1 \in a..b
      BY <2>2, <2>3, <2>6
    <3> QED
      BY Zenon, <2>1, <2>2, <2>6, <3>1 DEF Run
  <2> QED
    BY <2>1, <2>2, <2>3, <2>6, <2>7, <2>8
<1>3. ASSUME NEW p \in Topology(v) PROVE "start" \in DOMAIN p /\ "end" \in DOMAIN p
  <2>1. PICK a \in Slots, b \in Slots :
          p = [start |-> a, end |-> b, master |-> v[a], replicas |-> Replicas[v[a]]]
    BY Zenon DEF Topology
  <2> QED
    BY <2>1
<1> QED
  BY Zenon, <1>2, <1>3 DEF Bounded, Disjoint

(* Its ranges have the types of the code's. *)
LEMMA TopologyOK ==
  ASSUME NEW v \in [Slots -> Addr]
  PROVE  MapOK(Topology(v))
<1>1. Slots \subseteq Nat /\ Replicas \in [Nodes -> Seq(Nodes)]
  BY Zenon, ClusterAssumption
<1>2. ASSUME NEW p \in Topology(v) PROVE p \in Ranges
  <2>1. PICK a \in Slots, b \in Slots :
          p = [start |-> a, end |-> b, master |-> v[a], replicas |-> Replicas[v[a]]] /\ v[a] # NoNode
    BY Zenon DEF Topology
  <2>2. v[a] \in Nodes /\ Replicas[v[a]] \in Seq(Nodes)
    BY Zenon, <1>1, <2>1 DEF Addr
  <2> QED
    BY Zenon, <1>1, <2>1, <2>2 DEF Ranges
<1> QED
  BY Zenon, <1>2, TopologyBounded DEF MapOK, Bounded

(* A MOVED reply keeps the bounds of all ranges, whatever it says. *)
LEMMA UpdateBounded ==
  ASSUME NEW m, Bounded(m), NEW slot, NEW addr
  PROVE  Bounded(update_slot_master(m, slot, addr))
<1> DEFINE Updated(r) == IF slot \in r.start..r.end THEN [r EXCEPT !.master = addr] ELSE r
<1>1. ASSUME NEW r \in m
      PROVE  /\ Updated(r).start = r.start /\ Updated(r).end = r.end
             /\ "start" \in DOMAIN Updated(r) /\ "end" \in DOMAIN Updated(r)
  BY Zenon, <1>1 DEF Bounded
<1>2. update_slot_master(m, slot, addr) = {Updated(r) : r \in m}
  BY Zenon DEF update_slot_master
<1> HIDE DEF Updated
<1>3. ASSUME NEW p \in m, NEW q \in m, Updated(p) # Updated(q)
      PROVE  Updated(p).end < Updated(q).start \/ Updated(q).end < Updated(p).start
  BY Zenon, <1>1, <1>3 DEF Bounded, Disjoint
<1>4. Disjoint(update_slot_master(m, slot, addr))
  BY Zenon, <1>2, <1>3 DEF Disjoint
<1>5. \A u \in update_slot_master(m, slot, addr) : "start" \in DOMAIN u /\ "end" \in DOMAIN u
  BY Zenon, <1>1, <1>2
<1> QED
  BY Zenon, <1>4, <1>5 DEF Bounded

LEMMA UpdateOK ==
  ASSUME NEW m, MapOK(m), NEW slot, NEW addr \in Nodes
  PROVE  MapOK(update_slot_master(m, slot, addr))
<1>1. Bounded(m)
  BY Zenon DEF MapOK, Ranges, Bounded
<1>2. update_slot_master(m, slot, addr) \in SUBSET Ranges
  BY Zenon DEF MapOK, Ranges, update_slot_master
<1> QED
  BY Zenon, <1>1, <1>2, UpdateBounded DEF MapOK, Bounded

LEMMA RangesInit == Init => RangesInv
<1>1. Init => slot_map = Topology(owner) /\ fetched = {}
  BY Zenon DEF Init
<1> QED
  BY Zenon, <1>1, TopologyBounded DEF RangesInv

LEMMA RangesInvariance == RangesInv /\ [Next]_vars => RangesInv'
<1> SUFFICES ASSUME RangesInv, [Next]_vars PROVE RangesInv'
  BY Zenon
<1>1. CASE UNCHANGED vars
  BY Zenon, <1>1 DEF vars, RangesInv
<1>2. CASE Environment
  BY Zenon, <1>2 DEF Environment, Migrate, Migrated, Gossip, Down, CalmDown, NotServers, RangesInv
<1>3. CASE RefreshRead
  <2>1. slot_map' = slot_map /\ \E v : fetched' = {Topology(v)}
    BY Zenon, <1>3 DEF RefreshRead
  <2> QED
    BY Zenon, <2>1, TopologyBounded DEF RangesInv
<1>4. CASE RefreshInstall
  <2>1. fetched' = {} /\ slot_map' \in fetched
    BY Zenon, <1>4 DEF RefreshInstall
  <2> QED
    BY Zenon, <2>1 DEF RangesInv
<1>5. ASSUME NEW t \in Tasks, Call(t) \/ Step(t) \/ Fault(t) PROVE RangesInv'
  <2>1. CASE Read(t) \/ ReadGroup(t)
    <3>1. fetched' = fetched
      BY Zenon, <2>1 DEF Read, ReadGroup
    <3>2. slot_map' = slot_map \/ \E z, a : slot_map' = update_slot_master(slot_map, z, a)
      BY Zenon, <2>1 DEF Read, ReadGroup
    <3> QED
      BY Zenon, <3>1, <3>2, UpdateBounded DEF RangesInv
  <2>2. CASE ~(Read(t) \/ ReadGroup(t))
    <3>1. slot_map' = slot_map /\ fetched' = fetched
      BY Zenon, <1>5, <2>2 DEF Call, Step, Fault, execute_routed, GroupNext, NextGroup, Get, Send, SendAsking,
                               ReadAsking, SendGroup, ReadAsked
    <3> QED
      BY Zenon, <3>1 DEF RangesInv
  <2> QED
    BY Zenon, <2>1, <2>2
<1> QED
  BY Zenon, <1>1, <1>2, <1>3, <1>4, <1>5 DEF Next

(* binary_search_by finds the one range of a slot, whatever commands, pipelines,
   replies, refreshes, migrations and faults interleave. *)
THEOREM ClusterRangesDisjoint == Spec => []RangesDisjoint
<1>1. Init => RangesInv
  BY Zenon, RangesInit
<1>2. RangesInv => RangesDisjoint
  BY Zenon DEF RangesInv, Bounded, Disjoint, RangesDisjoint
<1> QED
  BY <1>1, <1>2, RangesInvariance, PTL DEF Spec

-----------------------------------------------------------------------------
(* What a call keeps, and when it has no connection in use *)

Fields == {"pc", "kind", "cmds", "conn", "start"}

Waits(c) == c.pc \in {"route", "group", "next", "get", "askget", "groupget"} => c.conn = NoConn

Same(d, f) == Fields \subseteq DOMAIN f /\ f.kind = d.kind /\ f.cmds = d.cmds /\ f.start = d.start /\ (Waits(d) => Waits(f))

(* A reply, or its absence, has been dealt with. *)
LEMMA SameAfterRead ==
  ASSUME NEW t, NEW d, NEW c, Fields \subseteq DOMAIN c, c.kind = d.kind, c.cmds = d.cmds, c.start = d.start,
         Fail(t, c) \/ (\E pc, to, left : Again(t, c, pc, to, left)) \/ (\E r : Deliver(t, c, r))
  PROVE  \E f : task' = [task EXCEPT ![t] = f] /\ Same(d, f)
<1>1. CASE Fail(t, c)
  <2> DEFINE f == [c EXCEPT !.pc = "idle", !.status = "error", !.conn = NoConn, !.held = NoConn]
  <2>1. task' = [task EXCEPT ![t] = f]
    BY Zenon, <1>1 DEF Fail, Go
  <2>2. Same(d, f)
    BY Zenon DEF Same, Waits, Fields
  <2> QED
    BY Zenon, <2>1, <2>2
<1>2. ASSUME NEW pc, NEW to, NEW left, Again(t, c, pc, to, left)
      PROVE  \E f : task' = [task EXCEPT ![t] = f] /\ Same(d, f)
  <2> DEFINE f == [c EXCEPT !.conn = NoConn, !.pc = pc, !.to = to, !.left = left]
  <2>1. task' = [task EXCEPT ![t] = f]
    BY Zenon, <1>2 DEF Again, Go
  <2>2. Same(d, f)
    BY Zenon DEF Same, Waits, Fields
  <2> QED
    BY Zenon, <2>1, <2>2
<1>3. ASSUME NEW r, Deliver(t, c, r)
      PROVE  \E f : task' = [task EXCEPT ![t] = f] /\ Same(d, f)
  <2> DEFINE done == [c EXCEPT !.conn = NoConn, !.results[c.i] = r]
             rest == Members(c, c.addr, c.i)
             f == [done EXCEPT !.pc = "idle", !.status = "ok"]
             g == [done EXCEPT !.pc = "groupread", !.i = First(rest)]
             h == [done EXCEPT !.pc = "next", !.held = NoConn]
  <2>1. task' = [task EXCEPT ![t] = f] \/ task' = [task EXCEPT ![t] = g] \/ task' = [task EXCEPT ![t] = h]
    BY Zenon, <1>3 DEF Deliver, Go
  <2>2. Fields \subseteq DOMAIN done /\ done.kind = d.kind /\ done.cmds = d.cmds /\ done.start = d.start /\ done.conn = NoConn
    BY Zenon DEF Fields
  <2> HIDE DEF done, rest
  <2>3. Same(d, f) /\ Same(d, g) /\ Same(d, h)
    BY Zenon, <2>2 DEF Same, Waits, Fields
  <2> HIDE DEF f, g, h
  <2> QED
    BY Zenon, <2>1, <2>3
<1> QED
  BY Zenon, <1>1, <1>2, <1>3

(* A step of a call leaves its commands and the other calls alone, and it waits for
   a connection only when it has none in use besides the guard of its group. *)
LEMMA SameCall ==
  ASSUME NEW t \in Tasks, Fields \subseteq DOMAIN task[t], Step(t) \/ Fault(t)
  PROVE  \E f : task' = [task EXCEPT ![t] = f] /\ Same(task[t], f)
<1> DEFINE d == task[t]
           Goal == \E f : task' = [task EXCEPT ![t] = f] /\ Same(d, f)
<1> SUFFICES Goal
  BY Zenon
<1>1. CASE execute_routed(t)
  <2> DEFINE addr == Route(d.cmds[1])
             f == [d EXCEPT !.pc = "idle", !.status = "error"]
             g == [d EXCEPT !.pc = "get", !.to = addr]
  <2>1. (task' = [task EXCEPT ![t] = f] \/ task' = [task EXCEPT ![t] = g]) /\ d.pc = "route"
    BY Zenon, <1>1 DEF execute_routed, Go
  <2> HIDE DEF addr
  <2>2. Same(d, f) /\ Same(d, g)
    BY Zenon, <2>1 DEF Same, Waits, Fields
  <2> HIDE DEF f, g
  <2> QED
    BY Zenon, <2>1, <2>2
<1>2. CASE GroupNext(t)
  <2> DEFINE addrs == [d.addrs EXCEPT ![d.i] = Route(d.cmds[d.i])]
             f == [d EXCEPT !.addrs = addrs, !.i = @ + 1]
             g == [d EXCEPT !.addrs = addrs, !.todo = Range(addrs), !.pc = "next"]
  <2>1. (task' = [task EXCEPT ![t] = f] \/ task' = [task EXCEPT ![t] = g]) /\ d.pc = "group"
    BY Zenon, <1>2 DEF GroupNext, Go
  <2> HIDE DEF addrs
  <2>2. Same(d, f) /\ Same(d, g)
    BY Zenon, <2>1 DEF Same, Waits, Fields
  <2> HIDE DEF f, g
  <2> QED
    BY Zenon, <2>1, <2>2
<1>3. CASE NextGroup(t)
  <2>1. PICK todo, results, addr, i :
          /\ d.pc = "next"
          /\ \/ task' = [task EXCEPT ![t] = [d EXCEPT !.pc = "idle", !.status = "ok"]]
             \/ task' = [task EXCEPT ![t] = [d EXCEPT !.todo = todo, !.results = results]]
             \/ task' = [task EXCEPT ![t] = [d EXCEPT !.todo = todo, !.addr = addr, !.i = i, !.pc = "groupget"]]
    <3>1. CASE d.todo = {}
      BY Zenon, <1>3, <3>1 DEF NextGroup, Go
    <3>2. CASE d.todo # {}
      <4>1. PICK a \in d.todo :
              task' = [task EXCEPT ![t] =
                         IF a = NoNode
                         THEN [d EXCEPT !.todo = @ \ {a},
                                        !.results = [j \in DOMAIN @ |-> IF d.addrs[j] = a THEN <<"no node">> ELSE @[j]]]
                         ELSE [d EXCEPT !.todo = @ \ {a}, !.addr = a, !.i = First(Members(d, a, 0)), !.pc = "groupget"]]
        BY Zenon, <1>3, <3>2 DEF NextGroup, Go
      <4>2. CASE a = NoNode
        BY Zenon, <1>3, <4>1, <4>2 DEF NextGroup
      <4>3. CASE a # NoNode
        BY Zenon, <1>3, <4>1, <4>3 DEF NextGroup
      <4> QED
        BY Zenon, <4>2, <4>3
    <3> QED
      BY Zenon, <3>1, <3>2
  <2> DEFINE f == [d EXCEPT !.pc = "idle", !.status = "ok"]
             g == [d EXCEPT !.todo = todo, !.results = results]
             h == [d EXCEPT !.todo = todo, !.addr = addr, !.i = i, !.pc = "groupget"]
  <2>2. Same(d, f) /\ Same(d, g) /\ Same(d, h)
    BY Zenon, <2>1 DEF Same, Waits, Fields
  <2>3. task' = [task EXCEPT ![t] = f] \/ task' = [task EXCEPT ![t] = g] \/ task' = [task EXCEPT ![t] = h]
    BY Zenon, <2>1
  <2> HIDE DEF f, g, h
  <2> QED
    BY Zenon, <2>2, <2>3
<1>4. CASE Get(t)
  <2>1. PICK got : \/ task' = [task EXCEPT ![t] = [d EXCEPT !.conn = got, !.pc = "send"]]
                   \/ task' = [task EXCEPT ![t] = [d EXCEPT !.conn = got, !.pc = "asking"]]
                   \/ task' = [task EXCEPT ![t] = [d EXCEPT !.held = got, !.pc = "groupsend"]]
    <3>1. d.pc \in {"get", "askget", "groupget"}
      BY Zenon, <1>4 DEF Get
    <3>2. CASE d.pc = "get"
      BY Zenon, <1>4, <3>2 DEF Get, Go
    <3>3. CASE d.pc = "askget"
      BY Zenon, <1>4, <3>3 DEF Get, Go
    <3>4. CASE d.pc = "groupget"
      BY Zenon, <1>4, <3>4 DEF Get, Go
    <3> QED
      BY Zenon, <3>1, <3>2, <3>3, <3>4
  <2> DEFINE f == [d EXCEPT !.conn = got, !.pc = "send"]
             g == [d EXCEPT !.conn = got, !.pc = "asking"]
             h == [d EXCEPT !.held = got, !.pc = "groupsend"]
  <2>2. Same(d, f) /\ Same(d, g) /\ Same(d, h)
    BY Zenon DEF Same, Waits, Fields
  <2>3. task' = [task EXCEPT ![t] = f] \/ task' = [task EXCEPT ![t] = g] \/ task' = [task EXCEPT ![t] = h]
    BY Zenon, <2>1
  <2> HIDE DEF f, g, h
  <2> QED
    BY Zenon, <2>2, <2>3
<1>5. CASE Send(t)
  <2>1. PICK r \in Answers(d.conn.node, d.cmds[d.i], d.conn.asking, Ok(t, d)) :
          task' = [task EXCEPT ![t] = [d EXCEPT !.conn = Sent(@, r), !.runs = Ran(d, r),
                                                !.pc = IF @ = "send" THEN "read" ELSE "askread"]]
    BY Zenon, <1>5 DEF Send, Go
  <2> DEFINE pc == IF d.pc = "send" THEN "read" ELSE "askread"
             f == [d EXCEPT !.conn = Sent(@, r), !.runs = Ran(d, r), !.pc = pc]
  <2>2. task' = [task EXCEPT ![t] = f] /\ pc \in {"read", "askread"}
    BY Zenon, <2>1
  <2> HIDE DEF pc
  <2>3. Same(d, f)
    BY Zenon, <2>2 DEF Same, Waits, Fields
  <2> QED
    BY Zenon, <2>2, <2>3
<1>6. CASE SendAsking(t) \/ ReadAsking(t)
  <2> DEFINE f == [d EXCEPT !.conn.owed = Append(@, <<"asking">>), !.conn.asking = TRUE, !.pc = "asked"]
             g == [d EXCEPT !.conn.owed = Tail(@), !.pc = "asksend"]
  <2>1. Same(d, f) /\ Same(d, g)
    BY Zenon DEF Same, Waits, Fields
  <2>2. task' = [task EXCEPT ![t] = f] \/ task' = [task EXCEPT ![t] = g]
    BY Zenon, <1>6 DEF SendAsking, ReadAsking, Go
  <2> HIDE DEF f, g
  <2> QED
    BY Zenon, <2>1, <2>2
<1>7. CASE SendGroup(t)
  <2> DEFINE rest == Members(d, d.addr, d.i)
             pc == IF rest = {} THEN "groupread" ELSE d.pc
             i == First(IF rest = {} THEN Members(d, d.addr, 0) ELSE rest)
  <2>1. PICK r : /\ d.pc = "groupsend"
                 /\ task' = [task EXCEPT ![t] = [d EXCEPT !.held = Sent(@, r), !.runs = Ran(d, r), !.i = i,
                                                          !.pc = IF rest = {} THEN "groupread" ELSE @]]
    BY Zenon, <1>7 DEF SendGroup, Go
  <2> DEFINE f == [d EXCEPT !.held = Sent(@, r), !.runs = Ran(d, r), !.i = i, !.pc = pc]
  <2>2. task' = [task EXCEPT ![t] = f] /\ pc \in {"groupread", "groupsend"}
    BY Zenon, <2>1
  <2> HIDE DEF pc, i
  <2>3. Same(d, f)
    BY Zenon, <2>2 DEF Same, Waits, Fields
  <2> QED
    BY Zenon, <2>2, <2>3
<1>8. CASE Fault(t)
  <2>1. Fail(t, d)
    BY Zenon, <1>8 DEF Fault
  <2> QED
    BY Zenon, <2>1, SameAfterRead
<1>9. CASE Read(t) \/ ReadAsked(t)
  <2> DEFINE c == [d EXCEPT !.conn.owed = Tail(@)]
  <2>1. Fields \subseteq DOMAIN c /\ c.kind = d.kind /\ c.cmds = d.cmds /\ c.start = d.start
    BY Zenon DEF Fields
  <2>2. Fail(t, c) \/ (\E pc, to, left : Again(t, c, pc, to, left)) \/ (\E r : Deliver(t, c, r))
    <3>1. CASE Read(t)
      BY Zenon, <3>1 DEF Read
    <3>2. CASE ReadAsked(t)
      BY Zenon, <3>2 DEF ReadAsked
    <3> QED
      BY Zenon, <1>9, <3>1, <3>2
  <2> HIDE DEF c
  <2> QED
    BY Zenon, <2>1, <2>2, SameAfterRead
<1>10. CASE ReadGroup(t)
  <2> DEFINE c == [d EXCEPT !.held.owed = Tail(@)]
  <2>1. Fields \subseteq DOMAIN c /\ c.kind = d.kind /\ c.cmds = d.cmds /\ c.start = d.start
    BY Zenon DEF Fields
  <2>2. (\E pc, to, left : Again(t, c, pc, to, left)) \/ (\E r : Deliver(t, c, r))
    BY Zenon, <1>10 DEF ReadGroup
  <2> HIDE DEF c
  <2> QED
    BY Zenon, <2>1, <2>2, SameAfterRead
<1> HIDE DEF Goal
<1> QED
  BY Zenon, <1>1, <1>2, <1>3, <1>4, <1>5, <1>6, <1>7, <1>8, <1>9, <1>10 DEF Step

Waiting(t) == task[t].pc \in {"get", "askget", "groupget"}

WaitInv == DOMAIN task = Tasks /\ \A t \in Tasks : Fields \subseteq DOMAIN task[t] /\ Waits(task[t])

(* A call that waits for a connection has none in use but the guard of its group. *)
LEMMA WaitInvariance == Spec => []WaitInv
<1>1. Fields \subseteq DOMAIN Idle /\ Waits(Idle)
  BY Zenon DEF Idle, Fields, Waits
<1>2. Init => WaitInv
  BY Zenon, <1>1 DEF Init, WaitInv
<1>3. ASSUME WaitInv, [Next]_vars PROVE WaitInv'
  <2>1. ASSUME NEW t \in Tasks, NEW f, task' = [task EXCEPT ![t] = f], Fields \subseteq DOMAIN f, Waits(f) PROVE WaitInv'
    <3>1. DOMAIN task' = Tasks
      BY Zenon, <1>3, <2>1 DEF WaitInv
    <3>2. ASSUME NEW u \in Tasks PROVE Fields \subseteq DOMAIN task'[u] /\ Waits(task'[u])
      <4>1. CASE u = t
        BY Zenon, <1>3, <2>1, <4>1 DEF WaitInv
      <4>2. CASE u # t
        <5>1. task'[u] = task[u]
          BY Zenon, <1>3, <2>1, <4>2 DEF WaitInv
        <5> QED
          BY Zenon, <1>3, <5>1 DEF WaitInv
      <4> QED
        BY Zenon, <4>1, <4>2
    <3> QED
      BY Zenon, <3>1, <3>2 DEF WaitInv, Waits
  <2>2. ASSUME NEW t \in Tasks, Step(t) \/ Fault(t) PROVE WaitInv'
    <3>1. PICK f : task' = [task EXCEPT ![t] = f] /\ Same(task[t], f)
      BY Zenon, <1>3, <2>2, SameCall DEF WaitInv
    <3>2. Fields \subseteq DOMAIN f /\ Waits(f)
      BY Zenon, <1>3, <3>1 DEF Same, WaitInv
    <3> QED
      BY Zenon, <2>1, <3>1, <3>2
  <2>3. ASSUME NEW t \in Tasks, Call(t) PROVE WaitInv'
    <3>1. PICK k \in Kinds : \E cmds \in [1..(IF k = "pipeline" THEN Batch ELSE 1) -> Commands], start \in {"busy", "calm"} :
            task' = [task EXCEPT ![t] =
                       [Idle EXCEPT !.pc = IF k = "pipeline" THEN "group" ELSE "route", !.kind = k, !.n = task[t].n + 1,
                                    !.cmds = cmds, !.addrs = [j \in DOMAIN cmds |-> NoNode],
                                    !.results = [j \in DOMAIN cmds |-> <<"none">>],
                                    !.runs = [j \in DOMAIN cmds |-> 0], !.start = start]]
      BY ZenonT(20), <2>3 DEF Call, Go
    <3>2. PICK cmds, start :
            task' = [task EXCEPT ![t] =
                       [Idle EXCEPT !.pc = IF k = "pipeline" THEN "group" ELSE "route", !.kind = k, !.n = task[t].n + 1,
                                    !.cmds = cmds, !.addrs = [j \in DOMAIN cmds |-> NoNode],
                                    !.results = [j \in DOMAIN cmds |-> <<"none">>],
                                    !.runs = [j \in DOMAIN cmds |-> 0], !.start = start]]
      BY Zenon, <3>1
    <3> DEFINE f == [Idle EXCEPT !.pc = IF k = "pipeline" THEN "group" ELSE "route", !.kind = k, !.n = task[t].n + 1,
                                 !.cmds = cmds, !.addrs = [j \in DOMAIN cmds |-> NoNode],
                                 !.results = [j \in DOMAIN cmds |-> <<"none">>],
                                 !.runs = [j \in DOMAIN cmds |-> 0], !.start = start]
    <3>3. Idle.conn = NoConn
      BY Zenon DEF Idle
    <3>4. DOMAIN f = DOMAIN Idle /\ f.conn = NoConn
      BY Zenon, <1>1, <3>3 DEF Fields
    <3>5. task' = [task EXCEPT ![t] = f]
      BY Zenon, <3>2
    <3> HIDE DEF f
    <3> QED
      BY Zenon, <1>1, <2>1, <3>4, <3>5 DEF Waits
  <2>4. CASE ~(\E t \in Tasks : Step(t) \/ Fault(t) \/ Call(t))
    <3>1. task' = task
      BY Zenon, <1>3, <2>4 DEF Next, vars, Environment, Migrate, Migrated, Gossip, Down, CalmDown, NotServers, RefreshRead,
                               RefreshInstall
    <3> QED
      BY Zenon, <1>3, <3>1 DEF WaitInv, Waits
  <2> QED
    BY Zenon, <2>2, <2>3, <2>4
<1> QED
  BY <1>2, <1>3, PTL DEF Spec

-----------------------------------------------------------------------------
(* Servers and pools *)

(* A server executes a command or refuses it. *)
LEMMA AnswersOK ==
  ASSUME ServersOK, NEW n \in Nodes, NEW c \in Commands, NEW asking, NEW ok,
         NEW r \in Answers(n, c, asking, ok)
  PROVE  r = ok \/ r \in Refusals
<1>1. c.slot \in Slots \cup {NoSlot}
  BY Zenon, ClusterAssumption
<1>2. CASE c.slot = NoSlot \/ n \in down
  BY Zenon, <1>2 DEF Answers, Refusals
<1>3. CASE c.slot \in Slots /\ n \notin down
  <2>1. owner[c.slot] \in Addr /\ importer[c.slot] \in Addr /\ view[n][c.slot] \in Addr
    BY Zenon, <1>3 DEF ServersOK
  <2>2. owner[c.slot] # NoNode => view[n][c.slot] \in Nodes
    BY Zenon, <1>3, <2>1 DEF ServersOK, Addr
  <2>3. importer[c.slot] # NoNode => importer[c.slot] \in Nodes
    BY Zenon, <2>1 DEF Addr
  <2> QED
    BY <1>3, <2>2, <2>3 DEF Answers, Refusals
<1> QED
  BY Zenon, <1>1, <1>2, <1>3

(* A connection goes back to its pool. *)
LEMMA PutOK ==
  ASSUME NEW d, PoolOK(d), NEW conn \in Conn
  PROVE  PoolOK(Put(d, conn))
<1>1. CASE conn.node = NoNode
  BY Zenon, <1>1 DEF Put
<1>2. CASE conn.node # NoNode
  <2>1. conn.node \in Nodes
    BY Zenon, <1>2 DEF Conn, Addr
  <2>2. d[conn.node] \in Seq(Conn)
    BY Zenon, <2>1 DEF PoolOK
  <2>3. Append(d[conn.node], conn) \in Seq(Conn)
    BY <2>2
  <2>4. Put(d, conn) = [d EXCEPT ![conn.node] = Append(d[conn.node], conn)]
    BY Zenon, <1>2 DEF Put
  <2>5. Put(d, conn) \in [Nodes -> Seq(Conn)]
    BY Zenon, <2>3, <2>4 DEF PoolOK
  <2>6. ASSUME NEW n \in Nodes, NEW k \in DOMAIN Put(d, conn)[n]
        PROVE  Put(d, conn)[n][k].node = n
    <3>1. CASE n = conn.node
      BY <2>2, <2>4, <2>6, <3>1 DEF PoolOK
    <3>2. CASE n # conn.node
      BY <2>4, <2>6, <3>2 DEF PoolOK
    <3> QED
      BY Zenon, <3>1, <3>2
  <2> QED
    BY Zenon, <2>5, <2>6 DEF PoolOK
<1> QED
  BY Zenon, <1>1, <1>2

\* What pool.get() returns.
Taken(n) == IF Len(idle[n]) = 0 THEN [NoConn EXCEPT !.node = n] ELSE idle[n][Len(idle[n])]

LEMMA NoConnOK ==
  NoConn \in Conn /\ NoConn.owed = <<>> /\ NoConn.node = NoNode /\ \A d : Put(d, NoConn) = d
BY DEF NoConn, Conn, Addr, Put

LEMMA TakenOK ==
  ASSUME PoolOK(idle), CleanPools, NEW n \in Nodes
  PROVE  Taken(n) \in Conn /\ Taken(n).node = n /\ Taken(n).owed = <<>>
<1>1. CASE Len(idle[n]) = 0
  BY Zenon, <1>1, NoConnOK DEF Taken, NoConn, Conn, Addr
<1>2. CASE Len(idle[n]) # 0
  <2>1. idle[n] \in Seq(Conn)
    BY Zenon DEF PoolOK
  <2>2. Len(idle[n]) \in DOMAIN idle[n] /\ idle[n][Len(idle[n])] \in Conn
    BY <1>2, <2>1
  <2> QED
    BY Zenon, <1>2, <2>2 DEF Taken, PoolOK, CleanPools
<1> QED
  BY Zenon, <1>1, <1>2

\* No pipeline has returned an error.
PipelinesSucceed == \A t \in Tasks : task[t].kind = "pipeline" => task[t].status # "error"

\* A step leaves the pools clean, unless it ends a call that still owes replies.
Tidy == "timeout" \notin Faults /\ PipelinesSucceed' => CleanPools'

Clean(d) == \A n \in Nodes : \A k \in DOMAIN d[n] : d[n][k].owed = <<>>

LEMMA PutClean ==
  ASSUME NEW d, PoolOK(d), Clean(d), NEW conn \in Conn, conn.owed = <<>>
  PROVE  Clean(Put(d, conn))
<1>1. CASE conn.node = NoNode
  BY Zenon, <1>1 DEF Put
<1>2. CASE conn.node # NoNode
  <2>1. conn.node \in Nodes
    BY Zenon, <1>2 DEF Conn, Addr
  <2>2. d \in [Nodes -> Seq(Conn)] /\ d[conn.node] \in Seq(Conn)
    BY Zenon, <2>1 DEF PoolOK
  <2>3. Put(d, conn) = [d EXCEPT ![conn.node] = Append(d[conn.node], conn)]
    BY Zenon, <1>2 DEF Put
  <2>4. ASSUME NEW n \in Nodes, NEW k \in DOMAIN Put(d, conn)[n]
        PROVE  Put(d, conn)[n][k].owed = <<>>
    <3>1. CASE n = conn.node
      <4>1. Put(d, conn)[n] = Append(d[n], conn)
        BY Zenon, <2>1, <2>2, <2>3, <3>1
      <4>2. (k \in DOMAIN d[n] /\ Append(d[n], conn)[k] = d[n][k]) \/ Append(d[n], conn)[k] = conn
        BY <2>2, <2>4, <3>1, <4>1
      <4> QED
        BY Zenon, <4>1, <4>2 DEF Clean
    <3>2. CASE n # conn.node
      BY Zenon, <2>2, <2>3, <2>4, <3>2 DEF Clean
    <3> QED
      BY Zenon, <3>1, <3>2
  <2> QED
    BY Zenon, <2>4 DEF Clean
<1> QED
  BY Zenon, <1>1, <1>2

LEMMA PoolsTidy ==
  ASSUME Clean(idle')
  PROVE  Tidy
BY Zenon DEF Clean, CleanPools, Tidy

LEMMA IdleKept ==
  ASSUME CleanPools, idle' = idle
  PROVE  Tidy
BY Zenon DEF CleanPools, Tidy

-----------------------------------------------------------------------------
(* Replies on their way *)

LEMMA NothingOutstanding ==
  ASSUME NEW t, NEW n, NEW runs, NEW results
  PROVE  Outstanding(t, n, <<>>, runs, results, {})
<1> DEFINE q == [k \in {} |-> 0]
<1>1. DOMAIN <<>> = {} /\ q \in [{} -> {}]
  OBVIOUS
<1> HIDE DEF q
<1> QED
  BY Zenon, <1>1 DEF Outstanding

LEMMA AllRead ==
  ASSUME NEW t, NEW n, NEW owed \in Seq(Reply), NEW runs, NEW results, Outstanding(t, n, owed, runs, results, {})
  PROVE  owed = <<>>
<1>1. PICK q \in [DOMAIN owed -> {}] : TRUE
  BY Zenon DEF Outstanding
<1>2. \A k \in DOMAIN owed : q[k] \in {}
  BY Zenon, <1>1
<1>3. DOMAIN owed = {}
  BY Zenon, <1>2
<1> QED
  BY <1>3

(* Other commands do not matter. *)
LEMMA OutstandingKept ==
  ASSUME NEW t, NEW n, NEW owed, NEW runs, NEW results, NEW S, Outstanding(t, n, owed, runs, results, S),
         NEW ran, NEW known, \A m \in S : ran[m] = runs[m] /\ known[m] = results[m]
  PROVE  Outstanding(t, n, owed, ran, known, S)
<1>1. PICK q \in [DOMAIN owed -> S] :
        /\ \A m \in S : \E k \in DOMAIN owed : q[k] = m
        /\ \A k, l \in DOMAIN owed : k < l => q[k] < q[l]
        /\ \A k \in DOMAIN owed : Replied(t, n, q[k], owed[k], runs, results)
  BY Zenon DEF Outstanding
<1>2. \A k \in DOMAIN owed : q[k] \in S
  BY Zenon, <1>1
<1>3. \A k \in DOMAIN owed : Replied(t, n, q[k], owed[k], ran, known)
  BY Zenon, <1>1, <1>2 DEF Replied
<1> QED
  BY Zenon, <1>1, <1>3 DEF Outstanding

(* A command is sent after those of S. *)
LEMMA OneMoreSent ==
  ASSUME NEW t, NEW n, NEW owed \in Seq(Reply), NEW runs, NEW results, NEW S \in SUBSET Nat,
         Outstanding(t, n, owed, runs, results, S),
         NEW j \in Nat, \A m \in S : m < j, NEW r, Replied(t, n, j, r, runs, results)
  PROVE  Outstanding(t, n, Append(owed, r), runs, results, S \cup {j})
<1> DEFINE all == Append(owed, r)
           N == Len(owed)
<1>1. PICK q \in [DOMAIN owed -> S] :
        /\ \A m \in S : \E k \in DOMAIN owed : q[k] = m
        /\ \A k, l \in DOMAIN owed : k < l => q[k] < q[l]
        /\ \A k \in DOMAIN owed : Replied(t, n, q[k], owed[k], runs, results)
  BY Zenon DEF Outstanding
<1>2. /\ N \in Nat /\ DOMAIN owed = 1..N /\ DOMAIN all = 1..(N + 1)
      /\ \A k \in 1..N : all[k] = owed[k]
      /\ all[N + 1] = r
  OBVIOUS
<1> HIDE DEF all, N
<1> DEFINE p == [k \in DOMAIN all |-> IF k = N + 1 THEN j ELSE q[k]]
<1>3. \A k \in 1..(N + 1) : k = N + 1 \/ k \in 1..N
  BY <1>2
<1>4. N + 1 \in 1..(N + 1) /\ \A k \in 1..N : k \in 1..(N + 1) /\ k # N + 1 /\ ~(N + 1 < k)
  BY <1>2
<1>5. p \in [DOMAIN all -> S \cup {j}] /\ p[N + 1] = j /\ \A k \in 1..N : p[k] = q[k] /\ q[k] \in S
  BY Zenon, <1>1, <1>2, <1>3, <1>4
<1> HIDE DEF p
<1>6. \A m \in S \cup {j} : \E k \in DOMAIN all : p[k] = m
  BY Zenon, <1>1, <1>2, <1>4, <1>5
<1>7. ASSUME NEW k \in DOMAIN all, NEW l \in DOMAIN all, k < l PROVE p[k] < p[l]
  <2>1. k \in 1..N
    BY <1>2, <1>7
  <2> QED
    BY Zenon, <1>1, <1>2, <1>3, <1>5, <1>7, <2>1
<1>8. \A k \in DOMAIN all : Replied(t, n, p[k], all[k], runs, results)
  BY Zenon, <1>1, <1>2, <1>3, <1>5
<1>9. Outstanding(t, n, all, runs, results, S \cup {j})
  BY Zenon, <1>5, <1>6, <1>7, <1>8 DEF Outstanding
<1> QED
  BY Zenon, <1>9 DEF all

(* The first reply is that to the first command. *)
LEMMA FirstRead ==
  ASSUME NEW t, NEW n, NEW owed \in Seq(Reply), NEW runs, NEW results, NEW S \in SUBSET Nat,
         Outstanding(t, n, owed, runs, results, S), NEW j \in S, \A m \in S : j <= m
  PROVE  /\ Replied(t, n, j, Head(owed), runs, results) /\ owed # <<>>
         /\ Outstanding(t, n, Tail(owed), runs, results, S \ {j})
<1> DEFINE rest == Tail(owed)
           N == Len(owed)
<1>1. PICK q \in [DOMAIN owed -> S] :
        /\ \A m \in S : \E k \in DOMAIN owed : q[k] = m
        /\ \A k, l \in DOMAIN owed : k < l => q[k] < q[l]
        /\ \A k \in DOMAIN owed : Replied(t, n, q[k], owed[k], runs, results)
  BY Zenon DEF Outstanding
<1>2. PICK f \in DOMAIN owed : q[f] = j
  BY Zenon, <1>1
<1>3. N \in Nat /\ N >= 1 /\ DOMAIN owed = 1..N /\ owed # <<>> /\ Head(owed) = owed[1]
  BY <1>2
<1>4. DOMAIN rest = 1..(N - 1) /\ \A k \in 1..(N - 1) : rest[k] = owed[k + 1]
  BY <1>3
<1> HIDE DEF rest, N
<1>5. f = 1
  <2>1. 1 \in DOMAIN owed
    BY <1>3
  <2>2. q[1] \in S /\ (1 < f => q[1] < j)
    BY Zenon, <1>1, <1>2, <2>1
  <2>3. j <= q[1] /\ j \in Nat /\ q[1] \in Nat
    BY Zenon, <2>2
  <2> QED
    BY <1>2, <1>3, <2>2, <2>3
<1> DEFINE p == [k \in 1..(N - 1) |-> q[k + 1]]
<1>6. \A k \in 1..(N - 1) : k + 1 \in DOMAIN owed /\ q[k + 1] \in S \ {j} /\ Replied(t, n, q[k + 1], rest[k], runs, results)
  <2> TAKE k \in 1..(N - 1)
  <2>1. k + 1 \in DOMAIN owed /\ 1 \in DOMAIN owed /\ 1 < k + 1
    BY <1>3
  <2>2. q[1] < q[k + 1] /\ q[k + 1] \in S /\ Replied(t, n, q[k + 1], owed[k + 1], runs, results)
    BY Zenon, <1>1, <2>1
  <2>3. q[k + 1] # j
    BY <1>2, <1>5, <2>2
  <2> QED
    BY Zenon, <1>4, <2>1, <2>2, <2>3
<1>7. p \in [DOMAIN rest -> S \ {j}]
  BY Zenon, <1>4, <1>6
<1>8. ASSUME NEW m \in S \ {j} PROVE \E k \in DOMAIN rest : p[k] = m
  <2>1. PICK l \in DOMAIN owed : q[l] = m
    BY Zenon, <1>1
  <2>2. l # 1
    BY Zenon, <1>2, <1>5, <1>8, <2>1
  <2>3. l - 1 \in 1..(N - 1) /\ (l - 1) + 1 = l
    BY <1>3, <2>2
  <2> QED
    BY Zenon, <1>4, <2>1, <2>3
<1>9. ASSUME NEW k \in DOMAIN rest, NEW l \in DOMAIN rest, k < l PROVE p[k] < p[l]
  <2>1. k + 1 < l + 1
    BY <1>3, <1>4, <1>9
  <2> QED
    BY Zenon, <1>1, <1>4, <1>6, <2>1
<1>10. \A k \in DOMAIN rest : Replied(t, n, p[k], rest[k], runs, results)
  BY Zenon, <1>4, <1>6
<1> HIDE DEF p
<1>11. Outstanding(t, n, rest, runs, results, S \ {j})
  BY Zenon, <1>7, <1>8, <1>9, <1>10 DEF Outstanding
<1> QED
  BY Zenon, <1>1, <1>2, <1>3, <1>5, <1>11 DEF rest

-----------------------------------------------------------------------------
(* The steps of a call *)

(* One call changes, and becomes f. *)
LEMMA CallChanges ==
  ASSUME CallsOK, NEW t \in Tasks, NEW f, CallOK(t, f), task' = [task EXCEPT ![t] = f]
  PROVE  CallsOK'
<1>1. f \in CallType
  BY Zenon DEF CallOK
<1>2. task' \in [Tasks -> CallType]
  BY Zenon, <1>1 DEF CallsOK
<1>3. ASSUME NEW u \in Tasks PROVE CallOK(u, task'[u])
  BY Zenon DEF CallsOK
<1> QED
  BY Zenon, <1>2, <1>3 DEF CallsOK

(* What is known of the commands stays true while they stay as they are. *)
LEMMA ToldKept ==
  ASSUME NEW t, NEW c, Told(t, c), NEW f,
         f.n = c.n, f.cmds = c.cmds, f.addrs = c.addrs, f.todo = c.todo, f.runs = c.runs, f.results = c.results
  PROVE  Told(t, f)
BY ZenonT(40) DEF Told, Fresh

\* Call f is call c, but for the connection of execute_on.
SameCommands(c, f) ==
  /\ f.n = c.n /\ f.cmds = c.cmds /\ f.addrs = c.addrs /\ f.todo = c.todo /\ f.runs = c.runs /\ f.results = c.results
  /\ f.kind = c.kind /\ f.held = c.held /\ f.i = c.i /\ f.addr = c.addr

LEMMA InHandKept ==
  ASSUME NEW t, NEW c, Told(t, c), InHand(t, c), NEW f, SameCommands(c, f)
  PROVE  Told(t, f) /\ InHand(t, f)
<1>1. Told(t, f)
  BY Zenon, ToldKept DEF SameCommands
<1>2. Group(f) = Group(c)
  BY Zenon DEF SameCommands, Group
<1> QED
  BY Zenon, <1>1, <1>2 DEF InHand, InGroup, Holds, SameCommands

LEMMA IdleOK ==
  ASSUME NEW t \in Tasks
  PROVE  CallOK(t, Idle)
<1>1. Idle \in CallType
  <2>1. MAX_REDIRECTS \in Int /\ 0 \in Nat /\ 1 \in Nat
    BY ClusterAssumption
  <2>2. <<>> \in Seq(Commands) /\ <<>> \in Seq(Addr) /\ <<>> \in Seq(Reply) /\ <<>> \in Seq(Nat)
    OBVIOUS
  <2> QED
    BY Zenon, <2>1, <2>2, NoConnOK DEF Idle, CallType, Addr
<1>2. Told(t, Idle)
  BY DEF Told, Idle
<1> QED
  BY Zenon, <1>1, <1>2 DEF CallOK, NoGuards, Idle

LEMMA CallStarts ==
  ASSUME NEW t \in Tasks, NEW n \in Nat, NEW k \in {"execute", "pipeline"}, NEW len \in Nat, len # 0, k = "execute" => len = 1,
         NEW cmds \in [1..len -> Commands], NEW start \in {"busy", "calm"}
  PROVE  CallOK(t, [Idle EXCEPT !.pc = IF k = "pipeline" THEN "group" ELSE "route", !.kind = k, !.n = n, !.cmds = cmds,
                                !.addrs = [j \in DOMAIN cmds |-> NoNode],
                                !.results = [j \in DOMAIN cmds |-> <<"none">>],
                                !.runs = [j \in DOMAIN cmds |-> 0], !.start = start])
<1> DEFINE addrs == [j \in DOMAIN cmds |-> NoNode]
           results == [j \in DOMAIN cmds |-> <<"none">>]
           runs == [j \in DOMAIN cmds |-> 0]
           pc == IF k = "pipeline" THEN "group" ELSE "route"
           f == [Idle EXCEPT !.pc = pc, !.kind = k, !.n = n, !.cmds = cmds, !.addrs = addrs, !.results = results,
                             !.runs = runs, !.start = start]
<1>1. cmds \in Seq(Commands) /\ Len(cmds) = len /\ DOMAIN cmds = 1..len /\ 1 \in DOMAIN cmds
  <2>1. cmds = [j \in 1..len |-> cmds[j]]
    BY Zenon
  <2>2. [j \in 1..len |-> cmds[j]] \in Seq(Commands) /\ Len([j \in 1..len |-> cmds[j]]) = len
    OBVIOUS
  <2> QED
    BY <2>1, <2>2
<1>2. addrs \in Seq(Addr) /\ results \in Seq(Reply) /\ runs \in Seq(Nat)
  BY <1>1 DEF Addr, Reply
<1>3. /\ DOMAIN addrs = DOMAIN cmds /\ DOMAIN results = DOMAIN cmds /\ DOMAIN runs = DOMAIN cmds
      /\ \A j \in DOMAIN cmds : runs[j] = 0 /\ results[j] = <<"none">>
  BY Zenon
<1>4. pc \in {"route", "group"} /\ (pc = "route" => k = "execute" /\ len = 1) /\ (pc = "group" => k = "pipeline")
  BY Zenon
<1>5. Idle \in CallType
  BY Zenon, IdleOK DEF CallOK
<1> HIDE DEF addrs, results, runs, pc
<1>6. f \in CallType
  BY ZenonT(30), <1>1, <1>2, <1>4, <1>5 DEF CallType
<1>7. /\ f.pc = pc /\ f.cmds = cmds /\ f.addrs = addrs /\ f.results = results /\ f.runs = runs /\ f.kind = k
      /\ NoGuards(f) /\ f.i = 1 /\ f.todo = {}
  BY ZenonT(30), <1>5 DEF CallType, Idle, NoGuards
<1> HIDE DEF f
<1>8. \A j \in DOMAIN f.cmds : Fresh(f, j)
  BY Zenon, <1>3, <1>7 DEF Fresh
<1>9. Told(t, f)
  <2>1. <<"none">>[1] # "ok" /\ 0 <= 1
    OBVIOUS
  <2> QED
    BY Zenon, <1>3, <1>7, <1>8, <2>1 DEF Told
<1>10. f.pc = "route" => InHand(t, f) /\ f.kind = "execute"
  BY Zenon, <1>1, <1>4, <1>7, NoConnOK DEF InHand, NoGuards
<1>11. CallOK(t, f)
  BY Zenon, <1>1, <1>4, <1>6, <1>7, <1>8, <1>9, <1>10 DEF CallOK
<1> QED
  BY Zenon, <1>11 DEF f, addrs, results, runs, pc

(* `?` and `return Err`: a call may fail at any time. *)
LEMMA FailOK ==
  ASSUME NEW t \in Tasks, NEW c \in CallType, Told(t, c)
  PROVE  CallOK(t, [c EXCEPT !.pc = "idle", !.status = "error", !.conn = NoConn, !.held = NoConn])
<1> DEFINE f == [c EXCEPT !.pc = "idle", !.status = "error", !.conn = NoConn, !.held = NoConn]
<1>1. f \in CallType
  BY Zenon, NoConnOK DEF CallType
<1>2. /\ f.pc = "idle" /\ NoGuards(f) /\ f.n = c.n /\ f.cmds = c.cmds /\ f.addrs = c.addrs /\ f.todo = c.todo
      /\ f.runs = c.runs /\ f.results = c.results
  BY Zenon DEF CallType, NoGuards
<1> HIDE DEF f
<1>3. Told(t, f)
  BY Zenon, <1>2, ToldKept
<1>4. CallOK(t, f)
  BY Zenon, <1>1, <1>2, <1>3 DEF CallOK
<1> QED
  BY Zenon, <1>4 DEF f

LEMMA RoutedOK ==
  ASSUME NEW t \in Tasks, NEW c, CallOK(t, c), c.pc = "route", NEW a \in Addr
  PROVE  /\ CallOK(t, [c EXCEPT !.pc = "idle", !.status = "error"])
         /\ a # NoNode => CallOK(t, [c EXCEPT !.pc = "get", !.to = a])
<1>1. c \in CallType /\ Told(t, c) /\ InHand(t, c) /\ NoGuards(c) /\ c.kind = "execute" /\ Fresh(c, 1) /\ c.i = 1
  BY Zenon DEF CallOK, InHand, InGroup
<1>2. CallOK(t, [c EXCEPT !.pc = "idle", !.status = "error"])
  <2> DEFINE f == [c EXCEPT !.pc = "idle", !.status = "error"]
  <2>1. f \in CallType /\ f.pc = "idle" /\ NoGuards(f) /\ SameCommands(c, f)
    BY Zenon, <1>1 DEF CallType, NoGuards, SameCommands
  <2> HIDE DEF f
  <2>2. CallOK(t, f)
    BY Zenon, <1>1, <2>1, InHandKept DEF CallOK
  <2> QED
    BY Zenon, <2>2 DEF f
<1>3. ASSUME a # NoNode PROVE CallOK(t, [c EXCEPT !.pc = "get", !.to = a])
  <2> DEFINE f == [c EXCEPT !.pc = "get", !.to = a]
  <2>1. f \in CallType /\ f.pc = "get" /\ f.to = a /\ f.conn = NoConn /\ SameCommands(c, f)
    BY Zenon, <1>1 DEF CallType, NoGuards, SameCommands
  <2> HIDE DEF f
  <2>2. Told(t, f) /\ InHand(t, f) /\ Fresh(f, f.i) /\ f.to \in Nodes
    BY Zenon, <1>1, <1>3, <2>1, InHandKept DEF Fresh, SameCommands, Addr
  <2>3. CallOK(t, f)
    BY Zenon, <2>1, <2>2 DEF CallOK, OnNode
  <2> QED
    BY Zenon, <2>3 DEF f
<1> QED
  BY Zenon, <1>2, <1>3

LEMMA GotOK ==
  ASSUME NEW t \in Tasks, NEW c, CallOK(t, c), NEW got \in Conn, got.node \in Nodes, got.owed = <<>>,
         NEW pc \in {"send", "asking"}, c.pc \in {"get", "askget"}
  PROVE  CallOK(t, [c EXCEPT !.conn = got, !.pc = pc])
<1> DEFINE f == [c EXCEPT !.conn = got, !.pc = pc]
<1>1. c \in CallType /\ Told(t, c) /\ InHand(t, c) /\ Fresh(c, c.i) /\ c.to \in Nodes
  BY Zenon DEF CallOK, OnNode
<1>2. f \in CallType /\ f.pc = pc /\ f.conn = got /\ f.to = c.to /\ SameCommands(c, f)
  BY Zenon, <1>1 DEF CallType, SameCommands
<1> HIDE DEF f
<1>3. Told(t, f) /\ InHand(t, f) /\ Fresh(f, f.i)
  BY Zenon, <1>1, <1>2, InHandKept DEF Fresh, SameCommands
<1>4. CallOK(t, f)
  BY Zenon, <1>1, <1>2, <1>3 DEF CallOK, OnNode
<1> QED
  BY Zenon, <1>4 DEF f

LEMMA GotGuardOK ==
  ASSUME NEW t \in Tasks, NEW c, CallOK(t, c), c.pc = "groupget", NEW got \in Conn, got.node = c.addr, got.owed = <<>>
  PROVE  CallOK(t, [c EXCEPT !.held = got, !.pc = "groupsend"])
<1> DEFINE f == [c EXCEPT !.held = got, !.pc = "groupsend"]
<1>1. c \in CallType /\ Told(t, c) /\ NoGuards(c) /\ InGroup(c) /\ \A j \in Group(c) : c.i <= j /\ Fresh(c, j)
  BY Zenon DEF CallOK
<1>2. /\ f \in CallType /\ f.pc = "groupsend" /\ f.held = got /\ f.conn = NoConn
      /\ f.n = c.n /\ f.cmds = c.cmds /\ f.addrs = c.addrs /\ f.todo = c.todo /\ f.runs = c.runs /\ f.results = c.results
      /\ f.kind = c.kind /\ f.i = c.i /\ f.addr = c.addr
  BY Zenon, <1>1 DEF CallType, NoGuards
<1> HIDE DEF f
<1>3. Told(t, f) /\ Group(f) = Group(c) /\ InGroup(f) /\ \A j \in Group(f) : Fresh(f, j)
  BY ZenonT(50), <1>1, <1>2, ToldKept DEF Group, InGroup, Fresh
<1>4. {m \in Group(f) : m < f.i} = {}
  <2>1. f.i \in Nat /\ \A m \in Group(f) : m \in Nat
    BY <1>2 DEF CallType, Group
  <2>2. \A m \in Group(f) : f.i <= m
    BY Zenon, <1>1, <1>2, <1>3
  <2> QED
    BY <2>1, <2>2
<1>5. Holds(t, f, {m \in Group(f) : m < f.i})
  BY Zenon, <1>2, <1>4, NothingOutstanding DEF Holds
<1>6. CallOK(t, f)
  BY Zenon, <1>2, <1>3, <1>5 DEF CallOK
<1> QED
  BY Zenon, <1>6 DEF f

LEMMA ReplyTyped ==
  ASSUME NEW t \in Tasks, NEW n \in Nat, NEW i \in Nat
  PROVE  <<"ok", t, n, i>> \in Reply /\ Refusals \subseteq Reply /\ <<"asking">> \in Reply /\ <<"none">> \in Reply
BY Zenon DEF Reply

(* A command is sent and answered. *)
LEMMA AnsweredOK ==
  ASSUME NEW t \in Tasks, NEW c \in CallType, Told(t, c), c.i \in DOMAIN c.cmds, Fresh(c, c.i), c.addrs[c.i] \notin c.todo,
         NEW r, r = Ok(t, c) \/ r \in Refusals
  PROVE  /\ r \in Reply /\ Replied(t, c.n, c.i, r, Ran(c, r), c.results)
         /\ Ran(c, r) \in Seq(Nat) /\ DOMAIN Ran(c, r) = DOMAIN c.runs
         /\ \A m \in DOMAIN c.runs : m # c.i => Ran(c, r)[m] = c.runs[m]
         /\ \A f : f.n = c.n /\ f.cmds = c.cmds /\ f.addrs = c.addrs /\ f.todo = c.todo /\ f.results = c.results
                     /\ f.runs = Ran(c, r) => Told(t, f)
<1> DEFINE x == IF r[1] = "ok" THEN c.runs[c.i] + 1 ELSE c.runs[c.i]
<1>1. c.n \in Nat /\ c.i \in Nat /\ c.runs \in Seq(Nat) /\ c.i \in DOMAIN c.runs /\ c.runs[c.i] = 0
  BY Zenon DEF CallType, Told, Fresh
<1>2. r \in Reply
  BY Zenon, <1>1, ReplyTyped DEF Ok
<1>3. (r = <<"ok", t, c.n, c.i>> /\ x = 1) \/ (r \in Refusals /\ x = 0)
  <2>1. CASE r = Ok(t, c)
    BY <1>1, <2>1 DEF Ok
  <2>2. CASE r \in Refusals
    <3>1. r[1] # "ok"
      BY <2>2 DEF Refusals
    <3> QED
      BY Zenon, <1>1, <2>2, <3>1
  <2> QED
    BY Zenon, <2>1, <2>2
<1>4. Ran(c, r) = [c.runs EXCEPT ![c.i] = x]
  BY Zenon DEF Ran
<1>5. x \in Nat /\ x <= 1
  BY <1>3
<1> HIDE DEF x
<1>6. Ran(c, r) \in Seq(Nat)
  BY <1>1, <1>4, <1>5
<1>7. /\ DOMAIN Ran(c, r) = DOMAIN c.runs /\ Ran(c, r)[c.i] = x
      /\ \A m \in DOMAIN c.runs : m # c.i => Ran(c, r)[m] = c.runs[m]
  BY Zenon, <1>1, <1>4
<1>8. Replied(t, c.n, c.i, r, Ran(c, r), c.results)
  BY Zenon, <1>3, <1>7 DEF Replied, Fresh
<1>9. ASSUME NEW f, f.n = c.n, f.cmds = c.cmds, f.addrs = c.addrs, f.todo = c.todo, f.results = c.results, f.runs = Ran(c, r)
      PROVE  Told(t, f)
  <2>1. \A a \in f.todo : \E j \in DOMAIN f.cmds : f.addrs[j] = a
    BY Zenon, <1>9 DEF Told
  <2>2. DOMAIN f.addrs = DOMAIN f.cmds /\ DOMAIN f.runs = DOMAIN f.cmds /\ DOMAIN f.results = DOMAIN f.cmds
    BY Zenon, <1>7, <1>9 DEF Told
  <2>3. ASSUME NEW j \in DOMAIN f.cmds
        PROVE  /\ f.runs[j] <= 1
               /\ f.results[j][1] = "ok" => f.results[j] = <<"ok", t, f.n, j>> /\ f.runs[j] = 1
               /\ f.addrs[j] \in f.todo => Fresh(f, j)
    <3>1. CASE j = c.i
      <4>1. f.results[j][1] # "ok"
        BY <1>9, <3>1 DEF Fresh
      <4> QED
        BY Zenon, <1>5, <1>7, <1>9, <3>1, <4>1
    <3>2. CASE j # c.i
      <4>1. j \in DOMAIN c.cmds /\ j \in DOMAIN c.runs
        BY Zenon, <1>9 DEF Told
      <4>2. f.runs[j] = c.runs[j]
        BY Zenon, <1>7, <1>9, <3>2, <4>1
      <4> QED
        BY ZenonT(20), <1>9, <4>1, <4>2 DEF Told, Fresh
    <3> QED
      BY Zenon, <3>1, <3>2
  <2> QED
    BY Zenon, <2>1, <2>2, <2>3 DEF Told
<1> QED
  BY Zenon, <1>2, <1>6, <1>7, <1>8, <1>9

(* The command in hand is one of the call's, in no group that is still to do. *)
LEMMA HandOK ==
  ASSUME NEW t, NEW c \in CallType, InHand(t, c)
  PROVE  c.i \in DOMAIN c.cmds /\ c.addrs[c.i] \notin c.todo /\ c.cmds[c.i] \in Commands
<1>1. c.cmds \in Seq(Commands)
  BY Zenon DEF CallType
<1>2. CASE c.i = 1 /\ Len(c.cmds) = 1 /\ c.todo = {}
  BY SMTT(20), <1>1, <1>2
<1>3. CASE InGroup(c)
  BY <1>1, <1>3 DEF InGroup, Group
<1> QED
  BY Zenon, <1>2, <1>3 DEF InHand

LEMMA SentOK ==
  ASSUME NEW t \in Tasks, NEW c, CallOK(t, c), c.pc \in {"send", "asksend"}, NEW r,
         r = Ok(t, c) \/ r \in Refusals
  PROVE  CallOK(t, [c EXCEPT !.conn = Sent(@, r), !.runs = Ran(c, r), !.pc = IF @ = "send" THEN "read" ELSE "askread"])
<1> DEFINE f == [c EXCEPT !.conn = Sent(@, r), !.runs = Ran(c, r), !.pc = IF @ = "send" THEN "read" ELSE "askread"]
<1>1. /\ c \in CallType /\ Told(t, c) /\ InHand(t, c) /\ Fresh(c, c.i) /\ c.conn.node \in Nodes /\ c.conn.owed = <<>>
      /\ (c.pc = "send" => c.to \in Nodes)
  BY Zenon DEF CallOK, OnNode
<1>2. c.conn \in Conn /\ c.i \in DOMAIN c.cmds /\ c.addrs[c.i] \notin c.todo /\ DOMAIN c.runs = DOMAIN c.cmds
  BY Zenon, <1>1, HandOK DEF CallType, Told
<1>3. /\ r \in Reply /\ Replied(t, c.n, c.i, r, Ran(c, r), c.results) /\ Ran(c, r) \in Seq(Nat)
      /\ \A m \in DOMAIN c.runs : m # c.i => Ran(c, r)[m] = c.runs[m]
      /\ \A g : g.n = c.n /\ g.cmds = c.cmds /\ g.addrs = c.addrs /\ g.todo = c.todo /\ g.results = c.results
                  /\ g.runs = Ran(c, r) => Told(t, g)
  BY ZenonT(20), <1>1, <1>2, AnsweredOK
<1>4. Append(c.conn.owed, r) = <<r>> /\ <<r>> \in Seq(Reply) /\ Len(<<r>>) = 1 /\ Head(<<r>>) = r
  BY <1>1, <1>3
<1>5. Sent(c.conn, r) \in Conn /\ Sent(c.conn, r).owed = <<r>> /\ Sent(c.conn, r).node = c.conn.node
  BY Zenon, <1>2, <1>4 DEF Sent, Conn
<1>6. f \in CallType
  BY Zenon, <1>1, <1>3, <1>5 DEF CallType
<1>7. /\ f.pc \in {"read", "askread"} /\ f.conn = Sent(c.conn, r) /\ f.runs = Ran(c, r) /\ f.to = c.to
      /\ (f.pc = "read" => c.pc = "send")
      /\ f.n = c.n /\ f.cmds = c.cmds /\ f.addrs = c.addrs /\ f.todo = c.todo /\ f.results = c.results
      /\ f.kind = c.kind /\ f.held = c.held /\ f.i = c.i /\ f.addr = c.addr
  BY Zenon, <1>1 DEF CallType
<1> HIDE DEF f
<1>8. Told(t, f)
  BY Zenon, <1>3, <1>7
<1>9. InHand(t, f)
  <2>1. CASE c.kind = "execute" /\ c.held = NoConn /\ c.i = 1 /\ Len(c.cmds) = 1 /\ c.todo = {}
    BY Zenon, <1>7, <2>1 DEF InHand
  <2>2. CASE InGroup(c) /\ Holds(t, c, {m \in Group(c) : m > c.i})
    <3>1. Group(f) = Group(c) /\ InGroup(f)
      BY Zenon, <1>7, <2>2 DEF Group, InGroup
    <3>2. c.i \in Nat /\ \A m \in Group(c) : m \in DOMAIN c.runs
      BY Zenon, <1>1, <1>2 DEF CallType, Group
    <3>3. \A m \in Group(c) : m > c.i => Ran(c, r)[m] = c.runs[m]
      BY <1>3, <3>2
    <3> DEFINE S == {m \in Group(c) : m > c.i}
    <3>4. Outstanding(t, c.n, c.held.owed, c.runs, c.results, S) /\ \A m \in S : Ran(c, r)[m] = c.runs[m]
      BY Zenon, <2>2, <3>3 DEF Holds
    <3>5. S = {m \in Group(f) : m > f.i}
      BY Zenon, <1>7, <3>1
    <3> HIDE DEF S
    <3>6. Outstanding(t, c.n, c.held.owed, Ran(c, r), c.results, S)
      BY Zenon, <3>4, OutstandingKept
    <3> QED
      BY Zenon, <1>7, <2>2, <3>1, <3>5, <3>6 DEF InHand, Holds
  <2> QED
    BY Zenon, <1>1, <2>1, <2>2 DEF InHand
<1>10. CallOK(t, f)
  BY Zenon, <1>1, <1>3, <1>4, <1>5, <1>6, <1>7, <1>8, <1>9 DEF CallOK, OnNode
<1> QED
  BY Zenon, <1>10 DEF f

LEMMA AskingOK ==
  ASSUME NEW t \in Tasks, NEW c, CallOK(t, c), c.pc = "asking"
  PROVE  CallOK(t, [c EXCEPT !.conn.owed = Append(@, <<"asking">>), !.conn.asking = TRUE, !.pc = "asked"])
<1> DEFINE k == [c.conn EXCEPT !.owed = Append(@, <<"asking">>), !.asking = TRUE]
<1> DEFINE f == [c EXCEPT !.conn = k, !.pc = "asked"]
<1>1. c \in CallType /\ Told(t, c) /\ InHand(t, c) /\ Fresh(c, c.i) /\ c.conn.node \in Nodes /\ c.conn.owed = <<>>
  BY Zenon DEF CallOK, OnNode
<1>2. c.conn \in Conn
  BY Zenon, <1>1 DEF CallType
<1>3. Append(c.conn.owed, <<"asking">>) = <<<<"asking">>>> /\ <<<<"asking">>>> \in Seq(Reply)
  BY <1>1 DEF Reply
<1>4. k \in Conn /\ k.owed = <<<<"asking">>>> /\ k.node = c.conn.node
  BY Zenon, <1>2, <1>3 DEF Conn
<1>5. [c EXCEPT !.conn.owed = Append(@, <<"asking">>), !.conn.asking = TRUE, !.pc = "asked"] = f
  BY Zenon, <1>1, <1>2 DEF CallType
<1> HIDE DEF k
<1>6. f \in CallType /\ f.pc = "asked" /\ f.conn = k /\ SameCommands(c, f)
  BY Zenon, <1>1, <1>4 DEF CallType, SameCommands
<1> HIDE DEF f
<1>7. Told(t, f) /\ InHand(t, f) /\ Fresh(f, f.i)
  BY Zenon, <1>1, <1>6, InHandKept DEF Fresh, SameCommands
<1>8. CallOK(t, f)
  BY Zenon, <1>1, <1>4, <1>6, <1>7 DEF CallOK, OnNode
<1> QED
  BY Zenon, <1>5, <1>8

LEMMA AskedOK ==
  ASSUME NEW t \in Tasks, NEW c, CallOK(t, c), c.pc = "asked"
  PROVE  CallOK(t, [c EXCEPT !.conn.owed = Tail(@), !.pc = "asksend"])
<1> DEFINE k == [c.conn EXCEPT !.owed = Tail(@)]
<1> DEFINE f == [c EXCEPT !.conn = k, !.pc = "asksend"]
<1>1. c \in CallType /\ Told(t, c) /\ InHand(t, c) /\ Fresh(c, c.i) /\ c.conn.node \in Nodes /\ c.conn.owed = <<<<"asking">>>>
  BY Zenon DEF CallOK, OnNode
<1>2. c.conn \in Conn
  BY Zenon, <1>1 DEF CallType
<1>3. Tail(c.conn.owed) = <<>> /\ <<>> \in Seq(Reply)
  BY <1>1
<1>4. k \in Conn /\ k.owed = <<>> /\ k.node = c.conn.node
  BY Zenon, <1>2, <1>3 DEF Conn
<1>5. [c EXCEPT !.conn.owed = Tail(@), !.pc = "asksend"] = f
  BY Zenon, <1>1, <1>2 DEF CallType
<1> HIDE DEF k
<1>6. f \in CallType /\ f.pc = "asksend" /\ f.conn = k /\ SameCommands(c, f)
  BY Zenon, <1>1, <1>4 DEF CallType, SameCommands
<1> HIDE DEF f
<1>7. Told(t, f) /\ InHand(t, f) /\ Fresh(f, f.i)
  BY Zenon, <1>1, <1>6, InHandKept DEF Fresh, SameCommands
<1>8. CallOK(t, f)
  BY Zenon, <1>1, <1>4, <1>6, <1>7 DEF CallOK, OnNode
<1> QED
  BY Zenon, <1>5, <1>8

\* Call c has read reply r to its command in hand.
HasRead(t, c, r) ==
  /\ c \in CallType /\ Told(t, c) /\ InHand(t, c) /\ c.conn \in Conn /\ c.conn.owed = <<>>
  /\ Replied(t, c.n, c.i, r, c.runs, c.results)

LEMMA OneReply ==
  ASSUME NEW s \in Seq(Reply), Len(s) = 1
  PROVE  Tail(s) = <<>> /\ <<>> \in Seq(Reply)
<1>1. s # <<>>
  OBVIOUS
<1>2. Tail(s) \in Seq(Reply)
  BY <1>1
<1>3. Len(Tail(s)) = 0
  OBVIOUS
<1>4. \A u \in Seq(Reply) : Len(u) = 0 => u = <<>>
  OBVIOUS
<1>5. <<>> \in Seq(Reply)
  OBVIOUS
<1> QED
  BY Zenon, <1>2, <1>3, <1>4, <1>5

LEMMA ReadOK ==
  ASSUME NEW t \in Tasks, NEW d, CallOK(t, d), d.pc \in {"read", "askread"},
         NEW c, c = [d EXCEPT !.conn.owed = Tail(@)], NEW r, r = Head(d.conn.owed)
  PROVE  HasRead(t, c, r) /\ SameCommands(d, c)
<1> DEFINE k == [d.conn EXCEPT !.owed = Tail(@)]
<1>1. /\ d \in CallType /\ Told(t, d) /\ InHand(t, d) /\ Len(d.conn.owed) = 1
      /\ Replied(t, d.n, d.i, Head(d.conn.owed), d.runs, d.results)
  BY Zenon DEF CallOK, OnNode
<1>2. d.conn \in Conn /\ d.conn.owed \in Seq(Reply)
  BY Zenon, <1>1 DEF CallType, Conn
<1>3. Tail(d.conn.owed) = <<>> /\ <<>> \in Seq(Reply)
  BY Zenon, <1>1, <1>2, OneReply
<1>4. k \in Conn /\ k.owed = <<>>
  BY Zenon, <1>2, <1>3 DEF Conn
<1>5. c = [d EXCEPT !.conn = k]
  BY Zenon, <1>1, <1>2 DEF CallType
<1> HIDE DEF k
<1>6. c \in CallType /\ c.conn = k /\ SameCommands(d, c)
  BY ZenonT(30), <1>1, <1>4, <1>5 DEF CallType, SameCommands
<1>7. Told(t, c) /\ InHand(t, c) /\ Replied(t, c.n, c.i, r, c.runs, c.results)
  BY Zenon, <1>1, <1>6, InHandKept DEF SameCommands
<1> QED
  BY Zenon, <1>4, <1>6, <1>7 DEF HasRead

LEMMA ReadGroupOK ==
  ASSUME NEW t \in Tasks, NEW d, CallOK(t, d), d.pc = "groupread",
         NEW c, c = [d EXCEPT !.held.owed = Tail(@)], NEW r, r = Head(d.held.owed)
  PROVE  HasRead(t, c, r)
<1> DEFINE k == [d.held EXCEPT !.owed = Tail(@)]
           S == {m \in Group(d) : m >= d.i}
<1>1. d \in CallType /\ Told(t, d) /\ InGroup(d) /\ Holds(t, d, S) /\ d.conn = NoConn
  BY Zenon DEF CallOK
<1>2. d.held \in Conn /\ d.held.owed \in Seq(Reply) /\ d.i \in Nat /\ Group(d) \subseteq Nat
  <2>1. d.cmds \in Seq(Commands)
    BY Zenon, <1>1 DEF CallType
  <2>2. Group(d) \subseteq Nat
    BY <2>1 DEF Group
  <2> QED
    BY Zenon, <1>1, <2>2 DEF CallType, Conn
<1>3. d.i \in S /\ S \in SUBSET Nat /\ (\A m \in S : d.i <= m) /\ S \ {d.i} = {m \in Group(d) : m > d.i}
  <2>1. d.i \in Group(d)
    BY Zenon, <1>1 DEF InGroup
  <2> QED
    BY <1>2, <2>1
<1>4. Outstanding(t, d.n, d.held.owed, d.runs, d.results, S)
  BY Zenon, <1>1 DEF Holds
<1> HIDE DEF S
<1>5. /\ Replied(t, d.n, d.i, r, d.runs, d.results) /\ d.held.owed # <<>>
      /\ Outstanding(t, d.n, Tail(d.held.owed), d.runs, d.results, S \ {d.i})
  BY Zenon, <1>2, <1>3, <1>4, FirstRead
<1>6. Tail(d.held.owed) \in Seq(Reply)
  BY <1>2, <1>5
<1>7. k \in Conn /\ k.owed = Tail(d.held.owed) /\ k.node = d.held.node
  BY Zenon, <1>2, <1>6 DEF Conn
<1>8. c = [d EXCEPT !.held = k]
  BY Zenon, <1>1, <1>2 DEF CallType
<1> HIDE DEF k
<1>9. /\ c \in CallType /\ c.held = k /\ c.conn = NoConn
      /\ c.n = d.n /\ c.cmds = d.cmds /\ c.addrs = d.addrs /\ c.todo = d.todo /\ c.runs = d.runs /\ c.results = d.results
      /\ c.kind = d.kind /\ c.i = d.i /\ c.addr = d.addr
  BY ZenonT(30), <1>1, <1>7, <1>8 DEF CallType
<1>10. Told(t, c) /\ Group(c) = Group(d) /\ InGroup(c)
  BY Zenon, <1>1, <1>9, ToldKept DEF Group, InGroup
<1>11. Holds(t, c, {m \in Group(c) : m > c.i})
  BY Zenon, <1>1, <1>3, <1>5, <1>7, <1>9, <1>10 DEF Holds
<1> QED
  BY Zenon, <1>5, <1>9, <1>10, <1>11, NoConnOK DEF HasRead, InHand

(* A command that is redirected has not been executed. *)
LEMMA AgainOK ==
  ASSUME NEW t \in Tasks, NEW c, NEW r \in Refusals, HasRead(t, c, r),
         NEW pc \in {"get", "askget"}, NEW to \in Nodes, NEW left \in Int
  PROVE  CallOK(t, [c EXCEPT !.conn = NoConn, !.pc = pc, !.to = to, !.left = left])
<1> DEFINE f == [c EXCEPT !.conn = NoConn, !.pc = pc, !.to = to, !.left = left]
<1>1. c \in CallType /\ Told(t, c) /\ InHand(t, c) /\ Replied(t, c.n, c.i, r, c.runs, c.results)
  BY Zenon DEF HasRead
<1>2. Fresh(c, c.i)
  <2>1. r # <<"ok", t, c.n, c.i>>
    BY DEF Refusals
  <2> QED
    BY Zenon, <1>1, <2>1 DEF Replied, Fresh
<1>3. to \in Addr /\ NoConn \in Conn
  BY Zenon, NoConnOK DEF Addr
<1>4. f \in CallType /\ f.pc = pc /\ f.conn = NoConn /\ f.to = to /\ SameCommands(c, f)
  BY Zenon, <1>1, <1>3 DEF CallType, SameCommands
<1> HIDE DEF f
<1>5. Told(t, f) /\ InHand(t, f) /\ Fresh(f, f.i)
  BY Zenon, <1>1, <1>2, <1>4, InHandKept DEF Fresh, SameCommands
<1>6. CallOK(t, f)
  BY Zenon, <1>4, <1>5 DEF CallOK, OnNode
<1> QED
  BY Zenon, <1>6 DEF f

\* The result of the command in hand is noted.
Done(c, r) == [c EXCEPT !.conn = NoConn, !.results[c.i] = r]

Noted(t, c, done) ==
  /\ done \in CallType /\ Told(t, done) /\ done.conn = NoConn
  /\ done.n = c.n /\ done.cmds = c.cmds /\ done.addrs = c.addrs /\ done.todo = c.todo /\ done.runs = c.runs
  /\ done.kind = c.kind /\ done.held = c.held /\ done.i = c.i /\ done.addr = c.addr
  /\ \A m \in DOMAIN c.cmds : m # c.i => done.results[m] = c.results[m]

LEMMA DoneOK ==
  ASSUME NEW t \in Tasks, NEW c, NEW r, HasRead(t, c, r)
  PROVE  Noted(t, c, Done(c, r))
<1> DEFINE done == Done(c, r)
           results == [c.results EXCEPT ![c.i] = r]
<1>1. c \in CallType /\ Told(t, c) /\ InHand(t, c) /\ Replied(t, c.n, c.i, r, c.runs, c.results)
  BY Zenon DEF HasRead
<1>2. c.i \in DOMAIN c.cmds /\ c.addrs[c.i] \notin c.todo /\ DOMAIN c.results = DOMAIN c.cmds
  BY Zenon, <1>1, HandOK DEF Told
<1>3. c.n \in Nat /\ c.i \in Nat /\ c.results \in Seq(Reply)
  BY Zenon, <1>1 DEF CallType
<1>4. r \in Reply
  BY Zenon, <1>1, <1>3, ReplyTyped DEF Replied
<1>5. results \in Seq(Reply)
  BY <1>2, <1>3, <1>4
<1>6. /\ DOMAIN results = DOMAIN c.cmds /\ results[c.i] = r
      /\ \A m \in DOMAIN c.cmds : m # c.i => results[m] = c.results[m]
  BY Zenon, <1>2
<1>7. done = [c EXCEPT !.conn = NoConn, !.results = results]
  BY Zenon, <1>1 DEF CallType, Done
<1> HIDE DEF results, done
<1>8. /\ done \in CallType /\ done.conn = NoConn /\ done.results = results
      /\ done.n = c.n /\ done.cmds = c.cmds /\ done.addrs = c.addrs /\ done.todo = c.todo /\ done.runs = c.runs
      /\ done.kind = c.kind /\ done.held = c.held /\ done.i = c.i /\ done.addr = c.addr
  BY Zenon, <1>1, <1>5, <1>7, NoConnOK DEF CallType
<1>9. r[1] = "ok" => r = <<"ok", t, c.n, c.i>> /\ c.runs[c.i] = 1
  <2>1. r \in Refusals => r[1] # "ok"
    BY DEF Refusals
  <2> QED
    BY Zenon, <1>1, <2>1 DEF Replied
<1>10. Told(t, done)
  <2>1. ASSUME NEW j \in DOMAIN done.cmds
        PROVE  /\ done.runs[j] <= 1
               /\ done.results[j][1] = "ok" => done.results[j] = <<"ok", t, done.n, j>> /\ done.runs[j] = 1
               /\ done.addrs[j] \in done.todo => Fresh(done, j)
    <3>1. CASE j = c.i
      BY Zenon, <1>1, <1>2, <1>6, <1>8, <1>9, <3>1 DEF Told
    <3>2. CASE j # c.i
      <4>1. j \in DOMAIN c.cmds /\ done.results[j] = c.results[j]
        BY Zenon, <1>6, <1>8, <2>1, <3>2
      <4> QED
        BY Zenon, <1>1, <1>8, <4>1 DEF Told, Fresh
    <3> QED
      BY Zenon, <3>1, <3>2
  <2>2. DOMAIN done.addrs = DOMAIN done.cmds /\ DOMAIN done.runs = DOMAIN done.cmds /\ DOMAIN done.results = DOMAIN done.cmds
    BY Zenon, <1>1, <1>6, <1>8 DEF Told
  <2>3. \A a \in done.todo : \E j \in DOMAIN done.cmds : done.addrs[j] = a
    <3> TAKE a \in done.todo
    <3>1. PICK j \in DOMAIN c.cmds : c.addrs[j] = a
      BY Zenon, <1>1, <1>8 DEF Told
    <3>2. j \in DOMAIN done.cmds /\ done.addrs[j] = a
      BY Zenon, <1>8, <3>1
    <3> QED
      BY Zenon, <3>2
  <2> QED
    BY Zenon, <2>1, <2>2, <2>3 DEF Told
<1> QED
  BY Zenon, <1>6, <1>8, <1>10 DEF done, Noted

LEMMA ExecutedOK ==
  ASSUME NEW t \in Tasks, NEW c, NEW r, HasRead(t, c, r), c.kind = "execute"
  PROVE  CallOK(t, [Done(c, r) EXCEPT !.pc = "idle", !.status = "ok"])
<1> DEFINE done == Done(c, r)
           f == [done EXCEPT !.pc = "idle", !.status = "ok"]
<1>0. Noted(t, c, done)
  BY Zenon, DoneOK
<1> HIDE DEF done
<1>1. done \in CallType /\ Told(t, done) /\ done.conn = NoConn /\ done.held = c.held
  BY Zenon, <1>0 DEF Noted
<1>2. c.held = NoConn
  BY Zenon DEF HasRead, InHand, InGroup
<1>3. /\ f \in CallType /\ f.pc = "idle" /\ NoGuards(f)
      /\ f.n = done.n /\ f.cmds = done.cmds /\ f.addrs = done.addrs /\ f.todo = done.todo /\ f.runs = done.runs
      /\ f.results = done.results
  BY Zenon, <1>1, <1>2 DEF CallType, NoGuards
<1> HIDE DEF f
<1>4. CallOK(t, f)
  BY Zenon, <1>1, <1>3, ToldKept DEF CallOK
<1> QED
  BY Zenon, <1>4 DEF f, done

(* The last reply of a group has been read. *)
LEMMA GroupDoneOK ==
  ASSUME NEW t \in Tasks, NEW c, NEW r, HasRead(t, c, r), c.kind # "execute"
  PROVE  CallOK(t, [Done(c, r) EXCEPT !.pc = "next", !.held = NoConn])
<1> DEFINE done == Done(c, r)
           f == [done EXCEPT !.pc = "next", !.held = NoConn]
<1>0. Noted(t, c, done)
  BY Zenon, DoneOK
<1> HIDE DEF done
<1>1. done \in CallType /\ Told(t, done) /\ done.conn = NoConn /\ done.kind = c.kind
  BY Zenon, <1>0 DEF Noted
<1>2. c.kind = "pipeline"
  BY Zenon DEF HasRead, CallType
<1>3. /\ f \in CallType /\ f.pc = "next" /\ NoGuards(f) /\ f.kind = "pipeline"
      /\ f.n = done.n /\ f.cmds = done.cmds /\ f.addrs = done.addrs /\ f.todo = done.todo /\ f.runs = done.runs
      /\ f.results = done.results
  BY Zenon, <1>1, <1>2, NoConnOK DEF CallType, NoGuards
<1> HIDE DEF f
<1>4. CallOK(t, f)
  BY Zenon, <1>1, <1>3, ToldKept DEF CallOK
<1> QED
  BY Zenon, <1>4 DEF f, done

LEMMA GroupNumbers ==
  ASSUME NEW c \in CallType, NEW j \in Nat
  PROVE  /\ DOMAIN c.cmds \subseteq Nat /\ Group(c) \in SUBSET Nat
         /\ Members(c, c.addr, j) = {m \in Group(c) : m > j} /\ \A a : Members(c, a, 0) = {m \in DOMAIN c.cmds : c.addrs[m] = a}
<1>1. c.cmds \in Seq(Commands)
  BY Zenon DEF CallType
<1>2. DOMAIN c.cmds \subseteq Nat /\ \A m \in DOMAIN c.cmds : m > 0
  BY <1>1
<1> QED
  BY Zenon, <1>2 DEF Group, Members

(* A command of a pipeline has been assigned to a group, the last one or another. *)
LEMMA GroupedOK ==
  ASSUME NEW t \in Tasks, NEW c, CallOK(t, c), c.pc = "group", NEW a \in Addr, NEW addrs, addrs = [c.addrs EXCEPT ![c.i] = a]
  PROVE  /\ c.i < Len(c.cmds) => CallOK(t, [c EXCEPT !.addrs = addrs, !.i = @ + 1])
         /\ CallOK(t, [c EXCEPT !.addrs = addrs, !.todo = Range(addrs), !.pc = "next"])
<1>1. /\ c \in CallType /\ Told(t, c) /\ NoGuards(c) /\ c.kind = "pipeline" /\ c.i \in DOMAIN c.cmds /\ c.todo = {}
      /\ \A j \in DOMAIN c.cmds : Fresh(c, j)
  BY Zenon DEF CallOK
<1>2. c.addrs \in Seq(Addr) /\ c.i \in DOMAIN c.addrs /\ DOMAIN addrs = DOMAIN c.addrs /\ c.cmds \in Seq(Commands)
  BY Zenon, <1>1 DEF CallType, Told
<1>3. addrs \in Seq(Addr)
  BY <1>2
<1>4. Range(addrs) \subseteq Addr /\ \A b \in Range(addrs) : \E j \in DOMAIN addrs : addrs[j] = b
  BY <1>3 DEF Range
<1>5. ASSUME NEW f, f.n = c.n, f.cmds = c.cmds, f.addrs = addrs, f.todo \in {{}, Range(addrs)}, f.runs = c.runs, f.results = c.results
      PROVE  Told(t, f) /\ \A j \in DOMAIN f.cmds : Fresh(f, j)
  <2>1. \A j \in DOMAIN f.cmds : Fresh(f, j)
    BY Zenon, <1>1, <1>5 DEF Fresh
  <2>2. DOMAIN f.addrs = DOMAIN f.cmds /\ DOMAIN f.runs = DOMAIN f.cmds /\ DOMAIN f.results = DOMAIN f.cmds
    BY Zenon, <1>1, <1>2, <1>5 DEF Told
  <2>3. \A j \in DOMAIN f.cmds : f.runs[j] <= 1 /\ f.results[j][1] # "ok"
    BY <2>1 DEF Fresh
  <2>4. ASSUME NEW b \in f.todo PROVE \E j \in DOMAIN f.cmds : f.addrs[j] = b
    <3>1. b \in Range(addrs)
      BY Zenon, <1>5
    <3>2. PICK j \in DOMAIN addrs : addrs[j] = b
      BY Zenon, <1>4, <3>1
    <3> QED
      BY Zenon, <1>5, <2>2, <3>2
  <2> QED
    BY Zenon, <2>1, <2>2, <2>3, <2>4 DEF Told
<1>6. ASSUME c.i < Len(c.cmds) PROVE CallOK(t, [c EXCEPT !.addrs = addrs, !.i = @ + 1])
  <2> DEFINE i == c.i + 1
             f == [c EXCEPT !.addrs = addrs, !.i = i]
  <2>1. i \in DOMAIN c.cmds /\ i \in Nat
    BY <1>1, <1>2, <1>6
  <2> HIDE DEF i
  <2>2. /\ f \in CallType /\ f.pc = "group" /\ NoGuards(f) /\ f.kind = "pipeline" /\ f.i = i /\ f.todo = {}
        /\ f.n = c.n /\ f.cmds = c.cmds /\ f.addrs = addrs /\ f.runs = c.runs /\ f.results = c.results
    BY Zenon, <1>1, <1>3, <2>1 DEF CallType, NoGuards
  <2> HIDE DEF f
  <2>3. CallOK(t, f)
    BY Zenon, <1>5, <2>1, <2>2 DEF CallOK
  <2> QED
    BY Zenon, <2>3 DEF f, i
<1>7. CallOK(t, [c EXCEPT !.addrs = addrs, !.todo = Range(addrs), !.pc = "next"])
  <2> DEFINE f == [c EXCEPT !.addrs = addrs, !.todo = Range(addrs), !.pc = "next"]
  <2>1. /\ f \in CallType /\ f.pc = "next" /\ NoGuards(f) /\ f.kind = "pipeline" /\ f.todo = Range(addrs)
        /\ f.n = c.n /\ f.cmds = c.cmds /\ f.addrs = addrs /\ f.runs = c.runs /\ f.results = c.results
    BY Zenon, <1>1, <1>3, <1>4 DEF CallType, NoGuards
  <2> HIDE DEF f
  <2>2. CallOK(t, f)
    BY Zenon, <1>5, <2>1 DEF CallOK
  <2> QED
    BY Zenon, <2>2 DEF f
<1> QED
  BY Zenon, <1>6, <1>7

(* A pipeline has done all its groups. *)
LEMMA AllGroupsOK ==
  ASSUME NEW t \in Tasks, NEW c, CallOK(t, c), c.pc = "next"
  PROVE  CallOK(t, [c EXCEPT !.pc = "idle", !.status = "ok"])
<1> DEFINE f == [c EXCEPT !.pc = "idle", !.status = "ok"]
<1>1. c \in CallType /\ Told(t, c) /\ NoGuards(c)
  BY Zenon DEF CallOK
<1>2. /\ f \in CallType /\ f.pc = "idle" /\ NoGuards(f)
      /\ f.n = c.n /\ f.cmds = c.cmds /\ f.addrs = c.addrs /\ f.todo = c.todo /\ f.runs = c.runs /\ f.results = c.results
  BY Zenon, <1>1 DEF CallType, NoGuards
<1> HIDE DEF f
<1>3. CallOK(t, f)
  BY Zenon, <1>1, <1>2, ToldKept DEF CallOK
<1> QED
  BY Zenon, <1>3 DEF f

(* The commands without a node get an error. *)
LEMMA NoNodeOK ==
  ASSUME NEW t \in Tasks, NEW c, CallOK(t, c), c.pc = "next", NEW a \in c.todo
  PROVE  CallOK(t, [c EXCEPT !.todo = @ \ {a},
                             !.results = [j \in DOMAIN @ |-> IF c.addrs[j] = a THEN <<"no node">> ELSE @[j]]])
<1> DEFINE todo == c.todo \ {a}
           results == [j \in DOMAIN c.results |-> IF c.addrs[j] = a THEN <<"no node">> ELSE c.results[j]]
           f == [c EXCEPT !.todo = todo, !.results = results]
<1>0. [c EXCEPT !.todo = @ \ {a}, !.results = [j \in DOMAIN @ |-> IF c.addrs[j] = a THEN <<"no node">> ELSE @[j]]] = f
  BY Zenon
<1>1. c \in CallType /\ Told(t, c) /\ NoGuards(c) /\ c.kind = "pipeline"
  BY Zenon DEF CallOK
<1>2. DOMAIN c.results = DOMAIN c.cmds /\ c.results \in Seq(Reply) /\ todo \in SUBSET Addr
  BY Zenon, <1>1 DEF Told, CallType
<1>3. results \in Seq(Reply)
  <2>1. <<"no node">> \in Reply
    BY Zenon DEF Reply
  <2>2. PICK n \in Nat : DOMAIN c.results = 1..n
    BY <1>2
  <2>3. \A j \in DOMAIN c.results : c.results[j] \in Reply
    BY <1>2
  <2>4. results \in [1..n -> Reply]
    BY Zenon, <2>1, <2>2, <2>3
  <2> HIDE DEF results
  <2> QED
    BY <2>2, <2>4
<1>4. /\ DOMAIN results = DOMAIN c.cmds
      /\ \A j \in DOMAIN c.cmds : results[j] = IF c.addrs[j] = a THEN <<"no node">> ELSE c.results[j]
  BY Zenon, <1>2
<1> HIDE DEF results
<1>5. /\ f \in CallType /\ f.pc = "next" /\ NoGuards(f) /\ f.kind = "pipeline" /\ f.todo = todo /\ f.results = results
      /\ f.n = c.n /\ f.cmds = c.cmds /\ f.addrs = c.addrs /\ f.runs = c.runs
  BY Zenon, <1>1, <1>2, <1>3 DEF CallType, NoGuards
<1> HIDE DEF f
<1>6. Told(t, f)
  <2>1. ASSUME NEW j \in DOMAIN f.cmds
        PROVE  /\ f.runs[j] <= 1
               /\ f.results[j][1] = "ok" => f.results[j] = <<"ok", t, f.n, j>> /\ f.runs[j] = 1
               /\ f.addrs[j] \in f.todo => Fresh(f, j)
    <3>1. j \in DOMAIN c.cmds
      BY Zenon, <1>5
    <3>2. <<"no node">>[1] # "ok"
      OBVIOUS
    <3>3. CASE c.addrs[j] = a
      BY Zenon, <1>1, <1>4, <1>5, <3>1, <3>2, <3>3 DEF Told
    <3>4. CASE c.addrs[j] # a
      <4>1. f.results[j] = c.results[j]
        BY Zenon, <1>4, <1>5, <3>1, <3>4
      <4> QED
        BY Zenon, <1>1, <1>5, <3>1, <4>1 DEF Told, Fresh
    <3> QED
      BY Zenon, <3>3, <3>4
  <2>2. DOMAIN f.addrs = DOMAIN f.cmds /\ DOMAIN f.runs = DOMAIN f.cmds /\ DOMAIN f.results = DOMAIN f.cmds
    BY Zenon, <1>1, <1>4, <1>5 DEF Told
  <2>3. ASSUME NEW b \in f.todo PROVE \E j \in DOMAIN f.cmds : f.addrs[j] = b
    <3>1. PICK j \in DOMAIN c.cmds : c.addrs[j] = b
      BY Zenon, <1>1, <1>5, <2>3 DEF Told
    <3>2. j \in DOMAIN f.cmds /\ f.addrs[j] = b
      BY Zenon, <1>5, <3>1
    <3> QED
      BY Zenon, <3>2
  <2> QED
    BY Zenon, <2>1, <2>2, <2>3 DEF Told
<1>7. CallOK(t, f)
  BY Zenon, <1>5, <1>6 DEF CallOK
<1> QED
  BY Zenon, <1>0, <1>7

-----------------------------------------------------------------------------
(* The steps of the system *)

(* A call returns an error. *)
LEMMA FailKeeps ==
  ASSUME CallsOK, PoolOK(idle), CleanPools, NEW t \in Tasks, NEW c \in CallType, Told(t, c), Fail(t, c),
         "timeout" \notin Faults /\ c.kind = "execute" => c.conn.owed = <<>> /\ c.held = NoConn
  PROVE  CallsOK' /\ PoolOK(idle') /\ Tidy
<1> DEFINE f == [c EXCEPT !.pc = "idle", !.status = "error", !.conn = NoConn, !.held = NoConn]
<1>1. task' = [task EXCEPT ![t] = f] /\ idle' = Put(Put(idle, c.conn), c.held)
  BY Zenon DEF Fail, Go
<1>2. CallOK(t, f)
  BY Zenon, FailOK
<1>3. f.kind = c.kind /\ f.status = "error"
  BY Zenon DEF CallType
<1> HIDE DEF f
<1>4. CallsOK'
  BY Zenon, <1>1, <1>2, CallChanges
<1>5. c.conn \in Conn /\ c.held \in Conn
  BY Zenon DEF CallType
<1>6. PoolOK(Put(idle, c.conn)) /\ PoolOK(idle')
  BY Zenon, <1>1, <1>5, PutOK
<1>7. Tidy
  <2>1. CASE "timeout" \in Faults
    BY Zenon, <2>1 DEF Tidy
  <2>2. CASE "timeout" \notin Faults /\ c.kind = "execute"
    <3>1. Clean(idle)
      BY Zenon DEF CleanPools, Clean
    <3>2. Clean(Put(idle, c.conn)) /\ idle' = Put(idle, c.conn)
      BY Zenon, <1>1, <1>5, <2>2, <3>1, PutClean, NoConnOK
    <3> QED
      BY Zenon, <3>2, PoolsTidy
  <2>3. CASE c.kind # "execute"
    <3>1. task'[t] = f
      BY Zenon, <1>1 DEF CallsOK
    <3>2. f.kind = "pipeline"
      BY Zenon, <1>3, <2>3 DEF CallType
    <3> QED
      BY Zenon, <1>3, <3>1, <3>2 DEF Tidy, PipelinesSucceed
  <2> QED
    BY Zenon, <2>1, <2>2, <2>3
<1> QED
  BY Zenon, <1>4, <1>6, <1>7

(* A redirection is followed. *)
LEMMA AgainKeeps ==
  ASSUME CallsOK, PoolOK(idle), CleanPools, NEW t \in Tasks, NEW c, NEW r \in Refusals, HasRead(t, c, r),
         NEW pc \in {"get", "askget"}, NEW to \in Nodes, NEW left \in Int, Again(t, c, pc, to, left)
  PROVE  CallsOK' /\ PoolOK(idle') /\ Tidy
<1> DEFINE f == [c EXCEPT !.conn = NoConn, !.pc = pc, !.to = to, !.left = left]
<1>1. task' = [task EXCEPT ![t] = f] /\ idle' = Put(idle, c.conn)
  BY Zenon DEF Again, Go
<1>2. CallOK(t, f)
  BY Zenon, AgainOK
<1> HIDE DEF f
<1>3. CallsOK'
  BY Zenon, <1>1, <1>2, CallChanges
<1>4. c.conn \in Conn /\ c.conn.owed = <<>> /\ Clean(idle)
  BY Zenon DEF HasRead, Clean, CleanPools
<1>5. PoolOK(idle') /\ Clean(idle')
  BY Zenon, <1>1, <1>4, PutOK, PutClean
<1> QED
  BY Zenon, <1>3, <1>5, PoolsTidy

LEMMA ClusterInit == Init => ClusterInv
<1> SUFFICES ASSUME Init PROVE ClusterInv
  BY Zenon
<1>1. owner \in [Slots -> Addr] /\ view = [n \in Nodes |-> owner] /\ importer = [s \in Slots |-> NoNode]
  BY Zenon, ClusterAssumption DEF Init, Addr
<1>2. ServersOK
  BY Zenon, <1>1 DEF ServersOK, Addr
<1>3. MapsOK
  BY Zenon, <1>1, TopologyOK DEF Init, MapsOK
<1>4. PoolOK(idle)
  <2>1. idle = [n \in Nodes |-> <<>>] /\ <<>> \in Seq(Conn)
    BY DEF Init
  <2> QED
    BY <2>1 DEF PoolOK
<1>5. CallsOK
  <2>1. task = [t \in Tasks |-> Idle]
    BY Zenon DEF Init
  <2>2. \A t \in Tasks : CallOK(t, Idle) /\ Idle \in CallType
    BY Zenon, IdleOK DEF CallOK
  <2> QED
    BY Zenon, <2>1, <2>2 DEF CallsOK
<1> QED
  BY Zenon, <1>2, <1>3, <1>4, <1>5 DEF ClusterInv

(* The servers keep what they know in order. *)
LEMMA EnvironmentKeeps == ClusterInv /\ Environment => ClusterInv'
<1> SUFFICES ASSUME ClusterInv, Environment PROVE ClusterInv'
  BY Zenon
<1>1. UNCHANGED NotServers
  BY Zenon DEF Environment, Migrate, Migrated, Gossip, Down, CalmDown
<1>2. MapsOK' /\ PoolOK(idle)' /\ CallsOK'
  BY Zenon, <1>1 DEF ClusterInv, NotServers, MapsOK, CallsOK
<1>3. ServersOK
  BY Zenon DEF ClusterInv
<1>4. ServersOK'
  <2>1. ASSUME NEW s \in Slots, Migrated(s) PROVE ServersOK'
    <3>1. owner[s] # NoNode /\ importer[s] \in Nodes
      BY Zenon, <1>3, <2>1 DEF Migrated, ServersOK, Addr
    <3>2. /\ owner' = [owner EXCEPT ![s] = importer[s]]
          /\ importer' = [importer EXCEPT ![s] = NoNode]
          /\ view' = [n \in Nodes |-> IF n \in {owner[s], importer[s]}
                                      THEN [view[n] EXCEPT ![s] = importer[s]] ELSE view[n]]
      BY Zenon, <2>1 DEF Migrated
    <3>3. \A n \in Nodes : view'[n] \in [Slots -> Addr] /\ \A z \in Slots : view[n][z] # NoNode => view'[n][z] # NoNode
      BY Zenon, <1>3, <3>1, <3>2, ClusterAssumption DEF ServersOK, Addr
    <3>4. view' \in [Nodes -> [Slots -> Addr]]
      BY Zenon, <3>2, <3>3
    <3>5. \A z \in Slots : owner'[z] # NoNode => owner[z] # NoNode
      BY Zenon, <1>3, <3>1, <3>2 DEF ServersOK
    <3>6. owner' \in [Slots -> Addr] /\ importer' \in [Slots -> Addr]
      BY Zenon, <1>3, <3>1, <3>2 DEF ServersOK, Addr
    <3>7. \A z \in Slots : importer'[z] # NoNode => owner'[z] # NoNode
      BY Zenon, <1>3, <3>1, <3>2, ClusterAssumption DEF ServersOK
    <3> QED
      BY Zenon, <1>3, <3>3, <3>4, <3>5, <3>6, <3>7 DEF ServersOK
  <2>2. ASSUME NEW s \in Slots, NEW n \in Nodes, Migrate(s, n) PROVE ServersOK'
    BY Zenon, <1>3, <2>2 DEF Migrate, ServersOK, Addr
  <2>3. ASSUME NEW n \in Nodes, Gossip(n) PROVE ServersOK'
    BY Zenon, <1>3, <2>3 DEF Gossip, ServersOK
  <2>4. ASSUME NEW n \in Nodes, Down(n) PROVE ServersOK'
    BY Zenon, <1>3, <2>4 DEF Down, ServersOK
  <2>5. CASE CalmDown
    BY Zenon, <1>3, <2>5 DEF CalmDown, ServersOK
  <2> QED
    BY Zenon, <2>1, <2>2, <2>3, <2>4, <2>5 DEF Environment
<1> QED
  BY Zenon, <1>2, <1>4 DEF ClusterInv

LEMMA RefreshKeeps == ClusterInv /\ (RefreshRead \/ RefreshInstall) => ClusterInv'
<1> SUFFICES ASSUME ClusterInv, RefreshRead \/ RefreshInstall PROVE ClusterInv'
  BY Zenon
<1>1. UNCHANGED <<servers, idle, task>>
  BY Zenon DEF RefreshRead, RefreshInstall
<1>2. ServersOK' /\ PoolOK(idle)' /\ CallsOK'
  BY Zenon, <1>1 DEF ClusterInv, servers, ServersOK, CallsOK
<1>3. MapsOK /\ view \in [Nodes -> [Slots -> Addr]]
  BY Zenon DEF ClusterInv, ServersOK
<1>4. CASE RefreshRead
  <2>1. PICK n \in nodes : fetched' = {Topology(view[n])}
    BY Zenon, <1>4 DEF RefreshRead
  <2>2. MapOK(Topology(view[n]))
    BY Zenon, <1>3, TopologyOK DEF MapsOK
  <2>3. UNCHANGED <<nodes, slot_map>>
    BY Zenon, <1>4 DEF RefreshRead
  <2> QED
    BY Zenon, <1>2, <1>3, <2>1, <2>2, <2>3 DEF MapsOK, ClusterInv
<1>5. CASE RefreshInstall
  <2>1. PICK m \in fetched : /\ nodes' = nodes \cup UNION {{r.master} \cup Range(r.replicas) : r \in m}
                             /\ slot_map' = m /\ fetched' = {}
    BY Zenon, <1>5 DEF RefreshInstall
  <2>2. MapOK(m)
    BY Zenon, <1>3 DEF MapsOK
  <2>3. ASSUME NEW r \in m PROVE {r.master} \cup Range(r.replicas) \subseteq Nodes
    <3>1. r.master \in Nodes /\ r.replicas \in Seq(Nodes)
      BY Zenon, <2>2 DEF MapOK, Ranges
    <3> QED
      BY <3>1 DEF Range
  <2>4. nodes' \subseteq Nodes
    BY Zenon, <1>3, <2>1, <2>3 DEF MapsOK
  <2> QED
    BY Zenon, <1>2, <2>1, <2>2, <2>4 DEF MapsOK, ClusterInv
<1> QED
  BY Zenon, <1>4, <1>5

(* A step of task t that leaves the servers and the slot maps alone. *)
LEMMA RestKept ==
  ASSUME ClusterInv, UNCHANGED <<servers, slot_map, fetched>>, nodes' \subseteq Nodes, PoolOK(idle'), CallsOK'
  PROVE  ClusterInv'
BY Zenon DEF ClusterInv, servers, ServersOK, MapsOK

(* A step of task t that changes its call to f, and nothing else. *)
LEMMA CallOnly ==
  ASSUME ClusterInv, CleanPools, NEW t \in Tasks, NEW f, CallOK(t, f), task' = [task EXCEPT ![t] = f],
         UNCHANGED <<servers, nodes, slot_map, idle, fetched>>
  PROVE  ClusterInv' /\ Tidy
<1>1. CallsOK /\ PoolOK(idle') /\ nodes' \subseteq Nodes
  BY Zenon DEF ClusterInv, MapsOK
<1>2. CallsOK'
  BY Zenon, <1>1, CallChanges
<1> QED
  BY Zenon, <1>1, <1>2, RestKept, IdleKept

LEMMA CallKeeps ==
  ASSUME ClusterInv, CleanPools, NEW t \in Tasks, Call(t)
  PROVE  ClusterInv' /\ Tidy
<1> DEFINE n == task[t].n + 1
<1>1. n \in Nat
  BY DEF ClusterInv, CallsOK, CallType
<1>2. PICK k \in Kinds : \E cmds \in [1..(IF k = "pipeline" THEN Batch ELSE 1) -> Commands], start \in {"busy", "calm"} :
        task' = [task EXCEPT ![t] =
                   [Idle EXCEPT !.pc = IF k = "pipeline" THEN "group" ELSE "route", !.kind = k, !.n = n, !.cmds = cmds,
                                !.addrs = [j \in DOMAIN cmds |-> NoNode],
                                !.results = [j \in DOMAIN cmds |-> <<"none">>],
                                !.runs = [j \in DOMAIN cmds |-> 0], !.start = start]]
  BY ZenonT(20) DEF Call, Go
<1> HIDE DEF n
<1> DEFINE len == IF k = "pipeline" THEN Batch ELSE 1
<1>3. k \in {"execute", "pipeline"} /\ len \in Nat /\ len # 0 /\ (k = "execute" => len = 1)
  <2>1. k \in {"execute", "pipeline"} /\ Batch \in Nat /\ Batch # 0 /\ 1 \in Nat /\ 1 # 0
    BY ClusterAssumption
  <2> QED
    BY Zenon, <2>1
<1>4. PICK cmds \in [1..len -> Commands], start \in {"busy", "calm"} :
        task' = [task EXCEPT ![t] =
                   [Idle EXCEPT !.pc = IF k = "pipeline" THEN "group" ELSE "route", !.kind = k, !.n = n, !.cmds = cmds,
                                !.addrs = [j \in DOMAIN cmds |-> NoNode],
                                !.results = [j \in DOMAIN cmds |-> <<"none">>],
                                !.runs = [j \in DOMAIN cmds |-> 0], !.start = start]]
  BY Zenon, <1>2
<1> HIDE DEF len
<1> DEFINE f == [Idle EXCEPT !.pc = IF k = "pipeline" THEN "group" ELSE "route", !.kind = k, !.n = n, !.cmds = cmds,
                             !.addrs = [j \in DOMAIN cmds |-> NoNode],
                             !.results = [j \in DOMAIN cmds |-> <<"none">>],
                             !.runs = [j \in DOMAIN cmds |-> 0], !.start = start]
<1>5. CallOK(t, f)
  BY ONLY <1>1, <1>3, CallStarts, t \in Tasks, cmds \in [1..len -> Commands], start \in {"busy", "calm"}, ZenonT(30)
<1>6. task' = [task EXCEPT ![t] = f]
  BY ONLY <1>4, Zenon
<1> HIDE DEF f
<1> QED
  BY Zenon, <1>5, <1>6, CallOnly DEF Call

LEMMA GetKeeps ==
  ASSUME ClusterInv, CleanPools, NEW t \in Tasks, Get(t)
  PROVE  ClusterInv' /\ Tidy
<1> DEFINE n == Wanted(task[t])
           last == Len(idle[n])
           left == IF last = 0 THEN idle[n] ELSE SubSeq(idle[n], 1, last - 1)
<1>1. CallsOK /\ PoolOK(idle) /\ nodes \subseteq Nodes
  BY Zenon DEF ClusterInv, MapsOK
<1>2. CallOK(t, task[t]) /\ task[t].pc \in {"get", "askget", "groupget"}
  BY Zenon, <1>1 DEF CallsOK, Get
<1>3. n \in Nodes /\ (task[t].pc = "groupget" => n = task[t].addr)
  BY Zenon, <1>2 DEF Wanted, CallOK, OnNode, InGroup
<1>4. /\ nodes' = nodes \cup {n} /\ idle' = [idle EXCEPT ![n] = left]
      /\ UNCHANGED <<servers, slot_map, fetched>>
  BY Zenon DEF Get
<1>5. Taken(n) \in Conn /\ Taken(n).node = n /\ Taken(n).owed = <<>>
  BY Zenon, <1>1, <1>3, TakenOK
<1>6. \/ \E pc \in {"send", "asking"} : /\ task[t].pc \in {"get", "askget"}
                                        /\ task' = [task EXCEPT ![t] = [task[t] EXCEPT !.conn = Taken(n), !.pc = pc]]
      \/ /\ task[t].pc = "groupget"
         /\ task' = [task EXCEPT ![t] = [task[t] EXCEPT !.held = Taken(n), !.pc = "groupsend"]]
  <2>1. CASE task[t].pc = "get"
    BY Zenon, <2>1 DEF Get, Go, Taken
  <2>2. CASE task[t].pc = "askget"
    BY Zenon, <2>2 DEF Get, Go, Taken
  <2>3. CASE task[t].pc = "groupget"
    BY Zenon, <2>3 DEF Get, Go, Taken
  <2> QED
    BY Zenon, <1>2, <2>1, <2>2, <2>3
<1>7. idle \in [Nodes -> Seq(Conn)] /\ idle[n] \in Seq(Conn)
  BY Zenon, <1>1, <1>3 DEF PoolOK
<1>8. left \in Seq(Conn) /\ DOMAIN left \subseteq DOMAIN idle[n] /\ \A k \in DOMAIN left : left[k] = idle[n][k]
  BY <1>7
<1> HIDE DEF n, left
<1>9. CallsOK'
  <2>1. CASE \E pc \in {"send", "asking"} : /\ task[t].pc \in {"get", "askget"}
                                            /\ task' = [task EXCEPT ![t] = [task[t] EXCEPT !.conn = Taken(n), !.pc = pc]]
    <3>1. PICK pc \in {"send", "asking"} : /\ task[t].pc \in {"get", "askget"}
                                           /\ task' = [task EXCEPT ![t] = [task[t] EXCEPT !.conn = Taken(n), !.pc = pc]]
      BY Zenon, <2>1
    <3>2. Taken(n).node \in Nodes
      BY Zenon, <1>3, <1>5
    <3>3. CallOK(t, [task[t] EXCEPT !.conn = Taken(n), !.pc = pc])
      BY Zenon, <1>2, <1>5, <3>1, <3>2, GotOK
    <3> QED
      BY Zenon, <1>1, <3>1, <3>3, CallChanges
  <2>2. CASE /\ task[t].pc = "groupget"
             /\ task' = [task EXCEPT ![t] = [task[t] EXCEPT !.held = Taken(n), !.pc = "groupsend"]]
    <3>1. Taken(n).node = task[t].addr
      BY Zenon, <1>3, <1>5, <2>2
    <3>2. CallOK(t, [task[t] EXCEPT !.held = Taken(n), !.pc = "groupsend"])
      BY Zenon, <1>2, <1>5, <2>2, <3>1, GotGuardOK
    <3> QED
      BY Zenon, <1>1, <2>2, <3>2, CallChanges
  <2> QED
    BY Zenon, <1>6, <2>1, <2>2
<1>10. PoolOK(idle') /\ Clean(idle')
  <2>1. idle' \in [Nodes -> Seq(Conn)]
    BY Zenon, <1>4, <1>7, <1>8
  <2>2. ASSUME NEW m \in Nodes, NEW k \in DOMAIN idle'[m]
        PROVE  idle'[m][k].node = m /\ idle'[m][k].owed = <<>>
    <3>1. k \in DOMAIN idle[m] /\ idle'[m][k] = idle[m][k]
      <4>1. CASE m = n
        BY Zenon, <1>4, <1>7, <1>8, <2>2, <4>1
      <4>2. CASE m # n
        BY Zenon, <1>4, <1>7, <2>2, <4>2
      <4> QED
        BY Zenon, <4>1, <4>2
    <3> QED
      BY Zenon, <1>1, <3>1 DEF PoolOK, CleanPools
  <2> QED
    BY Zenon, <2>1, <2>2 DEF PoolOK, Clean
<1>11. nodes' \subseteq Nodes
  BY Zenon, <1>1, <1>3, <1>4
<1> QED
  BY Zenon, <1>4, <1>9, <1>10, <1>11, RestKept, PoolsTidy

LEMMA SendKeeps ==
  ASSUME ClusterInv, CleanPools, NEW t \in Tasks, Send(t)
  PROVE  ClusterInv' /\ Tidy
<1>1. CallsOK /\ ServersOK
  BY Zenon DEF ClusterInv
<1>2. CallOK(t, task[t]) /\ task[t].pc \in {"send", "asksend"}
  BY Zenon, <1>1 DEF CallsOK, Send
<1>3. task[t] \in CallType /\ InHand(t, task[t]) /\ task[t].conn.node \in Nodes
  BY Zenon, <1>2 DEF CallOK, OnNode
<1>4. task[t].cmds[task[t].i] \in Commands
  BY Zenon, <1>3, HandOK
<1>5. PICK r \in Answers(task[t].conn.node, task[t].cmds[task[t].i], task[t].conn.asking, Ok(t, task[t])) :
        task' = [task EXCEPT ![t] = [task[t] EXCEPT !.conn = Sent(@, r), !.runs = Ran(task[t], r),
                                                    !.pc = IF @ = "send" THEN "read" ELSE "askread"]]
  BY Zenon DEF Send, Go
<1>6. r = Ok(t, task[t]) \/ r \in Refusals
  BY Zenon, <1>1, <1>3, <1>4, AnswersOK
<1> DEFINE f == [task[t] EXCEPT !.conn = Sent(@, r), !.runs = Ran(task[t], r), !.pc = IF @ = "send" THEN "read" ELSE "askread"]
<1>7. CallOK(t, f) /\ task' = [task EXCEPT ![t] = f]
  BY Zenon, <1>2, <1>5, <1>6, SentOK
<1> HIDE DEF f
<1> QED
  BY Zenon, <1>7, CallOnly DEF Send

LEMMA AskingKeeps ==
  ASSUME ClusterInv, CleanPools, NEW t \in Tasks, SendAsking(t) \/ ReadAsking(t)
  PROVE  ClusterInv' /\ Tidy
<1>1. CallOK(t, task[t])
  BY Zenon DEF CallsOK, ClusterInv
<1>2. CASE SendAsking(t)
  <2> DEFINE f == [task[t] EXCEPT !.conn.owed = Append(@, <<"asking">>), !.conn.asking = TRUE, !.pc = "asked"]
  <2>1. task' = [task EXCEPT ![t] = f] /\ task[t].pc = "asking"
    BY Zenon, <1>2 DEF SendAsking, Go
  <2>2. CallOK(t, f)
    BY Zenon, <1>1, <2>1, AskingOK
  <2> HIDE DEF f
  <2> QED
    BY Zenon, <1>2, <2>1, <2>2, CallOnly DEF SendAsking
<1>3. CASE ReadAsking(t)
  <2> DEFINE f == [task[t] EXCEPT !.conn.owed = Tail(@), !.pc = "asksend"]
  <2>1. task' = [task EXCEPT ![t] = f] /\ task[t].pc = "asked"
    BY Zenon, <1>3 DEF ReadAsking, Go
  <2>2. CallOK(t, f)
    BY Zenon, <1>1, <2>1, AskedOK
  <2> HIDE DEF f
  <2> QED
    BY Zenon, <1>3, <2>1, <2>2, CallOnly DEF ReadAsking
<1> QED
  BY Zenon, <1>2, <1>3

\* What a step that reads a reply does to the slot map.
Learns(r) == slot_map' = slot_map \/ (r[1] = "moved" /\ r \in Refusals /\ slot_map' = update_slot_master(slot_map, r[2], r[3]))

LEMMA LearnsOK ==
  ASSUME ClusterInv, NEW r, Learns(r), UNCHANGED <<servers, nodes, fetched>>, CallsOK' /\ PoolOK(idle') /\ Tidy
  PROVE  ClusterInv' /\ Tidy
<1>1. MapOK(slot_map')
  <2>1. CASE slot_map' = slot_map
    BY Zenon, <2>1 DEF ClusterInv, MapsOK
  <2>2. CASE r[1] = "moved" /\ r \in Refusals /\ slot_map' = update_slot_master(slot_map, r[2], r[3])
    <3>1. r[3] \in Nodes
      BY <2>2 DEF Refusals
    <3> QED
      BY Zenon, <2>2, <3>1, UpdateOK DEF ClusterInv, MapsOK
  <2> QED
    BY Zenon, <2>1, <2>2 DEF Learns
<1> QED
  BY Zenon, <1>1 DEF ClusterInv, MapsOK, servers, ServersOK

LEMMA Redirects ==
  ASSUME NEW t, NEW c, NEW r, HasRead(t, c, r)
  PROVE  /\ r[1] \in {"moved", "ask", "tryagain", "down"} => r \in Refusals
         /\ r[1] \in {"moved", "ask"} => r[3] \in Nodes
BY DEF HasRead, Replied, Refusals

LEMMA FaultKeeps ==
  ASSUME ClusterInv, CleanPools, NEW t \in Tasks, Fault(t)
  PROVE  ClusterInv' /\ Tidy
<1>1. CallsOK /\ PoolOK(idle) /\ nodes \subseteq Nodes
  BY Zenon DEF ClusterInv, MapsOK
<1>2. CallOK(t, task[t])
  BY Zenon, <1>1 DEF CallsOK
<1>3. task[t] \in CallType /\ Told(t, task[t]) /\ Fail(t, task[t]) /\ UNCHANGED <<servers, slot_map, fetched>>
  BY Zenon, <1>2 DEF CallOK, Fault
<1>4. ASSUME "timeout" \notin Faults, task[t].kind = "execute" PROVE task[t].conn.owed = <<>> /\ task[t].held = NoConn
  <2>1. task[t].pc \in {"get", "askget", "groupget"}
    BY Zenon, <1>4 DEF Fault
  <2>2. task[t].conn = NoConn /\ task[t].held = NoConn
    BY Zenon, <1>2, <1>4, <2>1 DEF CallOK, OnNode, InHand, InGroup, NoGuards
  <2> QED
    BY Zenon, <2>2, NoConnOK
<1>5. CallsOK' /\ PoolOK(idle') /\ Tidy
  BY Zenon, <1>1, <1>3, <1>4, FailKeeps
<1>6. nodes' \subseteq Nodes
  <2>1. CASE task[t].pc \in {"get", "askget", "groupget"}
    <3>1. Wanted(task[t]) \in Nodes
      BY Zenon, <1>2, <2>1 DEF Wanted, CallOK, OnNode, InHand, InGroup
    <3> QED
      BY Zenon, <1>1, <3>1 DEF Fault
  <2>2. CASE task[t].pc \notin {"get", "askget", "groupget"}
    BY Zenon, <1>1, <2>2 DEF Fault
  <2> QED
    BY Zenon, <2>1, <2>2
<1> QED
  BY Zenon, <1>3, <1>5, <1>6, RestKept

-----------------------------------------------------------------------------
(* Calls that begin when the servers agree *)

\* Some slot has an owner, and every map that is or will be in use has a range for
\* each slot that does.
Served(m) == \A s \in Slots : owner[s] # NoNode => RangesOf(m, s) # {}

Serving == /\ \E s \in Slots : owner[s] # NoNode
           /\ Served(slot_map) /\ \A m \in fetched : Served(m)

Agreed == calm => down = {} /\ (\A s \in Slots : importer[s] = NoNode) /\ \A n \in Nodes : view[n] = owner

HasOwner(c) == \A j \in DOMAIN c.cmds : c.cmds[j].slot # NoSlot => owner[c.cmds[j].slot] # NoNode

\* Node n would execute the command of call c.
Executes(c, n) == c.cmds[1].slot = NoSlot \/ n = owner[c.cmds[1].slot]

Redirected(c) == c.conn.owed = <<<<"moved", c.cmds[1].slot, owner[c.cmds[1].slot]>>>>

\* One redirection is enough: the node that it names executes the command.
OnCourse(t, c) ==
  /\ c.pc \in {"idle", "route", "get", "send", "read"}
  /\ c.pc = "route" => c.left >= 1
  /\ c.pc = "get" => c.left >= 1 \/ Executes(c, c.to)
  /\ c.pc = "send" => c.left >= 1 \/ Executes(c, c.conn.node)
  /\ c.pc = "read" => c.conn.owed = <<Ok(t, c)>> \/ (c.left >= 1 /\ Redirected(c))
  /\ c.pc = "idle" => c.status = "ok" /\ c.runs = << 1 >>

CalmCallOK(t, c) == c.start = "calm" /\ c.kind = "execute" => calm /\ (HasOwner(c) => OnCourse(t, c))

CalmInv == Serving /\ Agreed /\ \A t \in Tasks : CalmCallOK(t, task[t])

(* The router leaves the servers alone. *)
LEMMA RouterSteps ==
  ASSUME [Next]_vars, ~Environment
  PROVE  UNCHANGED servers
<1>1. CASE UNCHANGED vars
  BY Zenon, <1>1 DEF vars
<1>2. CASE RefreshRead \/ RefreshInstall
  BY Zenon, <1>2 DEF RefreshRead, RefreshInstall
<1>3. ASSUME NEW t \in Tasks, Call(t) \/ Fault(t) PROVE UNCHANGED servers
  BY Zenon, <1>3 DEF Call, Fault
<1>4. ASSUME NEW t \in Tasks, Step(t) PROVE UNCHANGED servers
  BY Zenon, <1>4 DEF Step, execute_routed, GroupNext, NextGroup, Get, Send, SendAsking, ReadAsking, SendGroup,
                     Read, ReadAsked, ReadGroup
<1> QED
  BY Zenon, <1>1, <1>2, <1>3, <1>4 DEF Next

(* Once all is calm the servers stay as they are. *)
LEMMA Steady ==
  ASSUME Agreed, [Next]_vars
  PROVE  Agreed' /\ (calm => UNCHANGED <<owner, calm>>)
<1>1. CASE Environment
  <2>1. ASSUME NEW s \in Slots, Migrated(s) PROVE ~calm /\ calm' = calm
    BY Zenon, <2>1 DEF Migrated, Agreed
  <2>2. ASSUME NEW s \in Slots, NEW n \in Nodes, Migrate(s, n) PROVE ~calm /\ calm' = calm
    BY Zenon, <2>2 DEF Migrate
  <2>3. ASSUME NEW n \in Nodes, Gossip(n) PROVE ~calm /\ calm' = calm
    BY Zenon, <2>3 DEF Gossip, Agreed
  <2>4. ASSUME NEW n \in Nodes, Down(n) PROVE ~calm /\ calm' = calm
    BY Zenon, <2>4 DEF Down
  <2>5. CASE CalmDown
    BY Zenon, <2>5 DEF CalmDown, Agreed
  <2> QED
    BY Zenon, <1>1, <2>1, <2>2, <2>3, <2>4, <2>5 DEF Environment, Agreed
<1>2. CASE ~Environment
  <2>1. UNCHANGED servers
    BY Zenon, <1>2, RouterSteps
  <2> QED
    BY Zenon, <2>1 DEF servers, Agreed
<1> QED
  BY Zenon, <1>1, <1>2

(* No slot loses its owner. *)
LEMMA OwnersStay ==
  ASSUME ServersOK, [Next]_vars
  PROVE  \A s \in Slots : owner'[s] # NoNode <=> owner[s] # NoNode
<1>1. ASSUME NEW z \in Slots, Migrated(z) PROVE \A s \in Slots : owner'[s] # NoNode <=> owner[s] # NoNode
  <2>1. owner' = [owner EXCEPT ![z] = importer[z]] /\ importer[z] # NoNode /\ owner[z] # NoNode
    BY Zenon, <1>1 DEF Migrated, ServersOK
  <2> QED
    BY Zenon, <2>1 DEF ServersOK
<1>2. CASE ~(\E z \in Slots : Migrated(z))
  <2>1. owner' = owner
    BY Zenon, <1>2, RouterSteps DEF servers, Environment, Migrate, Gossip, Down, CalmDown
  <2> QED
    BY Zenon, <2>1
<1> QED
  BY Zenon, <1>1, <1>2

(* The calls of a task that takes no step. *)
LEMMA CalmKept ==
  ASSUME Agreed, [Next]_vars, NEW u, CalmCallOK(u, task[u]), task'[u] = task[u]
  PROVE  CalmCallOK(u, task[u])'
<1>1. calm => owner' = owner /\ calm' = calm
  BY Zenon, Steady
<1> QED
  BY Zenon, <1>1 DEF CalmCallOK, HasOwner, OnCourse, Executes, Redirected, Ok

(* execute has one command. *)
LEMMA OneCommand ==
  ASSUME NEW t, NEW c \in CallType, InHand(t, c), c.kind = "execute"
  PROVE  c.i = 1 /\ Len(c.cmds) = 1 /\ 1 \in DOMAIN c.cmds /\ c.cmds[1] \in Commands
<1>1. c.i = 1 /\ Len(c.cmds) = 1
  BY Zenon DEF InHand, InGroup
<1>2. c.cmds \in Seq(Commands)
  BY Zenon DEF CallType
<1>3. 1 \in DOMAIN c.cmds /\ c.cmds[1] \in Commands
  BY SMTT(20), <1>1, <1>2
<1> QED
  BY Zenon, <1>1, <1>3

LEMMA CalmGet ==
  ASSUME ClusterInv, CleanPools, NEW t \in Tasks, Get(t), OnCourse(t, task[t])
  PROVE  OnCourse(t, task'[t])
<1> DEFINE c == task[t]
           f == [c EXCEPT !.conn = Taken(c.to), !.pc = "send"]
<1>1. CallsOK /\ PoolOK(idle) /\ c.pc = "get"
  BY Zenon DEF ClusterInv, Get, OnCourse
<1>2. c \in CallType /\ c.to \in Nodes
  BY Zenon, <1>1 DEF CallsOK, CallOK, OnNode
<1>3. Wanted(c) = c.to
  BY Zenon, <1>1 DEF Wanted
<1>4. task' = [task EXCEPT ![t] = f]
  BY Zenon, <1>1, <1>3 DEF Get, Go, Taken
<1>5. task'[t] = f
  BY Zenon, <1>1, <1>4 DEF CallsOK
<1>6. f.pc = "send" /\ f.left = c.left /\ f.cmds = c.cmds /\ f.conn.node = c.to
  <2>1. f.conn = Taken(c.to) /\ Taken(c.to).node = c.to
    BY Zenon, <1>1, <1>2, TakenOK DEF CallType
  <2> QED
    BY Zenon, <1>2, <2>1 DEF CallType
<1> HIDE DEF f
<1> QED
  BY Zenon, <1>1, <1>5, <1>6 DEF OnCourse, Executes

(* When all is calm a node executes a command or names its owner. *)
LEMMA CalmSend ==
  ASSUME ClusterInv, Agreed, calm, NEW t \in Tasks, Send(t), task[t].kind = "execute", HasOwner(task[t]), OnCourse(t, task[t])
  PROVE  OnCourse(t, task'[t])
<1> DEFINE c == task[t]
           F(r) == [c EXCEPT !.conn = Sent(@, r), !.runs = Ran(c, r), !.pc = IF @ = "send" THEN "read" ELSE "askread"]
<1>1. CallsOK /\ ServersOK /\ c.pc = "send"
  BY Zenon DEF ClusterInv, Send, OnCourse
<1>2. c \in CallType /\ InHand(t, c) /\ c.conn.node \in Nodes /\ c.conn.owed = <<>>
  BY Zenon, <1>1 DEF CallsOK, CallOK, OnNode
<1>3. c.i = 1 /\ c.conn \in Conn /\ 1 \in DOMAIN c.cmds /\ c.cmds[1] \in Commands
  BY Zenon, <1>2, OneCommand DEF CallType
<1>4. PICK r \in Answers(c.conn.node, c.cmds[1], c.conn.asking, Ok(t, c)) : task' = [task EXCEPT ![t] = F(r)]
  BY Zenon, <1>3 DEF Send, Go
<1>5. \/ r = Ok(t, c)
      \/ c.cmds[1].slot # NoSlot /\ c.conn.node # owner[c.cmds[1].slot] /\ r = <<"moved", c.cmds[1].slot, owner[c.cmds[1].slot]>>
  <2>1. c.cmds[1].slot # NoSlot => owner[c.cmds[1].slot] # NoNode
    BY Zenon, <1>3 DEF HasOwner
  <2> DEFINE n == c.conn.node
             k == c.cmds[1]
             asking == c.conn.asking
             ok == Ok(t, c)
  <2>2. n \in Nodes /\ k \in Commands /\ r \in Answers(n, k, asking, ok) /\ (k.slot # NoSlot => owner[k.slot] # NoNode)
    BY Zenon, <1>2, <1>3, <1>4, <2>1
  <2>3. down = {} /\ (\A s \in Slots : importer[s] = NoNode) /\ view[n] = owner
    BY Zenon, <2>2 DEF Agreed
  <2> HIDE DEF n, k, asking, ok
  <2>4. r = ok \/ (k.slot # NoSlot /\ n # owner[k.slot] /\ r = <<"moved", k.slot, owner[k.slot]>>)
    <3>1. k.slot \in Slots \cup {NoSlot} /\ n # NoNode
      BY Zenon, <2>2, ClusterAssumption
    <3> QED
      BY ONLY <2>2, <2>3, <3>1, Zenon DEF Answers
  <2> QED
    BY Zenon, <2>4 DEF n, k, ok
<1>6. task'[t] = F(r)
  BY Zenon, <1>1, <1>4 DEF CallsOK
<1>7. Append(c.conn.owed, r) = <<r>>
  BY <1>2
<1>8. Sent(c.conn, r).owed = <<r>>
  BY Zenon, <1>3, <1>7 DEF Sent, Conn
<1>9. /\ F(r).pc = "read" /\ F(r).conn = Sent(c.conn, r) /\ F(r).left = c.left
      /\ F(r).cmds = c.cmds /\ F(r).n = c.n /\ F(r).i = c.i
  BY Zenon, <1>1, <1>2 DEF CallType
<1> HIDE DEF F
<1>10. Ok(t, F(r)) = Ok(t, c)
  BY Zenon, <1>9 DEF Ok
<1>11. c.left >= 1 \/ Executes(c, c.conn.node)
  BY Zenon, <1>1 DEF OnCourse
<1>12. F(r).conn.owed = <<Ok(t, F(r))>> \/ (F(r).left >= 1 /\ Redirected(F(r)))
  BY Zenon, <1>5, <1>8, <1>9, <1>10, <1>11 DEF Executes, Redirected
<1> QED
  BY Zenon, <1>6, <1>9, <1>12 DEF OnCourse

LEMMA CalmRead ==
  ASSUME ClusterInv, NEW t \in Tasks, Read(t), task[t].kind = "execute", OnCourse(t, task[t])
  PROVE  OnCourse(t, task'[t])
<1> DEFINE d == task[t]
           r == Head(d.conn.owed)
           c == [d EXCEPT !.conn.owed = Tail(@)]
<1>1. CallsOK /\ d.pc = "read"
  BY Zenon DEF ClusterInv, Read
<1>2. d \in CallType /\ Told(t, d) /\ InHand(t, d) /\ Replied(t, d.n, d.i, r, d.runs, d.results)
  BY Zenon, <1>1 DEF CallsOK, CallOK, OnNode
<1>3. /\ c.pc = d.pc /\ c.left = d.left /\ c.kind = "execute" /\ c.cmds = d.cmds /\ c.runs = d.runs
      /\ DOMAIN c = DOMAIN d /\ c.n = d.n /\ c.i = d.i
  BY Zenon, <1>2 DEF CallType
<1>4. {"pc", "left", "to", "status", "runs", "cmds"} \subseteq DOMAIN c
  BY <1>2, <1>3 DEF CallType
<1>5. CASE d.conn.owed = <<Ok(t, d)>>
  <2>1. r = <<"ok", t, d.n, d.i>> /\ r[1] = "ok"
    BY <1>5 DEF Ok
  <2>2. d.runs = << 1 >>
    <3>1. r \notin Refusals
      BY <2>1 DEF Refusals
    <3>2. d.i = 1 /\ Len(d.cmds) = 1 /\ d.runs[d.i] = 1
      BY Zenon, <1>2, <3>1, OneCommand DEF Replied
    <3>3. d.cmds \in Seq(Commands) /\ d.runs \in Seq(Nat) /\ DOMAIN d.runs = DOMAIN d.cmds
      BY Zenon, <1>2 DEF CallType, Told
    <3>4. Len(d.runs) = 1 /\ d.runs[1] = 1
      BY <3>2, <3>3
    <3> HIDE DEF r
    <3> QED
      BY <3>3, <3>4
  <2>3. Deliver(t, c, r)
    BY Zenon, <2>1 DEF Read
  <2> DEFINE f == [[c EXCEPT !.conn = NoConn, !.results[c.i] = r] EXCEPT !.pc = "idle", !.status = "ok"]
  <2>4. task' = [task EXCEPT ![t] = f]
    BY Zenon, <1>3, <2>3 DEF Deliver, Go
  <2>5. task'[t] = f
    BY Zenon, <1>1, <2>4 DEF CallsOK
  <2>6. f.pc = "idle" /\ f.status = "ok" /\ f.runs = c.runs
    <3> HIDE DEF c
    <3> QED
      BY Zenon, <1>4
  <2> HIDE DEF f
  <2> QED
    BY Zenon, <1>3, <2>2, <2>5, <2>6 DEF OnCourse
<1>6. CASE d.left >= 1 /\ Redirected(d)
  <2>1. r = <<"moved", d.cmds[1].slot, owner[d.cmds[1].slot]>> /\ r[1] = "moved" /\ r[3] = owner[d.cmds[1].slot]
    BY <1>6 DEF Redirected
  <2>2. c.left # 0
    BY <1>3, <1>6
  <2>3. Again(t, c, "get", r[3], c.left - 1)
    BY Zenon, <2>1, <2>2 DEF Read
  <2> DEFINE f == [c EXCEPT !.conn = NoConn, !.pc = "get", !.to = r[3], !.left = c.left - 1]
  <2>4. task' = [task EXCEPT ![t] = f]
    BY Zenon, <2>3 DEF Again, Go
  <2>5. task'[t] = f
    BY Zenon, <1>1, <2>4 DEF CallsOK
  <2>6. f.pc = "get" /\ f.to = r[3] /\ f.cmds = c.cmds
    <3> HIDE DEF c, r
    <3> QED
      BY Zenon, <1>4
  <2> HIDE DEF f
  <2> QED
    BY ZenonT(20), <1>3, <2>1, <2>5, <2>6 DEF OnCourse, Executes
<1> QED
  BY Zenon, <1>1, <1>5, <1>6 DEF OnCourse

(* A command that begins when all is calm begins well. *)
LEMMA CalmStarts ==
  ASSUME CallsOK, NEW t \in Tasks, Call(t), task'[t].start = "calm", task'[t].kind = "execute"
  PROVE  calm /\ OnCourse(t, task'[t])
<1> DEFINE begin == IF ~calm \/ fetched # {} \/ ~CleanPools \/ \E u \in Tasks \ {t} : task[u].pc # "idle"
                    THEN "busy" ELSE "calm"
<1>1. PICK k \in Kinds : \E cmds \in [1..(IF k = "pipeline" THEN Batch ELSE 1) -> Commands] :
        task' = [task EXCEPT ![t] =
                   [Idle EXCEPT !.pc = IF k = "pipeline" THEN "group" ELSE "route", !.kind = k, !.n = task[t].n + 1, !.cmds = cmds,
                                !.addrs = [j \in DOMAIN cmds |-> NoNode],
                                !.results = [j \in DOMAIN cmds |-> <<"none">>],
                                !.runs = [j \in DOMAIN cmds |-> 0], !.start = begin]]
  BY Zenon DEF Call, Go
<1>2. PICK cmds :
        task' = [task EXCEPT ![t] =
                   [Idle EXCEPT !.pc = IF k = "pipeline" THEN "group" ELSE "route", !.kind = k, !.n = task[t].n + 1, !.cmds = cmds,
                                !.addrs = [j \in DOMAIN cmds |-> NoNode],
                                !.results = [j \in DOMAIN cmds |-> <<"none">>],
                                !.runs = [j \in DOMAIN cmds |-> 0], !.start = begin]]
  BY Zenon, <1>1
<1> HIDE DEF begin
<1>3. /\ task'[t].pc = IF k = "pipeline" THEN "group" ELSE "route"
      /\ task'[t].kind = k /\ task'[t].left = MAX_REDIRECTS /\ task'[t].start = begin
  BY Zenon, <1>2 DEF CallsOK, Idle
<1>4. task'[t].pc = "route"
  BY Zenon, <1>3
<1>5. MAX_REDIRECTS >= 1
  BY ClusterAssumption
<1>6. calm
  BY Zenon, <1>3 DEF begin
<1> QED
  BY Zenon, <1>3, <1>4, <1>5, <1>6 DEF OnCourse

(* A MOVED reply leaves no slot without a range. *)
LEMMA UpdateServes ==
  ASSUME NEW m, Bounded(m), NEW slot, NEW addr, NEW s, RangesOf(m, s) # {}
  PROVE  RangesOf(update_slot_master(m, slot, addr), s) # {}
<1> DEFINE Updated(r) == IF slot \in r.start..r.end THEN [r EXCEPT !.master = addr] ELSE r
<1>1. PICK r \in m : s \in r.start..r.end
  BY Zenon DEF RangesOf
<1>2. Updated(r).start = r.start /\ Updated(r).end = r.end
  BY Zenon DEF Bounded
<1>3. Updated(r) \in update_slot_master(m, slot, addr)
  BY Zenon DEF update_slot_master
<1> HIDE DEF Updated
<1> QED
  BY Zenon, <1>1, <1>2, <1>3 DEF RangesOf

-----------------------------------------------------------------------------
(* The next command of a group, and the first range of a map *)

WF == INSTANCE WellFoundedInduction

(* A set of numbers has a least one. *)
LEMMA Least ==
  ASSUME NEW S \in SUBSET Nat, S # {}
  PROVE  \E x \in S : \A y \in S : x <= y
<1>1. PICK x \in S : \A y \in S : ~(<<y, x>> \in WF!OpToRel(<, Nat))
  BY Zenon, WF!NatLessThanWellFounded, WF!WFMin
<1>2. \A y \in S : ~(y < x)
  BY Zenon, <1>1 DEF WF!OpToRel
<1> QED
  BY <1>2

LEMMA FirstOf ==
  ASSUME NEW S \in SUBSET Nat, S # {}
  PROVE  First(S) \in S /\ \A y \in S : First(S) <= y
BY Zenon, Least DEF First

(* The reply of a group has been read, and not the last one. *)
LEMMA GroupGoesOn ==
  ASSUME NEW t \in Tasks, NEW c, NEW r, HasRead(t, c, r), c.kind # "execute",
         NEW rest, rest = Members(c, c.addr, c.i), rest # {}
  PROVE  CallOK(t, [Done(c, r) EXCEPT !.pc = "groupread", !.i = First(rest)])
<1> DEFINE done == Done(c, r)
           i == First(rest)
           f == [done EXCEPT !.pc = "groupread", !.i = i]
<1>1. c \in CallType /\ c.i \in Nat /\ InGroup(c) /\ Holds(t, c, {m \in Group(c) : m > c.i})
  BY Zenon DEF HasRead, CallType, InHand
<1>0. Noted(t, c, done)
  BY Zenon, DoneOK
<1> HIDE DEF done
<1>2. /\ done \in CallType /\ Told(t, done) /\ done.conn = NoConn
      /\ done.n = c.n /\ done.cmds = c.cmds /\ done.addrs = c.addrs /\ done.todo = c.todo /\ done.runs = c.runs
      /\ done.kind = c.kind /\ done.held = c.held /\ done.i = c.i /\ done.addr = c.addr
      /\ \A m \in DOMAIN c.cmds : m # c.i => done.results[m] = c.results[m]
  BY Zenon, <1>0 DEF Noted
<1>3. rest = {m \in Group(c) : m > c.i} /\ rest \in SUBSET Nat /\ Group(c) \in SUBSET Nat
  <2>1. Members(c, c.addr, c.i) = {m \in Group(c) : m > c.i} /\ Group(c) \in SUBSET Nat
    BY Zenon, <1>1, GroupNumbers
  <2> QED
    BY Zenon, <2>1
<1>4. i \in rest /\ i \in Nat /\ \A y \in rest : i <= y
  BY Zenon, <1>3, FirstOf
<1> HIDE DEF i
<1>5. /\ f \in CallType /\ f.pc = "groupread" /\ f.i = i /\ f.conn = NoConn
      /\ f.n = done.n /\ f.cmds = done.cmds /\ f.addrs = done.addrs /\ f.todo = done.todo /\ f.runs = done.runs
      /\ f.results = done.results /\ f.kind = done.kind /\ f.held = done.held /\ f.addr = done.addr
  BY Zenon, <1>2, <1>4 DEF CallType
<1> HIDE DEF f
<1>6. Told(t, f) /\ Group(f) = Group(c)
  BY ZenonT(40), <1>2, <1>5, ToldKept DEF Group
<1>7. {m \in Group(f) : m >= f.i} = rest
  BY <1>1, <1>3, <1>4, <1>5, <1>6
<1>8. InGroup(f)
  BY Zenon, <1>1, <1>2, <1>3, <1>4, <1>5, <1>6 DEF InGroup
<1>9. \A m \in rest : f.runs[m] = c.runs[m] /\ f.results[m] = c.results[m]
  <2>1. \A m \in rest : m \in DOMAIN c.cmds /\ m # c.i
    BY <1>1, <1>3 DEF Group
  <2> QED
    BY Zenon, <1>2, <1>5, <2>1
<1>10. Outstanding(t, c.n, c.held.owed, c.runs, c.results, rest)
  BY Zenon, <1>1, <1>3 DEF Holds
<1>11. Outstanding(t, c.n, c.held.owed, f.runs, f.results, rest)
  BY SMTT(20), <1>9, <1>10, OutstandingKept
<1>12. Holds(t, f, {m \in Group(f) : m >= f.i})
  BY Zenon, <1>1, <1>2, <1>5, <1>7, <1>11 DEF Holds
<1>13. CallOK(t, f)
  BY ZenonT(20), <1>5, <1>6, <1>8, <1>12 DEF CallOK
<1> QED
  BY Zenon, <1>13 DEF f, done, i

(* A pipeline turns to its next group. *)
LEMMA NextGroupOK ==
  ASSUME NEW t \in Tasks, NEW c, CallOK(t, c), c.pc = "next", NEW a \in c.todo, a # NoNode
  PROVE  CallOK(t, [c EXCEPT !.todo = @ \ {a}, !.addr = a, !.i = First(Members(c, a, 0)), !.pc = "groupget"])
<1> DEFINE todo == c.todo \ {a}
           i == First(Members(c, a, 0))
           f == [c EXCEPT !.todo = todo, !.addr = a, !.i = i, !.pc = "groupget"]
<1>1. c \in CallType /\ Told(t, c) /\ NoGuards(c) /\ c.kind = "pipeline"
  BY Zenon DEF CallOK
<1>2. todo \in SUBSET Addr /\ a \in Addr /\ a \in Nodes
  BY Zenon, <1>1 DEF CallType, Addr
<1>3. /\ Members(c, a, 0) = {m \in DOMAIN c.cmds : c.addrs[m] = a} /\ Members(c, a, 0) \in SUBSET Nat
  <2>1. 0 \in Nat
    OBVIOUS
  <2>2. DOMAIN c.cmds \subseteq Nat /\ Members(c, a, 0) = {m \in DOMAIN c.cmds : c.addrs[m] = a}
    BY Zenon, <1>1, <2>1, GroupNumbers
  <2> QED
    BY Zenon, <2>2
<1>4. Members(c, a, 0) # {}
  BY Zenon, <1>1, <1>3 DEF Told
<1>5. i \in Members(c, a, 0) /\ i \in Nat /\ \A m \in Members(c, a, 0) : i <= m
  BY Zenon, <1>3, <1>4, FirstOf
<1> HIDE DEF i
<1>6. /\ f \in CallType /\ f.pc = "groupget" /\ NoGuards(f) /\ f.kind = "pipeline" /\ f.todo = todo /\ f.addr = a /\ f.i = i
      /\ f.n = c.n /\ f.cmds = c.cmds /\ f.addrs = c.addrs /\ f.runs = c.runs /\ f.results = c.results
  BY Zenon, <1>1, <1>2, <1>5 DEF CallType, NoGuards
<1> HIDE DEF f
<1>7. Group(f) = Members(c, a, 0)
  BY Zenon, <1>3, <1>6 DEF Group
<1>8. Told(t, f)
  <2>1. ASSUME NEW j \in DOMAIN f.cmds
        PROVE  /\ f.runs[j] <= 1
               /\ f.results[j][1] = "ok" => f.results[j] = <<"ok", t, f.n, j>> /\ f.runs[j] = 1
               /\ f.addrs[j] \in f.todo => Fresh(f, j)
    <3>1. j \in DOMAIN c.cmds
      BY Zenon, <1>6
    <3> QED
      BY Zenon, <1>1, <1>6, <3>1 DEF Told, Fresh
  <2>2. DOMAIN f.addrs = DOMAIN f.cmds /\ DOMAIN f.runs = DOMAIN f.cmds /\ DOMAIN f.results = DOMAIN f.cmds
    BY Zenon, <1>1, <1>6 DEF Told
  <2>3. ASSUME NEW b \in f.todo PROVE \E j \in DOMAIN f.cmds : f.addrs[j] = b
    <3>1. PICK j \in DOMAIN c.cmds : c.addrs[j] = b
      BY Zenon, <1>1, <1>6, <2>3 DEF Told
    <3>2. j \in DOMAIN f.cmds /\ f.addrs[j] = b
      BY Zenon, <1>6, <3>1
    <3> QED
      BY Zenon, <3>2
  <2> QED
    BY Zenon, <2>1, <2>2, <2>3 DEF Told
<1>9. ASSUME NEW j \in Group(f) PROVE f.i <= j /\ Fresh(f, j)
  <2>1. j \in Members(c, a, 0) /\ j \in DOMAIN c.cmds /\ c.addrs[j] = a
    BY Zenon, <1>3, <1>7, <1>9
  <2> QED
    BY Zenon, <1>1, <1>5, <1>6, <2>1 DEF Told, Fresh
<1>10. InGroup(f)
  BY Zenon, <1>2, <1>5, <1>6, <1>7 DEF InGroup
<1>11. CallOK(t, f)
  BY ZenonT(20), <1>6, <1>8, <1>9, <1>10 DEF CallOK
<1> QED
  BY Zenon, <1>11 DEF f, i

(* A command of a group is sent and answered. *)
LEMMA GroupSentOK ==
  ASSUME NEW t \in Tasks, NEW c, CallOK(t, c), c.pc = "groupsend", NEW r, r = Ok(t, c) \/ r \in Refusals,
         NEW rest, rest = Members(c, c.addr, c.i)
  PROVE  CallOK(t, [c EXCEPT !.held = Sent(@, r), !.runs = Ran(c, r),
                             !.i = First(IF rest = {} THEN Members(c, c.addr, 0) ELSE rest),
                             !.pc = IF rest = {} THEN "groupread" ELSE @])
<1> DEFINE next == First(IF rest = {} THEN Members(c, c.addr, 0) ELSE rest)
           pc == IF rest = {} THEN "groupread" ELSE "groupsend"
           f == [c EXCEPT !.held = Sent(@, r), !.runs = Ran(c, r), !.i = next, !.pc = pc]
           S == {m \in Group(c) : m < c.i}
<1>0. [c EXCEPT !.held = Sent(@, r), !.runs = Ran(c, r), !.i = next, !.pc = IF rest = {} THEN "groupread" ELSE @] = f
  BY Zenon
<1>1. /\ c \in CallType /\ Told(t, c) /\ c.conn = NoConn /\ InGroup(c) /\ Holds(t, c, S)
      /\ \A j \in Group(c) : c.i <= j => Fresh(c, j)
  BY Zenon DEF CallOK
<1>2. c.held \in Conn /\ c.held.owed \in Seq(Reply) /\ c.i \in Nat /\ DOMAIN c.runs = DOMAIN c.cmds
  BY Zenon, <1>1 DEF CallType, Conn, Told
<1>3. /\ Group(c) \in SUBSET Nat /\ rest = {m \in Group(c) : m > c.i} /\ Members(c, c.addr, 0) = Group(c)
  <2>1. 0 \in Nat
    OBVIOUS
  <2>2. /\ Group(c) \in SUBSET Nat /\ Members(c, c.addr, c.i) = {m \in Group(c) : m > c.i}
        /\ Members(c, c.addr, 0) = {m \in DOMAIN c.cmds : c.addrs[m] = c.addr}
    BY Zenon, <1>1, <1>2, <2>1, GroupNumbers
  <2> QED
    BY Zenon, <2>2 DEF Group
<1>4. c.i \in Group(c) /\ c.i \in DOMAIN c.cmds /\ c.addrs[c.i] \notin c.todo
  BY Zenon, <1>1 DEF InGroup, Group
<1>5. Fresh(c, c.i)
  <2>1. c.i <= c.i
    BY <1>2
  <2> QED
    BY Zenon, <1>1, <1>4, <2>1
<1>6. /\ r \in Reply /\ Replied(t, c.n, c.i, r, Ran(c, r), c.results) /\ Ran(c, r) \in Seq(Nat)
      /\ \A m \in DOMAIN c.runs : m # c.i => Ran(c, r)[m] = c.runs[m]
      /\ \A g : g.n = c.n /\ g.cmds = c.cmds /\ g.addrs = c.addrs /\ g.todo = c.todo /\ g.results = c.results
                  /\ g.runs = Ran(c, r) => Told(t, g)
  BY ZenonT(30), <1>1, <1>4, <1>5, AnsweredOK
<1>7. next \in Group(c) /\ next \in Nat
      /\ (rest = {} => \A m \in Group(c) : next <= m) /\ (rest # {} => next > c.i /\ \A m \in Group(c) : m > c.i => next <= m)
  <2>1. CASE rest = {}
    <3>1. next = First(Group(c)) /\ Group(c) # {}
      BY Zenon, <1>3, <1>4, <2>1
    <3> QED
      BY Zenon, <1>3, <2>1, <3>1, FirstOf
  <2>2. CASE rest # {}
    <3>1. next = First(rest) /\ rest \in SUBSET Nat
      BY Zenon, <1>3, <2>2
    <3>2. next \in rest /\ \A m \in rest : next <= m
      BY Zenon, <2>2, <3>1, FirstOf
    <3> QED
      BY Zenon, <1>3, <2>2, <3>2
  <2> QED
    BY Zenon, <2>1, <2>2
<1>8. pc \in {"groupsend", "groupread"} /\ (pc = "groupread" => rest = {}) /\ (pc = "groupsend" => rest # {})
  BY Zenon
<1>9. Append(c.held.owed, r) \in Seq(Reply)
  BY <1>2, <1>6
<1>10. Sent(c.held, r) \in Conn /\ Sent(c.held, r).owed = Append(c.held.owed, r) /\ Sent(c.held, r).node = c.held.node
  BY Zenon, <1>2, <1>9 DEF Sent, Conn
<1> HIDE DEF next, pc
<1>11. /\ f \in CallType /\ f.pc = pc /\ f.held = Sent(c.held, r) /\ f.runs = Ran(c, r) /\ f.i = next /\ f.conn = NoConn
       /\ f.n = c.n /\ f.cmds = c.cmds /\ f.addrs = c.addrs /\ f.todo = c.todo /\ f.results = c.results
       /\ f.kind = c.kind /\ f.addr = c.addr
  BY Zenon, <1>1, <1>6, <1>7, <1>8, <1>10 DEF CallType
<1> HIDE DEF f
<1>12. Told(t, f) /\ Group(f) = Group(c) /\ InGroup(f)
  BY ZenonT(30), <1>1, <1>6, <1>7, <1>11 DEF Group, InGroup
<1>13. Outstanding(t, c.n, Append(c.held.owed, r), Ran(c, r), c.results, S \cup {c.i})
  <2>1. S \in SUBSET Nat /\ (\A m \in S : m < c.i /\ m \in DOMAIN c.runs /\ m # c.i)
    BY <1>2, <1>3 DEF Group
  <2>2. Outstanding(t, c.n, c.held.owed, c.runs, c.results, S)
    BY Zenon, <1>1 DEF Holds
  <2> HIDE DEF S
  <2>3. \A m \in S : Ran(c, r)[m] = c.runs[m]
    BY Zenon, <1>6, <2>1
  <2>4. Outstanding(t, c.n, c.held.owed, Ran(c, r), c.results, S)
    BY Zenon, <2>2, <2>3, OutstandingKept
  <2> QED
    BY Zenon, <1>2, <1>6, <2>1, <2>4, OneMoreSent
<1>14. Holds(t, f, S \cup {c.i})
  BY Zenon, <1>1, <1>10, <1>11, <1>13 DEF Holds
<1>15. CASE rest = {}
  <2>1. S \cup {c.i} = {m \in Group(f) : m >= f.i}
    BY SMTT(20), <1>2, <1>3, <1>4, <1>7, <1>11, <1>12, <1>15
  <2>2. f.pc = "groupread"
    BY Zenon, <1>8, <1>11, <1>15
  <2> HIDE DEF S
  <2>3. CallOK(t, f)
    BY ZenonT(30), <1>11, <1>12, <1>14, <2>1, <2>2 DEF CallOK
  <2> QED
    BY Zenon, <1>0, <2>3 DEF next
<1>16. CASE rest # {}
  <2>1. S \cup {c.i} = {m \in Group(f) : m < f.i}
    BY SMTT(20), <1>2, <1>3, <1>4, <1>7, <1>11, <1>12, <1>16
  <2>2. f.pc = "groupsend"
    BY Zenon, <1>8, <1>11, <1>16
  <2>3. ASSUME NEW j \in Group(f), f.i <= j PROVE Fresh(f, j)
    <3>1. j \in Group(c) /\ j \in DOMAIN c.runs /\ c.i <= j /\ j # c.i
      BY SMTT(20), <1>2, <1>3, <1>7, <1>11, <1>12, <1>16, <2>3 DEF Group
    <3>2. f.runs[j] = c.runs[j]
      BY ZenonT(20), <1>6, <1>11, <3>1
    <3> QED
      BY ZenonT(20), <1>1, <1>11, <3>1, <3>2 DEF Fresh
  <2> HIDE DEF S
  <2>4. CallOK(t, f)
    BY ZenonT(20), <1>11, <1>12, <1>14, <2>1, <2>2, <2>3 DEF CallOK
  <2> QED
    BY Zenon, <1>0, <2>4 DEF next
<1> QED
  BY Zenon, <1>15, <1>16

(* A reply is delivered. *)
LEMMA DeliverKeeps ==
  ASSUME CallsOK, PoolOK(idle), CleanPools, NEW t \in Tasks, NEW c, NEW r, HasRead(t, c, r), Deliver(t, c, r)
  PROVE  CallsOK' /\ PoolOK(idle') /\ Tidy
<1> DEFINE rest == Members(c, c.addr, c.i)
<1>1. /\ c \in CallType /\ InHand(t, c) /\ c.conn \in Conn /\ c.held \in Conn /\ c.held.owed \in Seq(Reply)
      /\ c.conn.owed = <<>> /\ Clean(idle)
  BY Zenon DEF HasRead, Clean, CleanPools, CallType, Conn
<1>2. PoolOK(Put(idle, c.conn)) /\ Clean(Put(idle, c.conn)) /\ PoolOK(Put(Put(idle, c.conn), c.held))
  BY Zenon, <1>1, PutOK, PutClean
<1>3. CASE c.kind = "execute"
  <2> DEFINE f == [Done(c, r) EXCEPT !.pc = "idle", !.status = "ok"]
  <2>1. task' = [task EXCEPT ![t] = f] /\ idle' = Put(idle, c.conn)
    BY Zenon, <1>3 DEF Deliver, Go, Done
  <2>2. CallOK(t, f)
    BY Zenon, <1>3, ExecutedOK
  <2> HIDE DEF f
  <2> QED
    BY Zenon, <1>2, <2>1, <2>2, CallChanges, PoolsTidy
<1>4. CASE c.kind # "execute" /\ rest # {}
  <2> DEFINE f == [Done(c, r) EXCEPT !.pc = "groupread", !.i = First(rest)]
  <2>1. task' = [task EXCEPT ![t] = f] /\ idle' = Put(idle, c.conn)
    BY Zenon, <1>4 DEF Deliver, Go, Done
  <2>2. CallOK(t, f)
    BY Zenon, <1>4, GroupGoesOn
  <2> HIDE DEF f
  <2> QED
    BY Zenon, <1>2, <2>1, <2>2, CallChanges, PoolsTidy
<1>5. CASE c.kind # "execute" /\ rest = {}
  <2> DEFINE f == [Done(c, r) EXCEPT !.pc = "next", !.held = NoConn]
  <2>1. task' = [task EXCEPT ![t] = f] /\ idle' = Put(Put(idle, c.conn), c.held)
    BY Zenon, <1>5 DEF Deliver, Go, Done
  <2>2. CallOK(t, f)
    BY Zenon, <1>5, GroupDoneOK
  <2> HIDE DEF f
  <2>3. c.held.owed = <<>>
    <3>1. Holds(t, c, {m \in Group(c) : m > c.i}) /\ c.i \in Nat
      BY Zenon, <1>1, <1>5 DEF InHand, CallType
    <3>2. {m \in Group(c) : m > c.i} = {}
      BY Zenon, <1>1, <1>5, <3>1, GroupNumbers
    <3> QED
      BY Zenon, <1>1, <3>1, <3>2, AllRead DEF Holds
  <2>4. Clean(idle')
    BY Zenon, <1>1, <1>2, <2>1, <2>3, PutClean
  <2> QED
    BY Zenon, <1>2, <2>1, <2>2, <2>4, CallChanges, PoolsTidy
<1> QED
  BY Zenon, <1>3, <1>4, <1>5

(* ranges.first() of a map that is not empty. *)
LEMMA FirstOK ==
  ASSUME NEW m, MapOK(m)
  PROVE  first_master(m) \in Addr /\ (m # {} => first_master(m) \in Nodes)
<1>1. \A r \in m : r.start \in Nat /\ r.master \in Nodes
  BY Zenon DEF MapOK, Ranges
<1>2. CASE m = {}
  BY Zenon, <1>2 DEF first_master, Addr
<1>3. CASE m # {}
  <2> DEFINE S == {r.start : r \in m}
  <2>1. S \in SUBSET Nat /\ S # {}
    BY Zenon, <1>1, <1>3
  <2>2. PICK x \in S : \A y \in S : x <= y
    BY Zenon, <2>1, Least
  <2>3. \E r \in m : \A o \in m : r.start <= o.start
    BY Zenon, <2>2
  <2> QED
    BY Zenon, <1>1, <1>3, <2>3 DEF first_master, Addr
<1> QED
  BY Zenon, <1>2, <1>3

LEMMA Remainder ==
  ASSUME NEW a \in Nat, NEW n \in Nat, n # 0
  PROVE  (a % n) + 1 \in 1..n
OBVIOUS

(* Every command is routed to a node, or to none. *)
LEMMA RouteOK ==
  ASSUME MapOK(slot_map), NEW c \in Commands
  PROVE  /\ Route(c) \in Addr
         /\ slot_map # {} /\ (c.slot # NoSlot => RangesOf(slot_map, c.slot) # {}) => Route(c) \in Nodes
<1>1. Slots \subseteq Nat /\ c.slot \in Slots \cup {NoSlot}
  BY Zenon, ClusterAssumption
<1>2. \A r \in slot_map : r.master \in Nodes /\ r.replicas \in Seq(Nodes)
  BY Zenon DEF MapOK, Ranges
<1>3. first_master(slot_map) \in Addr /\ (slot_map # {} => first_master(slot_map) \in Nodes)
  BY Zenon, FirstOK
<1>4. /\ master_for_slot(slot_map, c.slot) \in Addr
      /\ RangesOf(slot_map, c.slot) # {} => master_for_slot(slot_map, c.slot) \in Nodes
  BY Zenon, <1>2 DEF master_for_slot, RangesOf, Addr
<1>5. ASSUME c.slot \in Nat
      PROVE  /\ replica_for_slot(slot_map, c.slot) \in Addr
             /\ RangesOf(slot_map, c.slot) # {} => replica_for_slot(slot_map, c.slot) \in Nodes
  <2>1. CASE RangesOf(slot_map, c.slot) = {}
    BY Zenon, <2>1 DEF replica_for_slot, Addr
  <2>2. CASE RangesOf(slot_map, c.slot) # {}
    <3> DEFINE r == CHOOSE r \in RangesOf(slot_map, c.slot) : TRUE
    <3>1. r \in slot_map
      BY Zenon, <2>2 DEF RangesOf
    <3>2. replica_for_slot(slot_map, c.slot) =
            IF r.replicas = <<>> THEN r.master ELSE r.replicas[(c.slot % Len(r.replicas)) + 1]
      BY Zenon, <2>2 DEF replica_for_slot
    <3> HIDE DEF r
    <3>3. CASE r.replicas = <<>>
      BY Zenon, <1>2, <3>1, <3>2, <3>3 DEF Addr
    <3>4. CASE r.replicas # <<>>
      <4>1. r.replicas \in Seq(Nodes) /\ Len(r.replicas) \in Nat /\ Len(r.replicas) # 0
        BY <1>2, <3>1, <3>4
      <4>2. (c.slot % Len(r.replicas)) + 1 \in 1..Len(r.replicas)
        BY Zenon, <1>5, <4>1, Remainder
      <4> QED
        BY <3>2, <3>4, <4>1, <4>2 DEF Addr
    <3> QED
      BY Zenon, <3>3, <3>4
  <2> QED
    BY Zenon, <2>1, <2>2
<1> QED
  BY Zenon, <1>1, <1>3, <1>4, <1>5 DEF Route

LEMMA SendGroupKeeps ==
  ASSUME ClusterInv, CleanPools, NEW t \in Tasks, SendGroup(t)
  PROVE  ClusterInv' /\ Tidy
<1> DEFINE c == task[t]
           rest == Members(c, c.addr, c.i)
<1>1. CallsOK /\ ServersOK
  BY Zenon DEF ClusterInv
<1>2. CallOK(t, c) /\ c.pc = "groupsend"
  BY Zenon, <1>1 DEF CallsOK, SendGroup
<1>3. c \in CallType /\ c.cmds \in Seq(Commands) /\ c.i \in DOMAIN c.cmds /\ c.held.node \in Nodes
  BY Zenon, <1>2 DEF CallOK, CallType, InGroup, Group, Holds
<1>4. c.cmds[c.i] \in Commands
  BY <1>3
<1>5. PICK r \in Answers(c.held.node, c.cmds[c.i], c.held.asking, Ok(t, c)) :
        task' = [task EXCEPT ![t] = [c EXCEPT !.held = Sent(@, r), !.runs = Ran(c, r),
                                              !.i = First(IF rest = {} THEN Members(c, c.addr, 0) ELSE rest),
                                              !.pc = IF rest = {} THEN "groupread" ELSE @]]
  BY Zenon DEF SendGroup, Go
<1>6. r = Ok(t, c) \/ r \in Refusals
  BY Zenon, <1>1, <1>3, <1>4, AnswersOK
<1> DEFINE f == [c EXCEPT !.held = Sent(@, r), !.runs = Ran(c, r),
                          !.i = First(IF rest = {} THEN Members(c, c.addr, 0) ELSE rest),
                          !.pc = IF rest = {} THEN "groupread" ELSE @]
<1>7. CallOK(t, f) /\ task' = [task EXCEPT ![t] = f]
  BY Zenon, <1>2, <1>5, <1>6, GroupSentOK
<1> HIDE DEF f
<1> QED
  BY Zenon, <1>7, CallOnly DEF SendGroup

LEMMA ReadKeeps ==
  ASSUME ClusterInv, CleanPools, NEW t \in Tasks, Read(t)
  PROVE  ClusterInv' /\ Tidy
<1> DEFINE r == Head(task[t].conn.owed)
           c == [task[t] EXCEPT !.conn.owed = Tail(@)]
<1>1. CallsOK /\ PoolOK(idle)
  BY Zenon DEF ClusterInv
<1>2. CallOK(t, task[t]) /\ task[t].pc = "read" /\ task[t].to \in Nodes /\ UNCHANGED <<servers, nodes, fetched>>
  BY Zenon, <1>1 DEF CallsOK, Read, CallOK, OnNode
<1>3. \/ Fail(t, c) /\ UNCHANGED slot_map
      \/ r[1] = "moved" /\ slot_map' = update_slot_master(slot_map, r[2], r[3]) /\ Again(t, c, "get", r[3], c.left - 1)
      \/ r[1] = "ask" /\ Again(t, c, "askget", r[3], c.left) /\ UNCHANGED slot_map
      \/ r[1] = "tryagain" /\ Again(t, c, "get", c.to, c.left - 1) /\ UNCHANGED slot_map
      \/ Deliver(t, c, r) /\ UNCHANGED slot_map
  BY Zenon DEF Read
<1>4. r = Head(task[t].conn.owed) /\ c = [task[t] EXCEPT !.conn.owed = Tail(@)]
  BY Zenon
<1> HIDE DEF r, c
<1>5. HasRead(t, c, r)
  <2>1. task[t].pc \in {"read", "askread"}
    BY Zenon, <1>2
  <2> QED
    BY Zenon, <1>2, <1>4, <2>1, ReadOK
<1>6. /\ c \in CallType /\ Told(t, c) /\ InHand(t, c) /\ c.conn.owed = <<>> /\ c.left \in Int
  BY Zenon, <1>5 DEF HasRead, CallType
<1>7. c.to \in Nodes /\ c.left - 1 \in Int
  <2>1. c.to = task[t].to
    BY Zenon, <1>2, <1>4 DEF CallOK, CallType
  <2>2. c.left - 1 \in Int
    BY <1>6
  <2> QED
    BY Zenon, <1>2, <2>1, <2>2
<1>8. c.kind = "execute" => c.held = NoConn
  BY Zenon, <1>6 DEF InHand, InGroup
<1>9. Learns(r) /\ CallsOK' /\ PoolOK(idle') /\ Tidy
  <2>1. CASE Fail(t, c) /\ UNCHANGED slot_map
    BY Zenon, <1>1, <1>6, <1>8, <2>1, FailKeeps DEF Learns
  <2>2. CASE r[1] = "moved" /\ slot_map' = update_slot_master(slot_map, r[2], r[3]) /\ Again(t, c, "get", r[3], c.left - 1)
    <3>1. r \in Refusals /\ r[3] \in Nodes
      BY Zenon, <1>5, <2>2, Redirects
    <3>2. CallsOK' /\ PoolOK(idle') /\ Tidy
      BY Zenon, <1>1, <1>5, <1>7, <2>2, <3>1, AgainKeeps
    <3> QED
      BY Zenon, <2>2, <3>1, <3>2 DEF Learns
  <2>3. CASE r[1] = "ask" /\ Again(t, c, "askget", r[3], c.left) /\ UNCHANGED slot_map
    <3>1. r \in Refusals /\ r[3] \in Nodes
      BY Zenon, <1>5, <2>3, Redirects
    <3>2. CallsOK' /\ PoolOK(idle') /\ Tidy
      BY Zenon, <1>1, <1>5, <1>6, <2>3, <3>1, AgainKeeps
    <3> QED
      BY Zenon, <2>3, <3>2 DEF Learns
  <2>4. CASE r[1] = "tryagain" /\ Again(t, c, "get", c.to, c.left - 1) /\ UNCHANGED slot_map
    <3>1. r \in Refusals
      BY Zenon, <1>5, <2>4, Redirects
    <3>2. CallsOK' /\ PoolOK(idle') /\ Tidy
      BY Zenon, <1>1, <1>5, <1>7, <2>4, <3>1, AgainKeeps
    <3> QED
      BY Zenon, <2>4, <3>2 DEF Learns
  <2>5. CASE Deliver(t, c, r) /\ UNCHANGED slot_map
    BY Zenon, <1>1, <1>5, <2>5, DeliverKeeps DEF Learns
  <2> QED
    BY Zenon, <1>3, <2>1, <2>2, <2>3, <2>4, <2>5
<1> QED
  BY Zenon, <1>2, <1>9, LearnsOK

LEMMA ReadAskedKeeps ==
  ASSUME ClusterInv, CleanPools, NEW t \in Tasks, ReadAsked(t)
  PROVE  ClusterInv' /\ Tidy
<1> DEFINE r == Head(task[t].conn.owed)
           c == [task[t] EXCEPT !.conn.owed = Tail(@)]
<1>1. CallsOK /\ PoolOK(idle)
  BY Zenon DEF ClusterInv
<1>2. CallOK(t, task[t]) /\ task[t].pc \in {"read", "askread"}
  BY Zenon, <1>1 DEF CallsOK, ReadAsked
<1>3. Deliver(t, c, r) /\ UNCHANGED <<servers, nodes, slot_map, fetched>>
  BY Zenon DEF ReadAsked
<1>4. HasRead(t, c, r)
  BY Zenon, <1>2, ReadOK
<1> HIDE DEF r, c
<1>5. Learns(r) /\ CallsOK' /\ PoolOK(idle') /\ Tidy
  BY Zenon, <1>1, <1>3, <1>4, DeliverKeeps DEF Learns
<1> QED
  BY Zenon, <1>3, <1>5, LearnsOK

LEMMA ReadGroupKeeps ==
  ASSUME ClusterInv, CleanPools, NEW t \in Tasks, ReadGroup(t)
  PROVE  ClusterInv' /\ Tidy
<1> DEFINE r == Head(task[t].held.owed)
           c == [task[t] EXCEPT !.held.owed = Tail(@)]
<1>1. CallsOK /\ PoolOK(idle)
  BY Zenon DEF ClusterInv
<1>2. CallOK(t, task[t]) /\ task[t].pc = "groupread" /\ UNCHANGED <<servers, nodes, fetched>>
  BY Zenon, <1>1 DEF CallsOK, ReadGroup
<1>3. \/ /\ r[1] = "moved" /\ slot_map' = update_slot_master(slot_map, r[2], r[3])
         /\ Again(t, c, "get", r[3], MAX_REDIRECTS - 1)
      \/ r[1] = "ask" /\ Again(t, c, "askget", r[3], c.left) /\ UNCHANGED slot_map
      \/ Deliver(t, c, r) /\ UNCHANGED slot_map
  BY Zenon DEF ReadGroup
<1>4. HasRead(t, c, r)
  BY Zenon, <1>2, ReadGroupOK
<1> HIDE DEF r, c
<1>5. c.left \in Int /\ MAX_REDIRECTS - 1 \in Int
  <2>1. c \in CallType
    BY Zenon, <1>4 DEF HasRead
  <2> QED
    BY <2>1, ClusterAssumption DEF CallType
<1>6. Learns(r) /\ CallsOK' /\ PoolOK(idle') /\ Tidy
  <2>1. CASE /\ r[1] = "moved" /\ slot_map' = update_slot_master(slot_map, r[2], r[3])
             /\ Again(t, c, "get", r[3], MAX_REDIRECTS - 1)
    <3>1. r \in Refusals /\ r[3] \in Nodes
      BY Zenon, <1>4, <2>1, Redirects
    <3>2. CallsOK' /\ PoolOK(idle') /\ Tidy
      BY ZenonT(20), <1>1, <1>4, <1>5, <2>1, <3>1, AgainKeeps
    <3> QED
      BY Zenon, <2>1, <3>1, <3>2 DEF Learns
  <2>2. CASE r[1] = "ask" /\ Again(t, c, "askget", r[3], c.left) /\ UNCHANGED slot_map
    <3>1. r \in Refusals /\ r[3] \in Nodes
      BY Zenon, <1>4, <2>2, Redirects
    <3>2. CallsOK' /\ PoolOK(idle') /\ Tidy
      BY ZenonT(20), <1>1, <1>4, <1>5, <2>2, <3>1, AgainKeeps
    <3> QED
      BY Zenon, <2>2, <3>2 DEF Learns
  <2>3. CASE Deliver(t, c, r) /\ UNCHANGED slot_map
    BY Zenon, <1>1, <1>4, <2>3, DeliverKeeps DEF Learns
  <2> QED
    BY Zenon, <1>3, <2>1, <2>2, <2>3
<1> QED
  BY Zenon, <1>2, <1>6, LearnsOK

LEMMA RoutedKeeps ==
  ASSUME ClusterInv, CleanPools, NEW t \in Tasks, execute_routed(t)
  PROVE  ClusterInv' /\ Tidy
<1> DEFINE a == Route(task[t].cmds[1])
<1>1. CallsOK /\ MapOK(slot_map)
  BY Zenon DEF ClusterInv, MapsOK
<1>2. CallOK(t, task[t]) /\ task[t].pc = "route"
  BY Zenon, <1>1 DEF CallsOK, execute_routed
<1>3. task[t].cmds[1] \in Commands
  <2>1. task[t].cmds \in Seq(Commands) /\ Len(task[t].cmds) = 1
    BY Zenon, <1>2 DEF CallOK, CallType, InHand, InGroup
  <2> QED
    BY <2>1
<1>4. a \in Addr
  BY Zenon, <1>1, <1>3, RouteOK
<1> DEFINE f == IF a = NoNode THEN [task[t] EXCEPT !.pc = "idle", !.status = "error"]
                ELSE [task[t] EXCEPT !.pc = "get", !.to = a]
<1>5. task' = [task EXCEPT ![t] = f]
  BY Zenon DEF execute_routed, Go
<1> HIDE DEF a
<1>6. CallOK(t, f)
  BY Zenon, <1>2, <1>4, RoutedOK
<1> HIDE DEF f
<1> QED
  BY Zenon, <1>5, <1>6, CallOnly DEF execute_routed

LEMMA GroupKeeps ==
  ASSUME ClusterInv, CleanPools, NEW t \in Tasks, GroupNext(t)
  PROVE  ClusterInv' /\ Tidy
<1> DEFINE c == task[t]
           a == Route(c.cmds[c.i])
           addrs == [c.addrs EXCEPT ![c.i] = a]
           f == IF c.i < Len(c.cmds) THEN [c EXCEPT !.addrs = addrs, !.i = @ + 1]
                ELSE [c EXCEPT !.addrs = addrs, !.todo = Range(addrs), !.pc = "next"]
<1>1. CallsOK /\ MapOK(slot_map)
  BY Zenon DEF ClusterInv, MapsOK
<1>2. CallOK(t, c) /\ c.pc = "group"
  BY Zenon, <1>1 DEF CallsOK, GroupNext
<1>3. c.cmds[c.i] \in Commands
  <2>1. c.cmds \in Seq(Commands) /\ c.i \in DOMAIN c.cmds
    BY Zenon, <1>2 DEF CallOK, CallType
  <2> QED
    BY <2>1
<1>4. a \in Addr
  BY Zenon, <1>1, <1>3, RouteOK
<1>5. task' = [task EXCEPT ![t] = f]
  BY Zenon DEF GroupNext, Go
<1>6. CallOK(t, f)
  <2> HIDE DEF a
  <2>1. /\ c.i < Len(c.cmds) => CallOK(t, [c EXCEPT !.addrs = addrs, !.i = @ + 1])
        /\ CallOK(t, [c EXCEPT !.addrs = addrs, !.todo = Range(addrs), !.pc = "next"])
    BY Zenon, <1>2, <1>4, GroupedOK
  <2> HIDE DEF addrs
  <2> QED
    BY Zenon, <2>1
<1> HIDE DEF f
<1> QED
  BY Zenon, <1>5, <1>6, CallOnly DEF GroupNext

LEMMA NextGroupKeeps ==
  ASSUME ClusterInv, CleanPools, NEW t \in Tasks, NextGroup(t)
  PROVE  ClusterInv' /\ Tidy
<1> DEFINE c == task[t]
<1>1. CallOK(t, c) /\ c.pc = "next"
  BY Zenon DEF ClusterInv, CallsOK, NextGroup
<1>2. CASE c.todo = {}
  <2> DEFINE f == [c EXCEPT !.pc = "idle", !.status = "ok"]
  <2>1. task' = [task EXCEPT ![t] = f]
    BY Zenon, <1>2 DEF NextGroup, Go
  <2>2. CallOK(t, f)
    BY Zenon, <1>1, AllGroupsOK
  <2> HIDE DEF f
  <2> QED
    BY Zenon, <2>1, <2>2, CallOnly DEF NextGroup
<1>3. CASE c.todo # {}
  <2>1. PICK a \in c.todo :
          task' = [task EXCEPT ![t] =
                     IF a = NoNode
                     THEN [c EXCEPT !.todo = @ \ {a},
                                    !.results = [j \in DOMAIN @ |-> IF c.addrs[j] = a THEN <<"no node">> ELSE @[j]]]
                     ELSE [c EXCEPT !.todo = @ \ {a}, !.addr = a, !.i = First(Members(c, a, 0)), !.pc = "groupget"]]
    BY Zenon, <1>3 DEF NextGroup, Go
  <2>2. CASE a = NoNode
    <3> DEFINE f == [c EXCEPT !.todo = @ \ {a},
                              !.results = [j \in DOMAIN @ |-> IF c.addrs[j] = a THEN <<"no node">> ELSE @[j]]]
    <3>1. task' = [task EXCEPT ![t] = f]
      BY Zenon, <2>1, <2>2
    <3>2. CallOK(t, f)
      BY Zenon, <1>1, NoNodeOK
    <3> HIDE DEF f
    <3> QED
      BY Zenon, <3>1, <3>2, CallOnly DEF NextGroup
  <2>3. CASE a # NoNode
    <3> DEFINE f == [c EXCEPT !.todo = @ \ {a}, !.addr = a, !.i = First(Members(c, a, 0)), !.pc = "groupget"]
    <3>1. task' = [task EXCEPT ![t] = f]
      BY Zenon, <2>1, <2>3
    <3>2. CallOK(t, f)
      BY Zenon, <1>1, <2>3, NextGroupOK
    <3> HIDE DEF f
    <3> QED
      BY Zenon, <3>1, <3>2, CallOnly DEF NextGroup
  <2> QED
    BY Zenon, <2>2, <2>3
<1> QED
  BY Zenon, <1>2, <1>3

LEMMA ClusterNext ==
  ASSUME ClusterInv, CleanPools, [Next]_vars
  PROVE  ClusterInv' /\ Tidy
<1>1. CASE UNCHANGED vars
  <2>1. ClusterInv'
    BY Zenon, <1>1 DEF vars, servers, ClusterInv, ServersOK, MapsOK, CallsOK
  <2> QED
    BY Zenon, <1>1, <2>1, IdleKept DEF vars
<1>2. CASE Environment
  <2>1. idle' = idle
    BY Zenon, <1>2 DEF Environment, Migrate, Migrated, Gossip, Down, CalmDown, NotServers
  <2> QED
    BY Zenon, <1>2, <2>1, EnvironmentKeeps, IdleKept
<1>3. CASE RefreshRead \/ RefreshInstall
  <2>1. idle' = idle
    BY Zenon, <1>3 DEF RefreshRead, RefreshInstall
  <2> QED
    BY Zenon, <1>3, <2>1, RefreshKeeps, IdleKept
<1>4. ASSUME NEW t \in Tasks, Step(t) PROVE ClusterInv' /\ Tidy
  BY ZenonT(20), <1>4, RoutedKeeps, GroupKeeps, NextGroupKeeps, GetKeeps, SendKeeps, AskingKeeps, SendGroupKeeps, ReadKeeps,
     ReadAskedKeeps, ReadGroupKeeps DEF Step
<1>5. ASSUME NEW t \in Tasks, Call(t) \/ Fault(t) PROVE ClusterInv' /\ Tidy
  BY Zenon, <1>5, CallKeeps, FaultKeeps
<1> QED
  BY Zenon, <1>1, <1>2, <1>3, <1>4, <1>5 DEF Next

-----------------------------------------------------------------------------
(* Commands are executed at most once, and get their own replies *)

LEMMA TaskFields ==
  ASSUME CallsOK, NEW t \in Tasks
  PROVE  DOMAIN task = Tasks /\ Fields \subseteq DOMAIN task[t]
BY ZenonT(40) DEF CallsOK, CallType, Fields

(* While no connection that owes a reply is given back, what is known of the calls
   is true. *)
LEMMA ClusterInvariance == Spec /\ []CleanPools => []ClusterInv
<1>1. Init => ClusterInv
  BY Zenon, ClusterInit
<1>2. ClusterInv /\ CleanPools /\ [Next]_vars => ClusterInv'
  BY Zenon, ClusterNext
<1> QED
  BY <1>1, <1>2, PTL DEF Spec

(* "Follow redirections", for execute and pipeline: a command is never executed
   twice, as long as the connections in the pools owe no reply. *)
THEOREM ClusterAtMostOnce == Spec /\ []CleanPools => []AtMostOnce
<1>1. ASSUME ClusterInv PROVE AtMostOnce
  <2>1. ASSUME NEW t \in Tasks, NEW i \in DOMAIN task[t].runs PROVE task[t].runs[i] <= 1
    BY ZenonT(30), <1>1, <2>1 DEF ClusterInv, CallsOK, CallOK, Told
  <2> QED
    BY Zenon, <2>1 DEF AtMostOnce
<1> QED
  BY <1>1, ClusterInvariance, PTL

(* "Results are returned in the same order as the commands", for execute and
   pipeline: a result is the reply to its own command, and what is reported done has
   been done, as long as the connections in the pools owe no reply. *)
THEOREM ClusterOwnReplies == Spec /\ []CleanPools => []OwnReplies
<1>1. ASSUME ClusterInv PROVE OwnReplies
  <2>1. ASSUME NEW t \in Tasks, NEW i \in DOMAIN task[t].results, task[t].results[i][1] = "ok"
        PROVE  task[t].results[i] = <<"ok", t, task[t].n, i>> /\ task[t].runs[i] > 0
    <3>1. task[t].results[i] = <<"ok", t, task[t].n, i>> /\ task[t].runs[i] = 1
      BY ZenonT(30), <1>1, <2>1 DEF ClusterInv, CallsOK, CallOK, Told
    <3> QED
      BY SMTT(20), <3>1
  <2> QED
    BY Zenon, <2>1 DEF OwnReplies
<1> QED
  BY <1>1, ClusterInvariance, PTL

LEMMA CleanInit == Init => CleanPools
<1>1. DOMAIN <<>> = {}
  OBVIOUS
<1> QED
  BY Zenon, <1>1 DEF Init, CleanPools

(* The pools owe no reply: without timeouts, only a pipeline that returns an error
   gives back a connection with replies under way. *)
THEOREM ClusterPoolsClean ==
  ASSUME "timeout" \notin Faults
  PROVE  Spec /\ []PipelinesSucceed => []CleanPools
<1>1. ClusterInv /\ CleanPools /\ [Next]_vars /\ PipelinesSucceed' => ClusterInv' /\ CleanPools'
  BY Zenon, ClusterNext DEF Tidy
<1>2. Init => ClusterInv /\ CleanPools
  BY Zenon, ClusterInit, CleanInit
<1> QED
  BY <1>1, <1>2, PTL DEF Spec

\* Only ClusterRouter::execute is called, and no read times out.
ExecuteOnly == Kinds = {"execute"} /\ "timeout" \notin Faults

LEMMA ExecutesStay ==
  ASSUME Kinds = {"execute"}, CallsOK, \A t \in Tasks : task[t].kind = "execute", [Next]_vars
  PROVE  \A t \in Tasks : task'[t].kind = "execute"
<1>1. CASE task' = task
  BY Zenon, <1>1
<1>2. ASSUME NEW t \in Tasks, NEW f, f.kind = "execute", task' = [task EXCEPT ![t] = f]
      PROVE  \A u \in Tasks : task'[u].kind = "execute"
  BY Zenon, <1>2 DEF CallsOK
<1>3. ASSUME NEW t \in Tasks, Step(t) \/ Fault(t) PROVE \A u \in Tasks : task'[u].kind = "execute"
  <2>1. PICK f : task' = [task EXCEPT ![t] = f] /\ Same(task[t], f)
    BY Zenon, <1>3, SameCall, TaskFields
  <2> QED
    BY Zenon, <1>2, <2>1 DEF Same
<1>4. ASSUME NEW t \in Tasks, Call(t) PROVE \A u \in Tasks : task'[u].kind = "execute"
  <2>1. PICK k \in Kinds : \E cmds \in [1..(IF k = "pipeline" THEN Batch ELSE 1) -> Commands], start \in {"busy", "calm"} :
          task' = [task EXCEPT ![t] =
                     [Idle EXCEPT !.pc = IF k = "pipeline" THEN "group" ELSE "route", !.kind = k, !.n = task[t].n + 1,
                                  !.cmds = cmds, !.addrs = [j \in DOMAIN cmds |-> NoNode],
                                  !.results = [j \in DOMAIN cmds |-> <<"none">>],
                                  !.runs = [j \in DOMAIN cmds |-> 0], !.start = start]]
    BY ZenonT(20), <1>4 DEF Call, Go
  <2>2. PICK cmds, start :
          task' = [task EXCEPT ![t] =
                     [Idle EXCEPT !.pc = IF k = "pipeline" THEN "group" ELSE "route", !.kind = k, !.n = task[t].n + 1,
                                  !.cmds = cmds, !.addrs = [j \in DOMAIN cmds |-> NoNode],
                                  !.results = [j \in DOMAIN cmds |-> <<"none">>],
                                  !.runs = [j \in DOMAIN cmds |-> 0], !.start = start]]
    BY Zenon, <2>1
  <2> DEFINE f == [Idle EXCEPT !.pc = IF k = "pipeline" THEN "group" ELSE "route", !.kind = k, !.n = task[t].n + 1,
                               !.cmds = cmds, !.addrs = [j \in DOMAIN cmds |-> NoNode],
                               !.results = [j \in DOMAIN cmds |-> <<"none">>],
                               !.runs = [j \in DOMAIN cmds |-> 0], !.start = start]
  <2>3. k = "execute"
    BY Zenon
  <2>4. f.kind = "execute" /\ task' = [task EXCEPT ![t] = f]
    BY Zenon, <2>2, <2>3 DEF Idle
  <2> HIDE DEF f
  <2> QED
    BY Zenon, <1>2, <2>4
<1>5. CASE ~(\E t \in Tasks : Step(t) \/ Fault(t) \/ Call(t))
  <2>1. task' = task
    BY Zenon, <1>5 DEF Next, vars, Environment, Migrate, Migrated, Gossip, Down, CalmDown, NotServers, RefreshRead, RefreshInstall
  <2> QED
    BY Zenon, <1>1, <2>1
<1> QED
  BY Zenon, <1>3, <1>4, <1>5

(* The pools owe no reply while all calls are execute and no read times out. *)
LEMMA ExecutesClean ==
  ASSUME ExecuteOnly
  PROVE  Spec => []CleanPools
<1> DEFINE All == \A t \in Tasks : task[t].kind = "execute"
<1>1. Init => All /\ ClusterInv /\ CleanPools
  <2>1. Init => All
    <3>1. Idle.kind = "execute"
      BY Zenon DEF Idle
    <3> QED
      BY Zenon, <3>1 DEF Init
  <2> QED
    BY Zenon, <2>1, ClusterInit, CleanInit
<1>2. All /\ ClusterInv /\ CleanPools /\ [Next]_vars => All' /\ ClusterInv' /\ CleanPools'
  <2> SUFFICES ASSUME All, ClusterInv, CleanPools, [Next]_vars PROVE All' /\ ClusterInv' /\ CleanPools'
    BY Zenon
  <2>1. All'
    BY Zenon, ExecutesStay DEF ClusterInv, ExecuteOnly
  <2>2. PipelinesSucceed'
    BY Zenon, <2>1 DEF PipelinesSucceed
  <2> QED
    BY Zenon, <2>1, <2>2, ClusterNext DEF Tidy, ExecuteOnly
<1> HIDE DEF All
<1> QED
  BY <1>1, <1>2, PTL DEF Spec

(* The same without a hypothesis on the pools: MOVED, ASK and TRYAGAIN never make
   ClusterRouter::execute run a command twice, or return another command's reply. *)
THEOREM ClusterExecutesOnce ==
  ASSUME ExecuteOnly
  PROVE  Spec => [](AtMostOnce /\ OwnReplies)
BY ExecutesClean, ClusterAtMostOnce, ClusterOwnReplies, PTL

-----------------------------------------------------------------------------
(* Commands that begin when the servers agree succeed *)

LEMMA CalmRouted ==
  ASSUME ClusterInv, Serving, NEW t \in Tasks, execute_routed(t), HasOwner(task[t]), OnCourse(t, task[t])
  PROVE  OnCourse(t, task'[t])
<1> DEFINE c == task[t]
           a == Route(c.cmds[1])
           f == [c EXCEPT !.pc = "get", !.to = a]
<1>1. CallsOK /\ MapOK(slot_map) /\ c.pc = "route"
  BY Zenon DEF ClusterInv, MapsOK, execute_routed
<1>2. c \in CallType /\ InHand(t, c) /\ c.kind = "execute"
  BY Zenon, <1>1 DEF CallsOK, CallOK
<1>3. 1 \in DOMAIN c.cmds /\ c.cmds[1] \in Commands
  BY Zenon, <1>2, OneCommand
<1>4. c.cmds[1].slot # NoSlot => RangesOf(slot_map, c.cmds[1].slot) # {}
  <2>1. c.cmds[1].slot \in Slots \cup {NoSlot}
    BY Zenon, <1>3, ClusterAssumption
  <2> QED
    BY Zenon, <1>3, <2>1 DEF HasOwner, Serving, Served
<1>5. slot_map # {}
  BY Zenon DEF Serving, Served, RangesOf
<1>6. a \in Nodes /\ a # NoNode
  <2> DEFINE k == c.cmds[1]
  <2>1. k \in Commands /\ (k.slot # NoSlot => RangesOf(slot_map, k.slot) # {}) /\ a = Route(k)
    BY Zenon, <1>3, <1>4
  <2> HIDE DEF k, a
  <2>2. Route(k) \in Nodes
    BY ONLY <1>1, <1>5, <2>1, RouteOK, Zenon
  <2> QED
    BY Zenon, <2>1, <2>2, ClusterAssumption
<1>7. task' = [task EXCEPT ![t] = f]
  BY Zenon, <1>6 DEF execute_routed, Go
<1>8. task'[t] = f
  BY Zenon, <1>1, <1>7 DEF CallsOK
<1>9. f.pc = "get" /\ f.left = c.left
  BY Zenon, <1>2 DEF CallType
<1> HIDE DEF f
<1> QED
  BY Zenon, <1>1, <1>8, <1>9 DEF OnCourse

(* Every slot with a master is in a range: that of the longest run of slots around
   it with the same master. *)
LEMMA TopologyServes ==
  ASSUME NEW v, NEW s \in Slots, v[s] # NoNode
  PROVE  RangesOf(Topology(v), s) # {}
<1>1. Slots \subseteq Nat
  BY Zenon, ClusterAssumption
<1>2. SLOT_COUNT \in Nat /\ SLOT_COUNT - 1 \in Nat /\ (SLOT_COUNT - 1) + 1 = SLOT_COUNT
  BY DEF SLOT_COUNT
<1> DEFINE last == SLOT_COUNT - 1
<1> DEFINE Befores == {x \in Slots : x <= s /\ Run(v, x, s)}
           Ends == {x \in Nat : x >= s /\ ~(x + 1 \in Slots /\ v[x + 1] = v[s])}
<1>3. PICK a \in Befores : \A x \in Befores : a <= x
  <2>1. s \in Befores
    BY <1>1 DEF Run
  <2>2. Befores \in SUBSET Nat /\ Befores # {}
    BY Zenon, <1>1, <2>1
  <2> HIDE DEF Befores
  <2> QED
    BY Zenon, <2>2, Least
<1>4. PICK b \in Ends : \A x \in Ends : b <= x
  <2>1. Slots \subseteq 0..last
    BY Zenon, ClusterAssumption
  <2>2. last \in Nat /\ last >= s /\ last + 1 \notin Slots
    BY <1>2, <2>1
  <2> HIDE DEF last
  <2>3. last \in Ends
    BY Zenon, <2>2
  <2>4. Ends \in SUBSET Nat /\ Ends # {}
    BY Zenon, <2>3
  <2> HIDE DEF Ends
  <2> QED
    BY Zenon, <2>4, Least
<1>5. a \in Slots /\ a <= s /\ Run(v, a, s) /\ b \in Nat /\ b >= s /\ ~(b + 1 \in Slots /\ v[b + 1] = v[s])
  BY Zenon, <1>3, <1>4
<1>6. v[s] = v[a]
  BY <1>1, <1>5 DEF Run
<1>7. ASSUME NEW x \in s..b PROVE x \in Slots /\ v[x] = v[s]
  <2>1. CASE x = s
    BY Zenon, <2>1
  <2>2. CASE x # s
    <3>1. x - 1 \in Nat /\ x - 1 >= s /\ (x - 1) + 1 = x /\ ~(b <= x - 1)
      BY SMTT(20), <1>1, <1>5, <1>7, <2>2
    <3>2. x - 1 \notin Ends
      BY Zenon, <1>4, <3>1
    <3> QED
      BY Zenon, <3>1, <3>2
  <2> QED
    BY Zenon, <2>1, <2>2
<1>8. b \in Slots
  BY <1>1, <1>5, <1>7
<1>9. Run(v, a, b)
  <2>1. \A x \in a..b : x \in a..s \/ x \in s..b
    BY <1>1, <1>5
  <2> QED
    BY Zenon, <1>5, <1>6, <1>7, <2>1 DEF Run
<1>10. ~(a - 1 \in Slots /\ v[a - 1] = v[a])
  <2> SUFFICES ASSUME a - 1 \in Slots, v[a - 1] = v[a] PROVE FALSE
    BY Zenon
  <2>1. a - 1 <= s /\ ~(a <= a - 1) /\ \A x \in (a - 1)..s : x = a - 1 \/ x \in a..s
    BY <1>1, <1>5
  <2>2. Run(v, a - 1, s)
    BY Zenon, <1>5, <2>1 DEF Run
  <2> QED
    BY Zenon, <1>3, <2>1, <2>2
<1>11. a <= b /\ s \in a..b
  BY <1>1, <1>5
<1> DEFINE r == [start |-> a, end |-> b, master |-> v[a], replicas |-> Replicas[v[a]]]
<1>12. r \in Topology(v)
  <2>1. <<a, b>> \in Slots \X Slots /\ <<a, b>>[1] = a /\ <<a, b>>[2] = b
    BY <1>5, <1>8
  <2> QED
    BY ZenonT(20), <1>5, <1>6, <1>9, <1>10, <1>11, <2>1 DEF Topology
<1>13. r.start = a /\ r.end = b
  BY Zenon
<1> HIDE DEF r
<1> QED
  BY Zenon, <1>11, <1>12, <1>13 DEF RangesOf

LEMMA ServingNext ==
  ASSUME ClusterInv, RangesInv, Serving, [Next]_vars
  PROVE  Serving'
<1>1. ServersOK /\ nodes \subseteq Nodes
  BY Zenon DEF ClusterInv, MapsOK
<1>2. \A s \in Slots : owner'[s] # NoNode <=> owner[s] # NoNode
  BY Zenon, <1>1, OwnersStay
<1>3. (\E s \in Slots : owner'[s] # NoNode) /\ \A m : Served(m) => \A s \in Slots : owner'[s] # NoNode => RangesOf(m, s) # {}
  BY Zenon, <1>2 DEF Serving, Served
<1>4. Served(slot_map') /\ \A m \in fetched' : Served(m)
  <2>1. CASE RefreshRead
    <3>1. PICK n \in nodes : fetched' = {Topology(view[n])} /\ slot_map' = slot_map
      BY Zenon, <2>1 DEF RefreshRead
    <3>2. \A s \in Slots : owner[s] # NoNode => view[n][s] # NoNode
      BY Zenon, <1>1 DEF ServersOK
    <3>3. Served(Topology(view[n]))
      BY Zenon, <3>2, TopologyServes DEF Served
    <3> QED
      BY Zenon, <3>1, <3>3 DEF Serving
  <2>2. CASE RefreshInstall
    BY Zenon, <2>2 DEF RefreshInstall, Serving
  <2>3. ASSUME NEW t \in Tasks, Read(t) \/ ReadGroup(t) PROVE Served(slot_map') /\ \A m \in fetched' : Served(m)
    <3>1. fetched' = fetched
      BY Zenon, <2>3 DEF Read, ReadGroup
    <3>2. slot_map' = slot_map \/ \E z, a : slot_map' = update_slot_master(slot_map, z, a)
      BY Zenon, <2>3 DEF Read, ReadGroup
    <3>3. Served(slot_map')
      BY Zenon, <3>2, UpdateServes DEF Serving, Served, RangesInv
    <3> QED
      BY Zenon, <3>1, <3>3 DEF Serving
  <2>4. CASE ~RefreshRead /\ ~RefreshInstall /\ ~(\E t \in Tasks : Read(t) \/ ReadGroup(t))
    <3>1. slot_map' = slot_map /\ fetched' = fetched
      BY ZenonT(40), <2>4 DEF Next, vars, Environment, Migrated, Migrate, Gossip, Down, CalmDown, NotServers, Call, Step,
                         Fault, execute_routed, GroupNext, NextGroup, Get, Send, SendAsking, ReadAsking, SendGroup, ReadAsked
    <3> QED
      BY Zenon, <3>1 DEF Serving
  <2> QED
    BY Zenon, <2>1, <2>2, <2>3, <2>4
<1> QED
  BY Zenon, <1>3, <1>4 DEF Serving, Served

LEMMA CalmNext ==
  ASSUME ClusterInv, CleanPools, RangesInv, CalmInv, [Next]_vars
  PROVE  CalmInv'
<1>1. Serving' /\ Agreed' /\ Agreed
  BY Zenon, ServingNext, Steady DEF CalmInv
<1>2. calm => owner' = owner /\ calm' = calm
  BY Zenon, <1>1, Steady
<1>3. CASE UNCHANGED task
  BY Zenon, <1>1, <1>3, CalmKept DEF CalmInv
<1>4. ASSUME NEW t \in Tasks, Call(t) \/ Step(t) \/ Fault(t), NEW u \in Tasks PROVE CalmCallOK(u, task[u])'
  <2>1. CallsOK /\ CalmCallOK(t, task[t]) /\ CalmCallOK(u, task[u])
    BY Zenon DEF ClusterInv, CalmInv
  <2>2. CASE u # t
    <3>1. task'[u] = task[u]
      <4>1. \E f : task' = [task EXCEPT ![t] = f]
        BY Zenon, <1>4, <2>1, SameCall, TaskFields DEF Call, Go
      <4> QED
        BY Zenon, <2>1, <2>2, <4>1 DEF CallsOK
    <3> QED
      BY Zenon, <1>1, <2>1, <3>1, CalmKept
  <2>3. CASE u = t
    <3> SUFFICES ASSUME task'[t].start = "calm", task'[t].kind = "execute" PROVE calm' /\ (HasOwner(task[t])' => OnCourse(t, task[t])')
      BY Zenon, <2>3 DEF CalmCallOK
    <3>1. calm /\ (HasOwner(task'[t]) => OnCourse(t, task'[t]))
      <4>1. CASE Call(t)
        BY Zenon, <2>1, <4>1, CalmStarts
      <4>2. CASE Step(t) \/ Fault(t)
        <5>0. task'[t].kind = task[t].kind /\ task'[t].cmds = task[t].cmds /\ task'[t].start = task[t].start
          <6>1. PICK f : task' = [task EXCEPT ![t] = f] /\ Same(task[t], f)
            BY Zenon, <2>1, <4>2, SameCall, TaskFields
          <6>2. task'[t] = f
            BY Zenon, <2>1, <6>1 DEF CallsOK
          <6> QED
            BY Zenon, <6>1, <6>2 DEF Same
        <5>1. calm /\ task[t].kind = "execute" /\ (HasOwner(task'[t]) => HasOwner(task[t]) /\ OnCourse(t, task[t]))
          BY Zenon, <2>1, <5>0 DEF CalmCallOK, HasOwner
        <5> SUFFICES ASSUME HasOwner(task[t]), OnCourse(t, task[t]) PROVE OnCourse(t, task'[t])
          BY Zenon, <5>1
        <5>2. ~Fault(t)
          BY Zenon, <5>1 DEF Fault
        <5>3. task[t].pc \in {"idle", "route", "get", "send", "read"}
          BY Zenon DEF OnCourse
        <5>4. execute_routed(t) \/ Get(t) \/ Send(t) \/ Read(t)
          BY ZenonT(20), <4>2, <5>2, <5>3 DEF Step, GroupNext, NextGroup, SendAsking, ReadAsking, SendGroup, ReadAsked, ReadGroup
        <5> QED
          BY ZenonT(20), <1>1, <5>1, <5>4, CalmRouted, CalmGet, CalmSend, CalmRead DEF CalmInv
      <4> QED
        BY Zenon, <1>4, <4>1, <4>2
    <3> QED
      BY Zenon, <1>2, <3>1 DEF HasOwner, OnCourse, Executes, Redirected, Ok
  <2> QED
    BY Zenon, <2>2, <2>3
<1>5. UNCHANGED task \/ \E t \in Tasks : Call(t) \/ Step(t) \/ Fault(t)
  BY Zenon DEF Next, vars, Environment, Migrated, Migrate, Gossip, Down, CalmDown, NotServers, RefreshRead, RefreshInstall
<1> QED
  BY Zenon, <1>1, <1>3, <1>4, <1>5 DEF CalmInv

(* ClusterRouter::execute, begun when the servers agree on the owners, succeeds and
   is executed once, however wrong the slot map is, wherever a read is sent, whatever
   other tasks and the refresh do meanwhile, and even if MAX_REDIRECTS is 1: a range
   for each slot is never lost, and the first redirection names the owner.  The
   connections in the pools owe no reply. *)
THEOREM ClusterCalmCallsSucceed ==
  ASSUME \A l \in Layouts : \E s \in Slots : l[s] # NoNode
  PROVE  Spec /\ []CleanPools => []CalmCallsSucceed
<1>1. Init => CalmInv
  <2> SUFFICES ASSUME Init PROVE CalmInv
    BY Zenon
  <2>1. /\ owner \in Layouts /\ slot_map = Topology(owner) /\ fetched = {} /\ calm = FALSE
        /\ task = [t \in Tasks |-> Idle]
    BY Zenon DEF Init
  <2>2. Serving
    BY Zenon, <2>1, TopologyServes DEF Serving, Served
  <2>3. \A t \in Tasks : task[t].start = "busy"
    BY Zenon, <2>1 DEF Idle
  <2> QED
    BY Zenon, <2>1, <2>2, <2>3 DEF CalmInv, Agreed, CalmCallOK
<1>2. Init => RangesInv
  BY Zenon, RangesInit
<1>3. ClusterInv /\ CleanPools /\ RangesInv /\ CalmInv /\ [Next]_vars => CalmInv'
  BY Zenon, CalmNext
<1>4. CalmInv => CalmCallsSucceed
  BY Zenon DEF CalmInv, CalmCallOK, HasOwner, OnCourse, CalmCallsSucceed
<1> QED
  BY <1>1, <1>2, <1>3, <1>4, RangesInvariance, ClusterInvariance, PTL DEF Spec

(* The same without a hypothesis on the pools, for calls of execute without timeouts. *)
THEOREM ClusterExecuteSucceeds ==
  ASSUME ExecuteOnly, \A l \in Layouts : \E s \in Slots : l[s] # NoNode
  PROVE  Spec => []CalmCallsSucceed
BY ExecutesClean, ClusterCalmCallsSucceed, PTL

-----------------------------------------------------------------------------
(* Connections enough for all *)

FS == INSTANCE FiniteSetTheorems

LEMMA SubsetSize ==
  ASSUME IsFiniteSet(Tasks), NEW S \in SUBSET Tasks
  PROVE  Cardinality(S) \in Nat /\ Cardinality(S) <= Cardinality(Tasks) /\ Cardinality(Tasks) \in Nat
         /\ (Cardinality(S) = Cardinality(Tasks) => S = Tasks) /\ (S = {} => Cardinality(S) = 0)
<1>1. \A T : FS!Cardinality(T) = Cardinality(T) /\ (FS!IsFiniteSet(T) <=> IsFiniteSet(T))
  BY Zenon DEF FS!Cardinality, Cardinality, FS!IsFiniteSet, IsFiniteSet
<1> QED
  BY ZenonT(20), <1>1, FS!FS_Subset, FS!FS_CardinalityType, FS!FS_EmptySet

\* The calls with a connection to node n, in execute_on and as the guard of a group.
InUse(n) == {u \in Tasks : task[u].conn.node = n}
Guards(n) == {u \in Tasks : task[u].held.node = n}

LEMMA WaitingUsesNone ==
  ASSUME WaitInv, NEW t \in Tasks, Waiting(t), NEW n \in Nodes
  PROVE  t \notin InUse(n)
<1>1. task[t].conn = NoConn
  BY Zenon DEF WaitInv, Waits, Waiting
<1> QED
  BY ZenonT(30), <1>1, NoConnOK, ClusterAssumption DEF InUse

\* A call that finds the pool of a node exhausted waits for another call that waits for none.
Unblocked ==
  \A t \in Tasks : \A n \in Nodes :
    Waiting(t) /\ ~HasPermit(n) => \E u \in Tasks : u # t /\ task[u].conn.node = n /\ ~Waiting(u)

(* No circular wait: a pipeline holds the connection of a group while execute_on
   waits for another one, so calls can exhaust a pool that is too small; with more
   connections than calls, whoever finds a pool exhausted waits for a call that is
   itself waiting for no connection. *)
THEOREM ClusterNoCircularWait ==
  ASSUME IsFiniteSet(Tasks), PoolSize > Cardinality(Tasks)
  PROVE  Spec => []Unblocked
<1>1. ASSUME WaitInv PROVE Unblocked
  <2>1. ASSUME NEW t \in Tasks, NEW n \in Nodes, Waiting(t), ~HasPermit(n)
        PROVE  \E u \in Tasks : u # t /\ task[u].conn.node = n /\ ~Waiting(u)
    <3>1. InUse(n) \in SUBSET Tasks /\ Guards(n) \in SUBSET Tasks
      BY Zenon DEF InUse, Guards
    <3>2. ~(Cardinality(InUse(n)) + Cardinality(Guards(n)) < PoolSize)
      BY Zenon, <2>1 DEF HasPermit, InUse, Guards
    <3>3. InUse(n) # {}
      <4>1. /\ Cardinality(Guards(n)) \in Nat /\ Cardinality(Guards(n)) <= Cardinality(Tasks) /\ Cardinality(Tasks) \in Nat
            /\ (InUse(n) = {} => Cardinality(InUse(n)) = 0) /\ PoolSize \in Nat
        BY ZenonT(20), <3>1, SubsetSize, ClusterAssumption
      <4> QED
        BY SMTT(20), <3>2, <4>1
    <3>4. PICK u \in Tasks : u \in InUse(n)
      BY ZenonT(20), <3>1, <3>3
    <3>5. ~Waiting(u) /\ u # t
      BY ZenonT(30), <1>1, <2>1, <3>4, WaitingUsesNone
    <3> QED
      BY Zenon, <3>4, <3>5 DEF InUse
  <2> QED
    BY Zenon, <2>1 DEF Unblocked
<1> QED
  BY <1>1, WaitInvariance, PTL

\* No call waits for a permit.
NeverWaits == \A t \in Tasks : Waiting(t) => \A n \in Nodes : HasPermit(n)

(* Two connections a call are enough: with twice as many connections as calls, none
   ever waits for a permit of a pool. *)
THEOREM ClusterTwoConnectionsSuffice ==
  ASSUME IsFiniteSet(Tasks), PoolSize >= 2 * Cardinality(Tasks)
  PROVE  Spec => []NeverWaits
<1>1. ASSUME WaitInv PROVE NeverWaits
  <2>1. ASSUME NEW t \in Tasks, NEW n \in Nodes, Waiting(t) PROVE HasPermit(n)
    <3>1. InUse(n) \in SUBSET Tasks /\ Guards(n) \in SUBSET Tasks
      BY Zenon DEF InUse, Guards
    <3>2. InUse(n) # Tasks
      BY ZenonT(20), <1>1, <2>1, WaitingUsesNone
    <3>3. /\ Cardinality(Guards(n)) \in Nat /\ Cardinality(Guards(n)) <= Cardinality(Tasks) /\ Cardinality(Tasks) \in Nat
          /\ Cardinality(InUse(n)) \in Nat /\ Cardinality(InUse(n)) <= Cardinality(Tasks)
          /\ Cardinality(InUse(n)) # Cardinality(Tasks) /\ PoolSize \in Nat
      BY ZenonT(30), <3>1, <3>2, SubsetSize, ClusterAssumption
    <3>4. Cardinality(InUse(n)) + Cardinality(Guards(n)) < PoolSize
      BY <3>3
    <3> QED
      BY Zenon, <3>4 DEF HasPermit, InUse, Guards
  <2> QED
    BY Zenon, <2>1 DEF NeverWaits
<1> QED
  BY <1>1, WaitInvariance, PTL
=============================================================================
