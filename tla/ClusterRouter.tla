--------------------------- MODULE ClusterRouter ---------------------------
(***************************************************************************)
(* The Cluster router (router/cluster.rs): commands that follow            *)
(* redirections, pipelines grouped by node, the background refresh of the  *)
(* slot map, and one connection pool per node, over servers that migrate   *)
(* slots and learn of it late.                                             *)
(*                                                                         *)
(* A connection is [node, owed, asking]: the replies it will deliver, and  *)
(* whether the server lets its next command into a slot being imported.    *)
(* A command is [slot, read]; NoSlot is that of a command without a key.   *)
(* A server answers a command when it is sent.                             *)
(***************************************************************************)
EXTENDS SlotMap, FiniteSets, Functions

CONSTANTS
  Tasks, Nodes,
  Slots, Layouts,    \* an interval of numbers; the first owners of the slots
  NoSlot, Replicas,  \* Replicas[n]: the replicas of master n, in order
  ReadFromReplicas,  \* read_from_replicas
  MAX_REDIRECTS, PoolSize,
  Commands, Kinds,   \* the commands and calls ("execute", "pipeline") made
  Batch,             \* commands of a pipeline
  Faults,            \* "down", "tryagain", "timeout", "connect"
  MaxMoves,          \* bound on migrations
  MaxCalls           \* bound on the calls of a task

SLOT_COUNT == 16384

ASSUME ClusterAssumption ==
  /\ Slots \subseteq Nat /\ Slots \subseteq 0..(SLOT_COUNT - 1) /\ Layouts \subseteq [Slots -> Nodes \cup {NoNode}]
  /\ NoNode \notin Nodes /\ NoSlot \notin Slots
  /\ Replicas \in [Nodes -> Seq(Nodes)]
  /\ Commands \subseteq [slot : Slots \cup {NoSlot}, read : BOOLEAN] /\ Kinds \subseteq {"execute", "pipeline"}
  /\ MAX_REDIRECTS \in Nat \ {0} /\ PoolSize \in Nat \ {0} /\ Batch \in Nat \ {0}

VARIABLES
  owner, importer,   \* the node that owns a slot; the one it is migrating to
  view,              \* what each node knows of the owners
  down,              \* nodes that answer CLUSTERDOWN
  moves, calm,       \* migrations so far; have they ended, with all in agreement?
  nodes, slot_map,   \* the router: nodes with a pool, and the slot map
  idle,              \* the idle connections of each pool, the last returned last
  fetched,           \* the slot map that the background refresh has read and not installed, if any
  task               \* the calls

servers == <<owner, importer, view, down, moves, calm>>
vars == <<servers, nodes, slot_map, idle, fetched, task>>

-----------------------------------------------------------------------------
(* Servers *)

\* CLUSTER SLOTS as answered by a node with view v: the maximal runs of slots with
\* one master.  ClusterSlots has the reply and its decoder.
Run(v, a, b) == \A s \in a..b : s \in Slots /\ v[s] = v[a]

Topology(v) ==
  {[start |-> ab[1], end |-> ab[2], master |-> v[ab[1]], replicas |-> Replicas[v[ab[1]]]] :
     ab \in {ab \in Slots \X Slots : /\ ab[1] <= ab[2] /\ v[ab[1]] # NoNode /\ Run(v, ab[1], ab[2])
                                     /\ ~(ab[1] - 1 \in Slots /\ v[ab[1] - 1] = v[ab[1]])
                                     /\ ~(ab[2] + 1 \in Slots /\ v[ab[2] + 1] = v[ab[1]])}}

\* What node n may answer to command c; ok is its reply if it executes it.
Answers(n, c, asking, ok) ==
  LET s == c.slot
      multi == IF "tryagain" \in Faults /\ ~calm THEN {<<"tryagain">>} ELSE {}
  IN IF n \in down THEN {<<"down">>}
     ELSE IF s = NoSlot THEN {ok}
     ELSE IF owner[s] = NoNode THEN {<<"down">>}
     ELSE IF n = owner[s] /\ importer[s] = NoNode THEN {ok}
     ELSE IF n = owner[s] THEN {<<"ask", s, importer[s]>>} \cup multi
     ELSE IF n = importer[s] /\ asking THEN {ok} \cup multi
     ELSE {<<"moved", s, view[n][s]>>}

NotServers == <<nodes, slot_map, idle, fetched, task>>

\* The slot's keys are moved, one by one or together: this model has one key a slot.
Migrate(s, n) == /\ ~calm /\ moves < MaxMoves
                 /\ owner[s] \notin {n, NoNode} /\ importer[s] = NoNode
                 /\ \A m \in Nodes : n \notin Range(Replicas[m])
                 /\ importer' = [importer EXCEPT ![s] = n]
                 /\ moves' = moves + 1
                 /\ UNCHANGED <<owner, view, down, calm, NotServers>>

Migrated(s) == /\ importer[s] # NoNode
               /\ owner' = [owner EXCEPT ![s] = importer[s]]
               /\ importer' = [importer EXCEPT ![s] = NoNode]
               /\ view' = [n \in Nodes |-> IF n \in {owner[s], importer[s]}
                                           THEN [view[n] EXCEPT ![s] = importer[s]] ELSE view[n]]
               /\ UNCHANGED <<down, moves, calm, NotServers>>

Gossip(n) == /\ view[n] # owner
             /\ view' = [view EXCEPT ![n] = owner]
             /\ UNCHANGED <<owner, importer, down, moves, calm, NotServers>>

\* One node at a time loses touch with the majority, and finds it again.
Down(n) == /\ "down" \in Faults /\ ~calm /\ down \subseteq {n}
           /\ down' = {n} \ down
           /\ UNCHANGED <<owner, importer, view, moves, calm, NotServers>>

CalmDown == /\ ~calm /\ down = {}
            /\ \A s \in Slots : importer[s] = NoNode
            /\ \A n \in Nodes : view[n] = owner
            /\ calm' = TRUE
            /\ UNCHANGED <<owner, importer, view, down, moves, NotServers>>

-----------------------------------------------------------------------------
(* The router.  A call is a record:
     pc       where it is: "idle"; "route" in execute_routed; "get", "send", "read" in
              execute_on; "askget", "asking", "asked", "asksend", "askread" after an ASK;
              "group", "next", "groupget", "groupsend", "groupread" in pipeline
     kind, n, cmds            the call, its number, its commands
     addrs, todo, addr, i     a pipeline's groups, those to do, the one being done, and
                              the command in hand
     to, left                 addr and redirects_left in execute_on
     conn, held               connection in use in execute_on, and guard of a group
     results, runs, status    replies, executions by servers, "none", "ok" or "error"
     start                    "calm" if it began when all was calm, no other call or
                              refresh was under way and no connection owed a late reply,
                              else "busy" *)

NoConn == [node |-> NoNode, owed |-> <<>>, asking |-> FALSE]

Idle == [pc |-> "idle", kind |-> "execute", n |-> 0, cmds |-> <<>>, addrs |-> <<>>, todo |-> {},
         addr |-> NoNode, i |-> 1, to |-> NoNode, left |-> MAX_REDIRECTS, conn |-> NoConn, held |-> NoConn,
         results |-> <<>>, runs |-> <<>>, status |-> "none", start |-> "busy"]

\* ClusterRouter::new, from a seed that answers
Init ==
  /\ owner \in Layouts /\ importer = [s \in Slots |-> NoNode]
  /\ view = [n \in Nodes |-> owner] /\ down = {} /\ moves = 0 /\ calm = FALSE
  /\ slot_map = Topology(owner)
  /\ nodes = {n \in Nodes : \E s \in Slots : owner[s] # NoNode /\ n \in {owner[s]} \cup Range(Replicas[owner[s]])}
  /\ idle = [n \in Nodes |-> <<>>]
  /\ fetched = {}
  /\ task = [t \in Tasks |-> Idle]

Go(t, f) == task' = [task EXCEPT ![t] = f]

\* The node that execute_routed and pipeline choose for a command.
Route(c) ==
  IF c.slot = NoSlot THEN first_master(slot_map)
  ELSE IF c.read /\ ReadFromReplicas THEN replica_for_slot(slot_map, c.slot)
  ELSE master_for_slot(slot_map, c.slot)

CleanPools == \A n \in Nodes : \A k \in DOMAIN idle[n] : idle[n][k].owed = <<>>

Call(t) ==
  /\ task[t].pc = "idle" /\ task[t].n < MaxCalls
  /\ \E k \in Kinds : \E cmds \in [1..(IF k = "pipeline" THEN Batch ELSE 1) -> Commands] :
       Go(t, [Idle EXCEPT !.pc = IF k = "pipeline" THEN "group" ELSE "route",
                          !.kind = k, !.n = task[t].n + 1, !.cmds = cmds,
                          !.addrs = [j \in DOMAIN cmds |-> NoNode],
                          !.results = [j \in DOMAIN cmds |-> <<"none">>],
                          !.runs = [j \in DOMAIN cmds |-> 0],
                          !.start = IF ~calm \/ fetched # {} \/ ~CleanPools \/ \E u \in Tasks \ {t} : task[u].pc # "idle"
                                    THEN "busy" ELSE "calm"])
  /\ UNCHANGED <<servers, nodes, slot_map, idle, fetched>>

\* execute_routed
execute_routed(t) ==
  LET addr == Route(task[t].cmds[1])
  IN /\ task[t].pc = "route"
     /\ Go(t, IF addr = NoNode THEN [task[t] EXCEPT !.pc = "idle", !.status = "error"]
              ELSE [task[t] EXCEPT !.pc = "get", !.to = addr])
     /\ UNCHANGED <<servers, nodes, slot_map, idle, fetched>>

\* pipeline, "Group commands by target node", one command
GroupNext(t) ==
  LET c == task[t]
      addrs == [c.addrs EXCEPT ![c.i] = Route(c.cmds[c.i])]
  IN /\ c.pc = "group"
     /\ Go(t, IF c.i < Len(c.cmds) THEN [c EXCEPT !.addrs = addrs, !.i = @ + 1]
              ELSE [c EXCEPT !.addrs = addrs, !.todo = Range(addrs), !.pc = "next"])
     /\ UNCHANGED <<servers, nodes, slot_map, idle, fetched>>

\* Mutant of Members: every group has all the commands.
MembersAll(c, a, j) == {m \in DOMAIN c.cmds : m > j}

\* The commands of the group for addr a that come after j.
Members(c, a, j) == {m \in DOMAIN c.cmds : m > j /\ c.addrs[m] = a}

First(S) == CHOOSE m \in S : \A o \in S : m <= o

\* The loop over the groups, a HashMap in any order.
NextGroup(t) ==
  LET c == task[t]
  IN /\ c.pc = "next"
     /\ IF c.todo = {} THEN Go(t, [c EXCEPT !.pc = "idle", !.status = "ok"])
        ELSE \E a \in c.todo :
               Go(t, IF a = NoNode
                     THEN [c EXCEPT !.todo = @ \ {a},
                                    !.results = [j \in DOMAIN @ |-> IF c.addrs[j] = a THEN <<"no node">> ELSE @[j]]]
                     ELSE [c EXCEPT !.todo = @ \ {a}, !.addr = a, !.i = First(Members(c, a, 0)), !.pc = "groupget"])
     /\ UNCHANGED <<servers, nodes, slot_map, idle, fetched>>

Wanted(c) == IF c.pc = "groupget" THEN c.addr ELSE c.to

HasPermit(n) ==
  Cardinality({u \in Tasks : task[u].conn.node = n}) + Cardinality({u \in Tasks : task[u].held.node = n}) < PoolSize

\* get_pool(n) and pool.get(): a permit, and the last connection returned or a new one.
Get(t) ==
  LET c == task[t]
      n == Wanted(c)
      last == Len(idle[n])
      got == IF last = 0 THEN [NoConn EXCEPT !.node = n] ELSE idle[n][last]
  IN /\ c.pc \in {"get", "askget", "groupget"}
     /\ HasPermit(n)
     /\ nodes' = nodes \cup {n}
     /\ idle' = [idle EXCEPT ![n] = IF last = 0 THEN @ ELSE SubSeq(@, 1, last - 1)]
     /\ Go(t, CASE c.pc = "get" -> [c EXCEPT !.conn = got, !.pc = "send"]
               [] c.pc = "askget" -> [c EXCEPT !.conn = got, !.pc = "asking"]
               [] c.pc = "groupget" -> [c EXCEPT !.held = got, !.pc = "groupsend"])
     /\ UNCHANGED <<servers, slot_map, fetched>>

\* Connection conn after command i of call c of task t has been sent on it and answered r.
Ok(t, c) == <<"ok", t, c.n, c.i>>
Sent(conn, r) == [conn EXCEPT !.owed = Append(@, r), !.asking = FALSE]
Ran(c, r) == [c.runs EXCEPT ![c.i] = IF r[1] = "ok" THEN @ + 1 ELSE @]

\* send_raw in execute_on
Send(t) ==
  LET c == task[t]
  IN /\ c.pc \in {"send", "asksend"}
     /\ \E r \in Answers(c.conn.node, c.cmds[c.i], c.conn.asking, Ok(t, c)) :
          Go(t, [c EXCEPT !.conn = Sent(@, r), !.runs = Ran(c, r), !.pc = IF @ = "send" THEN "read" ELSE "askread"])
     /\ UNCHANGED <<servers, nodes, slot_map, idle, fetched>>

SendAsking(t) ==
  LET c == task[t]
  IN /\ c.pc = "asking"
     /\ Go(t, [c EXCEPT !.conn.owed = Append(@, <<"asking">>), !.conn.asking = TRUE, !.pc = "asked"])
     /\ UNCHANGED <<servers, nodes, slot_map, idle, fetched>>

\* Mutant of ReadAsking: the reply to ASKING is not read.
ReadAskingNot(t) ==
  LET c == task[t]
  IN /\ c.pc = "asked"
     /\ Go(t, [c EXCEPT !.pc = "asksend"])
     /\ UNCHANGED <<servers, nodes, slot_map, idle, fetched>>

ReadAsking(t) ==
  LET c == task[t]
  IN /\ c.pc = "asked"
     /\ Go(t, [c EXCEPT !.conn.owed = Tail(@), !.pc = "asksend"])
     /\ UNCHANGED <<servers, nodes, slot_map, idle, fetched>>

\* pipeline, "Send all commands for this node", one command
SendGroup(t) ==
  LET c == task[t]
      rest == Members(c, c.addr, c.i)
  IN /\ c.pc = "groupsend"
     /\ \E r \in Answers(c.held.node, c.cmds[c.i], c.held.asking, Ok(t, c)) :
          Go(t, [c EXCEPT !.held = Sent(@, r), !.runs = Ran(c, r),
                          !.i = First(IF rest = {} THEN Members(c, c.addr, 0) ELSE rest),
                          !.pc = IF rest = {} THEN "groupread" ELSE @])
     /\ UNCHANGED <<servers, nodes, slot_map, idle, fetched>>

-----------------------------------------------------------------------------
\* A guard is dropped: its connection goes back to its pool as it is.
Put(d, conn) == IF conn.node = NoNode THEN d ELSE [d EXCEPT ![conn.node] = Append(@, conn)]

\* `?` and `return Err`: all the guards are dropped.
Fail(t, c) == /\ Go(t, [c EXCEPT !.pc = "idle", !.status = "error", !.conn = NoConn, !.held = NoConn])
              /\ idle' = Put(Put(idle, c.conn), c.held)

\* Reply r to the command in hand is known: return it, or go on with the pipeline.
Deliver(t, c, r) ==
  LET rest == Members(c, c.addr, c.i)
      done == [c EXCEPT !.conn = NoConn, !.results[c.i] = r]
  IN IF c.kind = "execute"
     THEN /\ Go(t, [done EXCEPT !.pc = "idle", !.status = "ok"])
          /\ idle' = Put(idle, c.conn)
     ELSE IF rest # {}
     THEN /\ Go(t, [done EXCEPT !.pc = "groupread", !.i = First(rest)])
          /\ idle' = Put(idle, c.conn)
     ELSE /\ Go(t, [done EXCEPT !.pc = "next", !.held = NoConn])
          /\ idle' = Put(Put(idle, c.conn), c.held)

\* Mutant of Again: the same node is asked again.
AgainStays(t, c, pc, to, left) ==
  /\ Go(t, [c EXCEPT !.conn = NoConn, !.pc = pc, !.to = IF @ = NoNode THEN to ELSE @, !.left = left])
  /\ idle' = Put(idle, c.conn)

\* Mutant of Again: redirections are not counted.
AgainUncounted(t, c, pc, to, left) ==
  /\ Go(t, [c EXCEPT !.conn = NoConn, !.pc = pc, !.to = to])
  /\ idle' = Put(idle, c.conn)

\* drop(guard) and a recursive call, or the ASK branch
Again(t, c, pc, to, left) ==
  /\ Go(t, [c EXCEPT !.conn = NoConn, !.pc = pc, !.to = to, !.left = left])
  /\ idle' = Put(idle, c.conn)

\* read_response in execute_on, and what is done with the reply
Read(t) ==
  LET r == Head(task[t].conn.owed)
      c == [task[t] EXCEPT !.conn.owed = Tail(@)]
  IN /\ task[t].pc = "read"
     /\ IF r[1] = "down" \/ (c.left = 0 /\ r[1] \in {"moved", "ask", "tryagain"})
        THEN Fail(t, c) /\ UNCHANGED slot_map
        ELSE CASE r[1] = "moved" -> /\ slot_map' = update_slot_master(slot_map, r[2], r[3])
                                    /\ Again(t, c, "get", r[3], c.left - 1)
             [] r[1] = "ask" -> Again(t, c, "askget", r[3], c.left) /\ UNCHANGED slot_map
             [] r[1] = "tryagain" -> Again(t, c, "get", c.to, c.left - 1) /\ UNCHANGED slot_map
             [] OTHER -> Deliver(t, c, r) /\ UNCHANGED slot_map
     /\ UNCHANGED <<servers, nodes, fetched>>

\* The reply to the command after ASKING is returned as it is.
ReadAsked(t) ==
  LET c == [task[t] EXCEPT !.conn.owed = Tail(@)]
  IN /\ task[t].pc = "askread"
     /\ Deliver(t, c, Head(task[t].conn.owed))
     /\ UNCHANGED <<servers, nodes, slot_map, fetched>>

\* read_response in pipeline; a redirection is followed with the guard in hand.
ReadGroup(t) ==
  LET r == Head(task[t].held.owed)
      c == [task[t] EXCEPT !.held.owed = Tail(@)]
  IN /\ task[t].pc = "groupread"
     /\ CASE r[1] = "moved" -> /\ slot_map' = update_slot_master(slot_map, r[2], r[3])
                               /\ Again(t, c, "get", r[3], MAX_REDIRECTS - 1)
        [] r[1] = "ask" -> Again(t, c, "askget", r[3], c.left) /\ UNCHANGED slot_map
        [] OTHER -> Deliver(t, c, r) /\ UNCHANGED slot_map
     /\ UNCHANGED <<servers, nodes, fetched>>

\* pool.get() cannot connect, the pool being there now; or a read times out.
Fault(t) ==
  LET n == Wanted(task[t])
  IN /\ ~calm
     /\ \/ /\ "connect" \in Faults /\ task[t].pc \in {"get", "askget", "groupget"}
           /\ HasPermit(n) /\ idle[n] = <<>>
           /\ nodes' = nodes \cup {n}
        \/ /\ "timeout" \in Faults /\ task[t].pc \in {"read", "asked", "askread", "groupread"}
           /\ UNCHANGED nodes
     /\ Fail(t, task[t])
     /\ UNCHANGED <<servers, slot_map, fetched>>

-----------------------------------------------------------------------------
\* The background task of `new`: refresh_slots_from(any known node), in two steps.
RefreshRead == /\ fetched = {}
               /\ \E n \in nodes : fetched' = {Topology(view[n])}
               /\ UNCHANGED <<servers, nodes, slot_map, idle, task>>

RefreshInstall == /\ \E new_map \in fetched :
                       /\ nodes' = nodes \cup UNION {{r.master} \cup Range(r.replicas) : r \in new_map}
                       /\ slot_map' = new_map
                  /\ fetched' = {}
                  /\ UNCHANGED <<servers, idle, task>>

-----------------------------------------------------------------------------
Step(t) == \/ execute_routed(t) \/ GroupNext(t) \/ NextGroup(t)
           \/ Get(t) \/ Send(t) \/ SendAsking(t) \/ ReadAsking(t) \/ SendGroup(t)
           \/ Read(t) \/ ReadAsked(t) \/ ReadGroup(t)

Environment == \/ \E s \in Slots : Migrated(s) \/ \E n \in Nodes : Migrate(s, n)
               \/ \E n \in Nodes : Gossip(n) \/ Down(n)
               \/ CalmDown

Next == Environment \/ RefreshRead \/ RefreshInstall \/ \E t \in Tasks : Call(t) \/ Step(t) \/ Fault(t)

Spec == Init /\ [][Next]_vars

\* The runtime polls every task; the semaphore of a pool is fair.
FairSpec == Spec /\ \A t \in Tasks : WF_vars(Step(t))

-----------------------------------------------------------------------------
(* Redirections never execute a command twice. *)
AtMostOnce == \A t \in Tasks : \A i \in DOMAIN task[t].runs : task[t].runs[i] <= 1

(* "Results are returned in the same order as the commands": no result is the
   reply to another command, and what is reported done has been done. *)
OwnReplies ==
  \A t \in Tasks : \A i \in DOMAIN task[t].results :
    LET r == task[t].results[i]
    IN r[1] = "ok" => r = <<"ok", t, task[t].n, i>> /\ task[t].runs[i] > 0

(* What binary_search_by relies on: no slot is in two ranges, whatever MOVED
   replies and refreshes have done to the map. *)
RangesDisjoint ==
  \A p, q \in slot_map : p # q => p.end < q.start \/ q.end < p.start

(* "Handles MOVED/ASK redirects": a command that begins when the servers agree
   on the owners succeeds, however wrong the slot map is and wherever a read is
   sent. *)
CalmCallsSucceed ==
  \A t \in Tasks :
    task[t].start = "calm" /\ task[t].pc = "idle" /\ task[t].kind = "execute"
      /\ (\A j \in DOMAIN task[t].cmds : task[t].cmds[j].slot # NoSlot => owner[task[t].cmds[j].slot] # NoNode)
    => task[t].status = "ok" /\ task[t].runs = << 1 >>

(* "Execute a pipeline (batch of commands) and return all responses": every call
   returns. *)
CallEnds == \A t \in Tasks : task[t].pc # "idle" ~> task[t].pc = "idle"
=============================================================================
