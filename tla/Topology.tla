------------------------------ MODULE Topology ------------------------------
(***************************************************************************)
(* The networks that start_emulation can be asked for: the constructor of  *)
(* Topology (a top-of-rack switch per rack, with its hosts), and on top of *)
(* it the one of FatTree or Clos, one step per turn of their loops.        *)
(* A link leads up: from a host to its rack, from a switch to the next     *)
(* layer.  Delays and queue sizes are left out.                            *)
(***************************************************************************)
EXTENDS Integers, Sequences, FiniteSets

CONSTANTS
    MaxRacks,       \* bound: racks of a topology (not a limit of the code)
    MaxHosts,       \* bound: hosts of a rack (not a limit of the code)
    HostsPerRack    \* hosts_per_rack, which the code sets to 20

ASSUME TopologyAssumption ==
    MaxRacks \in Nat \ {0} /\ MaxHosts \in Nat \ {0} /\ HostsPerRack \in Nat

VARIABLES
    kind,       \* the class that is constructed
    racks,      \* racks[r]: how many hosts the r-th rack of the request has
    pc,         \* the loop the constructor is in
    i,          \* its counter
    tors,       \* tor_switches
    hosts,      \* hosts added so far
    links,      \* links added so far
    s,          \* switches "s1", "s2" ... added so far
    todo,       \* FatTree: roots that have to be integrated into the tree
    newTodo,    \* FatTree: roots of the next layer
    bandwidth,  \* FatTree: the limit of this layer
    pod         \* Clos: the pod switches

vars == <<kind, racks, pc, i, tors, hosts, links, s, todo, newTodo, bandwidth,
          pod>>

EdgeLimit == 10     \* edge_bandwidth_limit
ClosLimit == 50     \* bw of a Clos link
NoLimit == 0        \* a link whose bw is not given
NumCore == 2
PodSize == 2

Tor(r) == <<"tor", r>>
Switch(n) == <<"s", n>>
Host(r, h) == <<"h", r, h>>
Core(c) == Switch(c + 1)
Link(a, b, limit) == [from |-> a, to |-> b, bw |-> limit]

(* num_pods of Clos: Python 2 divides the integers before it rounds up. *)
NumPods == Len(racks) \div PodSize

switches == {Switch(n) : n \in 1..s}
nodes == {tors[r] : r \in DOMAIN tors} \cup hosts \cup switches

TypeOK ==
    /\ kind \in {"FatTree", "Clos"}
    /\ racks \in Seq(1..MaxHosts) /\ Len(racks) \in 1..MaxRacks
    /\ pc \in {"racks", "layers", "core", "pods", "wires", "done"}
    /\ i \in Nat /\ s \in Nat /\ bandwidth \in Nat
    /\ Len(tors) <= Len(racks)
    /\ \A l \in links : l.from \in nodes /\ l.to \in nodes /\ l.bw \in Nat
    /\ \A q \in {todo, newTodo, pod} : \A j \in DOMAIN q : q[j] \in nodes

Init ==
    /\ kind \in {"FatTree", "Clos"}
    /\ racks \in UNION {[1..n -> 1..MaxHosts] : n \in 1..MaxRacks}
    /\ pc = "racks"
    /\ i = 0 /\ s = 0 /\ bandwidth = EdgeLimit
    /\ hosts = {} /\ links = {}
    /\ tors = <<>> /\ todo = <<>> /\ newTodo = <<>> /\ pod = <<>>

-----------------------------------------------------------------------------
(* Variants of the definitions, each with one plausible mistake. *)

(* TreeIsBalanced: the odd root of a layer is carried over as it is. *)
JoinPairCarrying ==
    /\ pc = "layers" /\ Len(todo) > 1 /\ i < Len(todo)
    /\ IF i + 1 = Len(todo)
       THEN newTodo' = Append(newTodo, todo[i + 1]) /\ UNCHANGED <<links, s>>
       ELSE /\ newTodo' = Append(newTodo, Switch(s + 1))
            /\ links' = links \cup {Link(todo[j], Switch(s + 1), bandwidth) :
                                       j \in {i + 1, i + 2}}
            /\ s' = s + 1
    /\ i' = i + 2
    /\ UNCHANGED <<kind, racks, pc, tors, hosts, todo, bandwidth, pod>>

(* TypeOK: the switch counter is not advanced after the second switch. *)
AddPodCountingOnce ==
    /\ pc = "pods" /\ i < NumPods
    /\ LET new == <<Switch(s + 1), Switch(s + 2)>>
       IN  /\ pod' = pod \o new
           /\ links' = links \cup {Link(tors[j + 1], new[x], ClosLimit) :
                          j \in i * PodSize .. (i + 1) * PodSize - 1, x \in 1..2}
    /\ s' = s + 1
    /\ i' = i + 1
    /\ UNCHANGED <<kind, racks, pc, tors, hosts, todo, newTodo, bandwidth>>

(* ClosCutsOddRack: range(start, end - 1), the last rack of a pod is left   *)
(* out.                                                                     *)
AddPodShort ==
    /\ pc = "pods" /\ i < NumPods
    /\ LET new == <<Switch(s + 1), Switch(s + 2)>>
       IN  /\ pod' = pod \o new
           /\ links' = links \cup {Link(tors[i * PodSize + 1], new[x], ClosLimit) :
                                      x \in 1..2}
    /\ s' = s + 2
    /\ i' = i + 1
    /\ UNCHANGED <<kind, racks, pc, tors, hosts, todo, newTodo, bandwidth>>

(* ClosSurvivesSwitch: both pod switches are wired to the same core switch. *)
WireOneCore ==
    /\ pc = "wires" /\ i < Len(pod)
    /\ links' = links \cup {Link(pod[i + 1], Core((i * 2) % NumCore), ClosLimit)}
    /\ i' = i + 1
    /\ UNCHANGED <<kind, racks, pc, tors, hosts, s, todo, newTodo, bandwidth,
                   pod>>

(* HostIdsDistinct: one host fewer per rack. *)
HostIdTight(h) == (HostsPerRack - 1) * (h[2] - 1) + h[3]

-----------------------------------------------------------------------------
(* Topology.__init__: one rack with its hosts. *)
AddRack ==
    /\ pc = "racks" /\ i < Len(racks)
    /\ LET r == i + 1
           new == {Host(r, h) : h \in 1..racks[r]}
       IN  /\ tors' = Append(tors, Tor(r))
           /\ hosts' = hosts \cup new
           /\ links' = links \cup {Link(h, Tor(r), EdgeLimit) : h \in new}
           /\ i' = r
    /\ UNCHANGED <<kind, racks, pc, s, todo, newTodo, bandwidth, pod>>

RacksDone ==
    /\ pc = "racks" /\ i = Len(racks)
    /\ i' = 0
    /\ IF kind = "FatTree"
       THEN pc' = "layers" /\ todo' = tors
       ELSE pc' = "core" /\ UNCHANGED todo
    /\ UNCHANGED <<kind, racks, tors, hosts, links, s, newTodo, bandwidth, pod>>

(* FatTree.__init__: two roots of a layer get a switch above them.  Only    *)
(* the link of the first has a bw; the keyword of the second is another.    *)
JoinPair ==
    /\ pc = "layers" /\ Len(todo) > 1 /\ i < Len(todo)
    /\ LET sw == Switch(s + 1)
       IN  /\ newTodo' = Append(newTodo, sw)
           /\ links' = links \cup {Link(todo[i + 1], sw, bandwidth)}
                \cup {Link(todo[j], sw, NoLimit) : j \in {i + 2} \cap DOMAIN todo}
    /\ s' = s + 1
    /\ i' = i + 2
    /\ UNCHANGED <<kind, racks, pc, tors, hosts, todo, bandwidth, pod>>

NextLayer ==
    /\ pc = "layers" /\ Len(todo) > 1 /\ i >= Len(todo)
    /\ todo' = newTodo
    /\ newTodo' = <<>>
    /\ bandwidth' = 2 * bandwidth
    /\ i' = 0
    /\ UNCHANGED <<kind, racks, pc, tors, hosts, links, s, pod>>

TreeDone ==
    /\ pc = "layers" /\ Len(todo) <= 1
    /\ pc' = "done"
    /\ UNCHANGED <<kind, racks, i, tors, hosts, links, s, todo, newTodo,
                   bandwidth, pod>>

(* Clos.__init__: the core, the pods with their wires down, and the wires  *)
(* between pods and core.                                                   *)
AddCore ==
    /\ pc = "core"
    /\ s' = NumCore
    /\ pc' = "pods"
    /\ UNCHANGED <<kind, racks, i, tors, hosts, links, todo, newTodo,
                   bandwidth, pod>>

(* One pod of two switches, wired to the racks start..end-1. *)
AddPod ==
    /\ pc = "pods" /\ i < NumPods
    /\ LET new == <<Switch(s + 1), Switch(s + 2)>>
           last == (i + 1) * PodSize
           end == IF last > Len(racks) THEN Len(racks) + 1 ELSE last
       IN  /\ pod' = pod \o new
           /\ links' = links \cup {Link(tors[j + 1], new[x], ClosLimit) :
                                      j \in i * PodSize .. end - 1, x \in 1..2}
    /\ s' = s + 2
    /\ i' = i + 1
    /\ UNCHANGED <<kind, racks, pc, tors, hosts, todo, newTodo, bandwidth>>

PodsDone ==
    /\ pc = "pods" /\ i = NumPods
    /\ i' = 0
    /\ pc' = "wires"
    /\ UNCHANGED <<kind, racks, tors, hosts, links, s, todo, newTodo,
                   bandwidth, pod>>

(* A pod switch is wired to two core switches. *)
WireCore ==
    /\ pc = "wires" /\ i < Len(pod)
    /\ links' = links \cup {Link(pod[i + 1], Core(c), ClosLimit) :
                   c \in {(i * 2) % NumCore, (i * 2 + 1) % NumCore}}
    /\ i' = i + 1
    /\ UNCHANGED <<kind, racks, pc, tors, hosts, s, todo, newTodo, bandwidth,
                   pod>>

ClosDone ==
    /\ pc = "wires" /\ i = Len(pod)
    /\ pc' = "done"
    /\ UNCHANGED <<kind, racks, i, tors, hosts, links, s, todo, newTodo,
                   bandwidth, pod>>

Next ==
    \/ AddRack \/ RacksDone
    \/ JoinPair \/ NextLayer \/ TreeDone
    \/ AddCore \/ AddPod \/ PodsDone \/ WireCore \/ ClosDone

Spec == Init /\ [][Next]_vars

-----------------------------------------------------------------------------
(* start_emulation: the number the traffic generator of a host is given,    *)
(* from the third and fourth part of its address 10.0.r.h.                  *)
HostId(h) == HostsPerRack * (h[2] - 1) + h[3]

-----------------------------------------------------------------------------
(* What the topologies are for. *)

(* The nodes that are n edges of E away from the nodes X. *)
After(X, E, n) ==
    LET A[k \in Nat] ==
          IF k = 0 THEN X
          ELSE LET Y == A[k - 1] IN {e[2] : e \in {f \in E : f[1] \in Y}}
    IN  A[n]

Up == {<<l.from, l.to>> : l \in links}

(* The nodes n links above the nodes X. *)
Above(X, n) == After(X, Up, n)

(* A link carries both ways, and every node keeps what it has. *)
Ways(ls) ==
    {<<l.from, l.to>> : l \in ls} \cup {<<l.to, l.from>> : l \in ls}
      \cup {<<x, x>> : x \in nodes}

(* Nodes reached from x over links ls: no shortest path has more links than *)
(* there are nodes.                                                         *)
Reached(x, ls) == After({x}, Ways(ls), Cardinality(nodes))

(* How many racks d layers of pairs can join. *)
Joined[d \in Nat] == IF d = 0 THEN 1 ELSE 2 * Joined[d - 1]

(* The least number of layers that joins n racks in pairs. *)
Layers(n) == CHOOSE d \in 0..n : Joined[d] >= n /\ (d = 0 \/ Joined[d - 1] < n)

(* A finished fat tree is a tree, so there is one way between two hosts,    *)
(* for odd and even layers alike; all racks are at the same depth, which is *)
(* the least possible, and the root alone is above them all.                *)
TreeIsBalanced ==
    (pc = "done" /\ kind = "FatTree") =>
        /\ Cardinality(links) = Cardinality(nodes) - 1
        /\ \A x \in nodes : Cardinality({l \in links : l.from = x}) <= 1
        /\ LET top == Layers(Len(racks))
           IN  \A r \in DOMAIN tors :
                 /\ Above({tors[r]}, top) # {}
                 /\ Above({tors[r]}, top) = Above({tors[1]}, top)
                 /\ Above({tors[r]}, top + 1) = {}

Wired(r) == r <= PodSize * NumPods

(* A finished Clos network connects the racks that fill a pod; the last one *)
(* of an odd number of racks, or the only one, is cut off with its hosts.   *)
ClosCutsOddRack ==
    (pc = "done" /\ kind = "Clos") =>
        \A h \in hosts :
            Reached(h, links) \cap hosts =
                {g \in hosts : g[2] = h[2] \/ (Wired(h[2]) /\ Wired(g[2]))}

(* What a Clos network is for: without any one of its core and pod switches *)
(* the racks it connects are still connected.                               *)
ClosSurvivesSwitch ==
    (pc = "done" /\ kind = "Clos") =>
        \A x \in switches :
            LET left == {l \in links : x \notin {l.from, l.to}}
            IN  \A r \in DOMAIN tors :
                  Wired(r) => {tors[q] : q \in {q \in DOMAIN tors : Wired(q)}}
                                 \subseteq Reached(tors[r], left)

(* No two hosts play the same host of the traffic generator, as long as no  *)
(* rack has more hosts than the code assumes of every rack.                 *)
HostIdsDistinct ==
    (\A r \in DOMAIN racks : racks[r] <= HostsPerRack) =>
        \A g, h \in hosts : HostId(g) = HostId(h) => g = h

(* FatTree: "The bandwidth limit is doubled with every layer of the tree":  *)
(* the link up from a layer has twice the limit of the links below it.      *)
BandwidthDoubles ==
    \A l, m \in links :
        (kind = "FatTree" /\ l.from \notin hosts /\ l.to = m.from)
            => m.bw = 2 * l.bw
=============================================================================
