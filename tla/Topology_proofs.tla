--------------------------- MODULE Topology_proofs ---------------------------
(***************************************************************************)
(* Proofs about Topology, for any number of racks and hosts.               *)
(***************************************************************************)
EXTENDS Topology, FiniteSetTheorems, SequenceTheorems, NaturalsInduction,
        WellFoundedInduction, TLAPS

(* The nodes the constructors have at hand were added to the topology: the  *)
(* racks are numbered in order, and each loop stays inside its list.        *)
Built ==
    /\ \A r \in DOMAIN tors : tors[r] = Tor(r)
    /\ \A x \in hosts : \E r \in DOMAIN racks : \E h \in 1..racks[r] :
                            x = Host(r, h)
    /\ tors \in Seq(nodes) /\ todo \in Seq(nodes)
    /\ newTodo \in Seq(nodes) /\ pod \in Seq(nodes)
    /\ pc = "racks" => Len(tors) = i /\ i <= Len(racks) /\ s = 0
    /\ pc = "core" => i = 0 /\ s = 0
    /\ pc # "racks" => Len(tors) = Len(racks)
    /\ pc = "pods" => i <= NumPods
    /\ pc \in {"pods", "wires"} => s >= NumCore

TopologyInv == TypeOK /\ Built

LEMMA RacksType ==
  ASSUME NEW n \in 1..MaxRacks, NEW f \in [1..n -> 1..MaxHosts]
  PROVE  f \in Seq(1..MaxHosts) /\ Len(f) = n /\ DOMAIN f = 1..n
BY TopologyAssumption

(* Sequences of nodes stay sequences of nodes while nodes are added.        *)
LEMMA SeqGrows ==
  ASSUME NEW S, NEW T, S \subseteq T, NEW q \in Seq(S) PROVE q \in Seq(T)
OBVIOUS

LEMMA InitBuilt == ASSUME Init PROVE TopologyInv
<1> USE TopologyAssumption
<1>1. PICK n \in 1..MaxRacks : racks \in [1..n -> 1..MaxHosts] BY DEF Init
<1>2. racks \in Seq(1..MaxHosts) /\ Len(racks) \in 1..MaxRacks
  BY <1>1, RacksType
<1>3. \A S : <<>> \in Seq(S) OBVIOUS
<1>4. tors = <<>> /\ todo = <<>> /\ newTodo = <<>> /\ pod = <<>> BY DEF Init
<1>5. EdgeLimit \in Nat BY DEF EdgeLimit
<1> QED BY <1>2, <1>3, <1>4, <1>5 DEF Init, TopologyInv, TypeOK, Built

(* A step that adds nodes and links to the ends of what is there.           *)
LEMMA Grows ==
  ASSUME TopologyInv, UNCHANGED <<kind, racks>>,
         pc' \in {"racks", "layers", "core", "pods", "wires", "done"},
         i' \in Nat, s' \in Nat, bandwidth' \in Nat,
         nodes \subseteq nodes',
         \A l \in links' \ links : l.from \in nodes' /\ l.to \in nodes' /\ l.bw \in Nat,
         Len(tors') <= Len(racks), tors' \in Seq(nodes'),
         todo' \in Seq(nodes'), newTodo' \in Seq(nodes'), pod' \in Seq(nodes')
  PROVE  TypeOK'
<1>1. \A q \in {todo', newTodo', pod'} : \A j \in DOMAIN q : q[j] \in nodes'
  OBVIOUS
<1>2. \A l \in links' : l.from \in nodes' /\ l.to \in nodes' /\ l.bw \in Nat
  BY DEF TopologyInv, TypeOK
<1> QED BY <1>1, <1>2 DEF TopologyInv, TypeOK

LEMMA NodesGrow ==
  ASSUME s \in Nat, s' \in Nat, s <= s', hosts \subseteq hosts',
         DOMAIN tors \subseteq DOMAIN tors',
         \A r \in DOMAIN tors : tors'[r] = tors[r]
  PROVE  nodes \subseteq nodes'
<1>1. switches \subseteq switches' BY DEF switches
<1>2. {tors[r] : r \in DOMAIN tors} \subseteq {tors'[r] : r \in DOMAIN tors'}
  OBVIOUS
<1> QED BY <1>1, <1>2 DEF nodes

LEMMA AddRackStep == ASSUME TopologyInv, AddRack PROVE TopologyInv'
<1> USE DEF TopologyInv, TypeOK, Built
<1> DEFINE r == i + 1
           new == {Host(r, h) : h \in 1..racks[r]}
<1>1. r \in 1..Len(racks) /\ Len(tors) = i /\ tors' = Append(tors, Tor(r))
  BY DEF AddRack
<1>2. /\ Len(tors') = r /\ DOMAIN tors' = 1..r
      /\ \A q \in DOMAIN tors : tors'[q] = tors[q] /\ q \in DOMAIN tors'
      /\ tors'[r] = Tor(r)
  BY <1>1
<1>3. nodes \subseteq nodes' BY <1>2, NodesGrow DEF AddRack
<1>4. Tor(r) \in nodes'
  <2>1. r \in DOMAIN tors' BY <1>1, <1>2
  <2>2. tors'[r] \in nodes' BY <2>1 DEF nodes
  <2> QED BY <1>2, <2>2
<1>5. new \subseteq nodes' BY DEF AddRack, nodes
<1>6. \A l \in links' \ links : l.from \in nodes' /\ l.to \in nodes' /\ l.bw \in Nat
  <2> SUFFICES ASSUME NEW h \in new
               PROVE  LET l == Link(h, Tor(r), EdgeLimit)
                      IN  l.from \in nodes' /\ l.to \in nodes' /\ l.bw \in Nat
    BY DEF AddRack
  <2> QED BY <1>4, <1>5 DEF Link, EdgeLimit
<1>7. tors' \in Seq(nodes') BY <1>1, <1>3, <1>4
<1>8. TypeOK'
  <2>1. i' \in Nat /\ i' = r BY DEF AddRack
  <2> QED BY <1>1, <1>2, <1>3, <1>6, <1>7, <2>1, SeqGrows, Grows DEF AddRack
<1>9. \A x \in hosts' : \E q \in DOMAIN racks : \E h \in 1..racks[q] : x = Host(q, h)
  BY <1>1 DEF AddRack
<1>10. \A q \in DOMAIN tors' : tors'[q] = Tor(q) BY <1>1, <1>2
<1>11. /\ todo' \in Seq(nodes') /\ newTodo' \in Seq(nodes') /\ pod' \in Seq(nodes')
       /\ pc' = "racks" /\ i' = r /\ racks' = racks /\ s' = 0
  BY <1>3, SeqGrows DEF AddRack
<1> QED BY <1>1, <1>2, <1>7, <1>8, <1>9, <1>10, <1>11

(* A switch is added above the nodes of a layer, or to the core.            *)
LEMMA SwitchesGrow ==
  ASSUME s \in Nat, NEW n \in Nat, s' = s + n, UNCHANGED <<tors, hosts>>
  PROVE  nodes \subseteq nodes' /\ \A m \in 1..n : Switch(s + m) \in nodes'
<1>1. nodes \subseteq nodes' BY NodesGrow
<1>2. \A m \in 1..n : Switch(s + m) \in switches' BY DEF switches
<1> QED BY <1>1, <1>2 DEF nodes

LEMMA JoinPairStep == ASSUME TopologyInv, JoinPair PROVE TopologyInv'
<1> USE DEF TopologyInv, TypeOK, Built
<1> DEFINE sw == Switch(s + 1)
<1>1. s' = s + 1 /\ UNCHANGED <<tors, hosts>> BY DEF JoinPair
<1>2. nodes \subseteq nodes' /\ sw \in nodes' BY <1>1, SwitchesGrow
<1>3. i + 1 \in DOMAIN todo /\ todo[i + 1] \in nodes BY DEF JoinPair
<1>4. \A l \in links' \ links : l.from \in nodes' /\ l.to \in nodes' /\ l.bw \in Nat
  <2>1. \A l \in links' \ links :
          \E j \in DOMAIN todo : \E b \in Nat : l = Link(todo[j], sw, b)
    BY <1>3 DEF JoinPair, NoLimit
  <2>2. \A j \in DOMAIN todo : todo[j] \in nodes OBVIOUS
  <2> QED BY <1>2, <2>1, <2>2 DEF Link
<1>5. newTodo' = Append(newTodo, sw) /\ newTodo' \in Seq(nodes')
  <2>1. newTodo \in Seq(nodes') BY <1>2, SeqGrows
  <2> QED BY <1>2, <2>1 DEF JoinPair
<1>6. /\ tors' \in Seq(nodes') /\ todo' \in Seq(nodes') /\ pod' \in Seq(nodes')
      /\ UNCHANGED <<pc, racks, tors, hosts, kind, bandwidth>> /\ i' \in Nat
      /\ pc = "layers"
  BY <1>2, SeqGrows DEF JoinPair
<1>7. TypeOK' BY <1>1, <1>2, <1>4, <1>5, <1>6, Grows
<1> QED BY <1>5, <1>6, <1>7

LEMMA AddPodStep == ASSUME TopologyInv, AddPod PROVE TopologyInv'
<1> USE DEF TopologyInv, TypeOK, Built
<1> DEFINE new == <<Switch(s + 1), Switch(s + 2)>>
           last == (i + 1) * PodSize
           wires == {Link(tors[j + 1], new[x], ClosLimit) :
                       j \in i * PodSize .. last - 1, x \in 1..2}
<1>1. s' = s + 2 /\ UNCHANGED <<tors, hosts>> BY DEF AddPod
<1>2. nodes \subseteq nodes' /\ new[1] \in nodes' /\ new[2] \in nodes'
  BY <1>1, SwitchesGrow
<1>3. /\ i \in Nat /\ i < NumPods /\ Len(tors) = Len(racks) /\ Len(racks) \in Nat
      /\ NumPods \in Nat /\ 2 * NumPods <= Len(racks)
  <2>1. i \in Nat /\ i < NumPods /\ Len(tors) = Len(racks) /\ Len(racks) \in Nat
    BY DEF AddPod
  <2>2. NumPods \in Nat /\ 2 * NumPods <= Len(racks)
    BY <2>1 DEF NumPods, PodSize
  <2> QED BY <2>1, <2>2
<1>4. last \in Nat /\ last <= Len(racks) BY <1>3 DEF PodSize
<1>5. \A j \in i * PodSize .. last - 1 : tors[j + 1] \in nodes
  BY <1>3, <1>4 DEF PodSize
<1>6. \A l \in links' \ links : l.from \in nodes' /\ l.to \in nodes' /\ l.bw \in Nat
  <2>1. links' = links \cup wires BY <1>3, <1>4 DEF AddPod
  <2>2. \A x \in 1..2 : new[x] \in nodes' BY <1>2
  <2> HIDE DEF new
  <2>3. ASSUME NEW j \in i * PodSize .. last - 1, NEW x \in 1..2
        PROVE  LET l == Link(tors[j + 1], new[x], ClosLimit)
               IN  l.from \in nodes' /\ l.to \in nodes' /\ l.bw \in Nat
    BY <1>2, <1>5, <2>2 DEF Link, ClosLimit
  <2> QED BY <2>1, <2>3
<1>7. new \in Seq(nodes') BY <1>2
<1>8. pod' \in Seq(nodes')
  <2>1. pod \in Seq(nodes') BY <1>2, SeqGrows
  <2>2. pod' = pod \o new BY DEF AddPod
  <2> QED BY <1>7, <2>1, <2>2
<1>9. /\ tors' \in Seq(nodes') /\ todo' \in Seq(nodes') /\ newTodo' \in Seq(nodes')
      /\ UNCHANGED <<pc, racks, tors, hosts, kind, bandwidth>>
      /\ i' = i + 1 /\ pc = "pods"
  BY <1>2, SeqGrows DEF AddPod
<1>10. TypeOK' BY <1>1, <1>2, <1>3, <1>6, <1>8, <1>9, Grows
<1>11. NumPods' = NumPods BY <1>9 DEF NumPods
<1> QED BY <1>1, <1>3, <1>8, <1>9, <1>10, <1>11 DEF NumCore

LEMMA WireCoreStep == ASSUME TopologyInv, WireCore PROVE TopologyInv'
<1> USE DEF TopologyInv, TypeOK, Built
<1>1. UNCHANGED <<pc, racks, tors, hosts, kind, bandwidth, s, todo, newTodo, pod>>
      /\ pc = "wires" /\ i' = i + 1
  BY DEF WireCore
<1>2. nodes' = nodes BY <1>1 DEF nodes, switches
<1>3. \A c \in {0, 1} : Core(c) \in nodes
  <2>1. s \in Nat /\ s >= 2 BY <1>1 DEF NumCore
  <2>2. Core(0) = Switch(1) /\ Core(1) = Switch(2) BY DEF Core
  <2> QED BY <2>1, <2>2 DEF nodes, switches
<1>4. {(i * 2) % NumCore, (i * 2 + 1) % NumCore} \subseteq {0, 1}
  BY DEF NumCore
<1>5. pod[i + 1] \in nodes BY DEF WireCore
<1>6. \A l \in links' \ links : l.from \in nodes' /\ l.to \in nodes' /\ l.bw \in Nat
  BY <1>2, <1>3, <1>4, <1>5 DEF WireCore, Link, ClosLimit
<1>7. TypeOK' BY <1>1, <1>2, <1>6, Grows
<1> QED BY <1>1, <1>2, <1>7

LEMMA AddCoreStep == ASSUME TopologyInv, AddCore PROVE TopologyInv'
<1> USE DEF TopologyInv, TypeOK, Built
<1>1. /\ UNCHANGED <<i, racks, tors, hosts, kind, links, bandwidth, todo, newTodo, pod>>
      /\ pc = "core" /\ pc' = "pods" /\ s' = 2 /\ s = 0 /\ i = 0
  BY DEF AddCore, NumCore
<1>2. nodes \subseteq nodes' BY <1>1, NodesGrow
<1>3. /\ tors' \in Seq(nodes') /\ todo' \in Seq(nodes')
      /\ newTodo' \in Seq(nodes') /\ pod' \in Seq(nodes')
  BY <1>1, <1>2, SeqGrows
<1>4. TypeOK' BY <1>1, <1>2, <1>3, Grows
<1>5. 0 <= NumPods BY DEF NumPods, PodSize
<1>6. NumPods' = NumPods BY <1>1 DEF NumPods
<1> QED BY <1>1, <1>3, <1>4, <1>5, <1>6 DEF NumCore

(* The steps that end a loop add nothing to the topology.                   *)
LEMMA NothingAdded ==
  ASSUME TopologyInv, UNCHANGED <<kind, racks, tors, hosts, links, s, pod>>,
         pc' \in {"racks", "layers", "core", "pods", "wires", "done"},
         i' \in Nat, bandwidth' \in Nat,
         todo' \in Seq(nodes), newTodo' \in Seq(nodes),
         pc' # "racks", Len(tors) = Len(racks),
         pc' = "core" => i' = 0 /\ s = 0,
         pc' = "pods" => i' <= NumPods,
         pc' \in {"pods", "wires"} => s >= NumCore
  PROVE  TopologyInv'
<1> USE DEF TopologyInv, TypeOK, Built
<1>1. nodes' = nodes /\ NumPods' = NumPods BY DEF nodes, switches, NumPods
<1>2. tors' \in Seq(nodes') /\ pod' \in Seq(nodes') BY <1>1
<1>3. TypeOK' BY <1>1, <1>2, Grows
<1> QED BY <1>1, <1>2, <1>3

LEMMA LoopEndStep ==
  ASSUME TopologyInv,
         RacksDone \/ NextLayer \/ TreeDone \/ PodsDone \/ ClosDone
  PROVE  TopologyInv'
<1> USE DEF TopologyInv, TypeOK, Built
<1>1. CASE RacksDone BY <1>1, NothingAdded DEF RacksDone
<1>2. CASE NextLayer BY <1>2, NothingAdded DEF NextLayer
<1>3. CASE TreeDone BY <1>3, NothingAdded DEF TreeDone
<1>4. CASE PodsDone BY <1>4, NothingAdded DEF PodsDone
<1>5. CASE ClosDone BY <1>5, NothingAdded DEF ClosDone
<1> QED BY <1>1, <1>2, <1>3, <1>4, <1>5

LEMMA StutterBuilt ==
  ASSUME TopologyInv, UNCHANGED vars PROVE TopologyInv'
BY DEF TopologyInv, TypeOK, Built, vars, nodes, switches, NumPods

(* The constructors name only nodes they added: no loop of Topology,        *)
(* FatTree or Clos runs off the end of a list, for any number of racks.     *)
THEOREM BuiltInvariant == Spec => []TopologyInv
<1>1. TopologyInv /\ [Next]_vars => TopologyInv'
  BY AddRackStep, JoinPairStep, AddPodStep, WireCoreStep, AddCoreStep,
     LoopEndStep, StutterBuilt DEF Next
<1> QED BY <1>1, InitBuilt, PTL DEF Spec

(* Every link leads between nodes of the topology, whatever is built.       *)
THEOREM TypeCorrect == Spec => []TypeOK
<1>1. TopologyInv => TypeOK BY DEF TopologyInv
<1> QED BY <1>1, BuiltInvariant, PTL

-----------------------------------------------------------------------------
(* The numbers of the hosts of a rack stay below those of the next rack.    *)
LEMMA RacksAreApart ==
  ASSUME NEW n \in Nat, NEW q \in Nat, NEW r \in Nat, q < r
  PROVE  n * (q - 1) + n <= n * (r - 1)
<1>1. PICK d \in Nat : r = q + 1 + d
  <2>1. r - q - 1 \in Nat /\ r = q + 1 + (r - q - 1) OBVIOUS
  <2> QED BY <2>1
<1>2. n * d \in Nat OBVIOUS
<1>3. n * (r - 1) = n * (q - 1) + n + n * d BY <1>1
<1> QED BY <1>2, <1>3

LEMMA RacksFit ==
  ASSUME TopologyInv, \A r \in DOMAIN racks : racks[r] <= HostsPerRack
  PROVE  \A g, h \in hosts : HostId(g) = HostId(h) => g = h
<1> USE TopologyAssumption
<1>1. SUFFICES ASSUME NEW g \in hosts, NEW h \in hosts, HostId(g) = HostId(h)
               PROVE  g = h
  OBVIOUS
<1>2. PICK q \in DOMAIN racks : \E k \in 1..racks[q] : g = Host(q, k)
  BY DEF TopologyInv, Built
<1>3. PICK k \in 1..racks[q] : g = Host(q, k) BY <1>2
<1>4. PICK r \in DOMAIN racks : \E m \in 1..racks[r] : h = Host(r, m)
  BY DEF TopologyInv, Built
<1>5. PICK m \in 1..racks[r] : h = Host(r, m) BY <1>4
<1>6. q \in Nat /\ r \in Nat /\ racks[q] \in Nat /\ racks[r] \in Nat
  BY DEF TopologyInv, TypeOK
<1>7. k \in 1..HostsPerRack /\ m \in 1..HostsPerRack BY <1>6
<1>8. HostId(g) = HostsPerRack * (q - 1) + k /\ HostId(h) = HostsPerRack * (r - 1) + m
  BY <1>3, <1>5 DEF HostId, Host
<1>9. HostsPerRack * (q - 1) \in Int /\ HostsPerRack * (r - 1) \in Int BY <1>6
<1>10. ~ (q < r)
  <2>1. SUFFICES ASSUME q < r PROVE FALSE OBVIOUS
  <2>2. HostsPerRack * (q - 1) + HostsPerRack <= HostsPerRack * (r - 1)
    BY <1>6, <2>1, RacksAreApart
  <2> DEFINE a == HostsPerRack * (q - 1)
             b == HostsPerRack * (r - 1)
  <2>3. a \in Int /\ b \in Int /\ a + HostsPerRack <= b /\ a + k = b + m
    BY <1>1, <1>8, <1>9, <2>2
  <2> HIDE DEF a, b
  <2> QED BY <1>7, <2>3
<1>11. ~ (r < q)
  <2>1. SUFFICES ASSUME r < q PROVE FALSE OBVIOUS
  <2>2. HostsPerRack * (r - 1) + HostsPerRack <= HostsPerRack * (q - 1)
    BY <1>6, <2>1, RacksAreApart
  <2> DEFINE a == HostsPerRack * (q - 1)
             b == HostsPerRack * (r - 1)
  <2>3. a \in Int /\ b \in Int /\ b + HostsPerRack <= a /\ a + k = b + m
    BY <1>1, <1>8, <1>9, <2>2
  <2> HIDE DEF a, b
  <2> QED BY <1>7, <2>3
<1>12. q = r BY <1>6, <1>10, <1>11
<1>13. k = m
  <2> DEFINE a == HostsPerRack * (q - 1)
  <2>1. a \in Int /\ a + k = a + m BY <1>1, <1>8, <1>9, <1>12
  <2> HIDE DEF a
  <2> QED BY <1>7, <2>1
<1> QED BY <1>3, <1>5, <1>12, <1>13

(* start_emulation gives each host of the traffic generator its own number, *)
(* for every network whose racks are not larger than the code assumes.      *)
THEOREM HostsAreDistinct == Spec => []HostIdsDistinct
<1>1. TopologyInv => HostIdsDistinct
  BY RacksFit DEF HostIdsDistinct
<1> QED BY <1>1, BuiltInvariant, PTL

-----------------------------------------------------------------------------
(***************************************************************************)
(* Induction on the naturals, for a set of them in place of an operator,   *)
(* and what the nodes n edges away are                                     *)
(***************************************************************************)
LEMMA NatMin ==
  ASSUME NEW N \in SUBSET Nat, N # {}
  PROVE  \E n \in N : \A m \in N : n <= m
<1> DEFINE R == {x \in Nat \X Nat : x[1] < x[2]}
<1>1. IsWellFoundedOn(R, Nat) BY NatLessThanWellFounded DEF OpToRel
<1>2. \A m, n \in Nat : m < n => <<m, n>> \in R OBVIOUS
<1>3. \E n \in N : \A m \in N : ~(<<m, n>> \in R)
  <2> HIDE DEF R
  <2> QED BY <1>1, WFMin
<1> HIDE DEF R
<1>4. PICK n \in N : \A m \in N : ~(<<m, n>> \in R) BY <1>3
<1>5. \A m \in N : ~(m < n) BY <1>2, <1>4
<1> QED BY <1>5

(* A set of naturals with 0 and every successor has them all.               *)
LEMMA NatAll ==
  ASSUME NEW N, 0 \in N, \A n \in N \cap Nat : n + 1 \in N
  PROVE  \A n \in Nat : n \in N
<1> DEFINE B == Nat \ N
<1>1. SUFFICES ASSUME B # {} PROVE FALSE OBVIOUS
<1>2. PICK n \in B : \A m \in B : n <= m BY <1>1, NatMin
<1>3. n # 0 /\ n - 1 \in Nat BY <1>2
<1>4. n - 1 \in N BY <1>2, <1>3
<1>5. (n - 1) + 1 \in N BY <1>3, <1>4
<1> QED BY <1>2, <1>3, <1>5

(* A recursion on the naturals has a solution: it is put together from the  *)
(* solutions up to each number, of which there is one each.                 *)
LEMMA Recursion ==
  ASSUME NEW D, NEW x \in D, NEW F \in [D -> D]
  PROVE  \E g \in [Nat -> D] :
            g[0] = x /\ \A n \in Nat : g[n + 1] = F[g[n]]
<1> DEFINE Turn(g, n) == IF n = 0 THEN x ELSE F[g[n - 1]]
           Upto(g, k) == g = [n \in 0..k |-> Turn(g, n)]
           Whole(g) == g = [n \in Nat |-> Turn(g, n)]
<1>1. ASSUME NEW k \in Nat, NEW g, Upto(g, k) PROVE \E h : Upto(h, k + 1)
  <2> DEFINE h == [n \in 0..(k + 1) |-> IF n = k + 1 THEN F[g[k]] ELSE g[n]]
  <2>1. \A n \in 0..k : h[n] = g[n] OBVIOUS
  <2>2. \A n \in 0..k : g[n] = Turn(g, n) BY <1>1
  <2>3. ASSUME NEW n \in 0..(k + 1) PROVE h[n] = Turn(h, n)
    <3>1. CASE n = k + 1
      <4>1. h[n] = F[g[k]] /\ h[k] = g[k] /\ n - 1 = k /\ n # 0 BY <3>1, <2>1
      <4> HIDE DEF h
      <4> QED BY <4>1
    <3>2. CASE n \in 0..k
      <4>1. h[n] = Turn(g, n) BY <3>2, <2>1, <2>2
      <4>2. n # 0 => n - 1 \in 0..k /\ h[n - 1] = g[n - 1] BY <3>2, <2>1
      <4> HIDE DEF h
      <4> QED BY <4>1, <4>2
    <3> QED BY <3>1, <3>2
  <2>4. h = [n \in 0..(k + 1) |-> h[n]] OBVIOUS
  <2> HIDE DEF h, Turn
  <2>5. [n \in 0..(k + 1) |-> h[n]] = [n \in 0..(k + 1) |-> Turn(h, n)] BY <2>3
  <2> QED BY <2>4, <2>5
<1>2. \A k \in Nat : \E g : Upto(g, k)
  <2> DEFINE N == {k \in Nat : \E g : Upto(g, k)}
  <2>1. 0 \in N
    <3> DEFINE g == [n \in 0..0 |-> x]
    <3>1. Upto(g, 0) OBVIOUS
    <3> QED BY <3>1
  <2>2. \A k \in N \cap Nat : k + 1 \in N
    <3> HIDE DEF Upto
    <3> QED BY <1>1
  <2> HIDE DEF N
  <2>3. \A k \in Nat : k \in N BY <2>1, <2>2, NatAll
  <2> QED BY <2>3 DEF N
<1>3. ASSUME NEW j \in Nat, NEW k \in Nat, NEW g, NEW h, Upto(g, j), Upto(h, k)
      PROVE  \A n \in Nat : n <= j /\ n <= k => g[n] = h[n]
  <2> DEFINE N == {n \in Nat : n <= j /\ n <= k => g[n] = h[n]}
  <2>0. /\ \A n \in 0..j : g[n] = Turn(g, n)
        /\ \A n \in 0..k : h[n] = Turn(h, n)
    BY <1>3
  <2>1. 0 \in N
    <3>1. g[0] = Turn(g, 0) /\ h[0] = Turn(h, 0)
      <4> HIDE DEF Turn
      <4> QED BY <2>0
    <3> QED BY <3>1
  <2>2. ASSUME NEW n \in N \cap Nat PROVE n + 1 \in N
    <3> SUFFICES ASSUME n + 1 <= j, n + 1 <= k PROVE g[n + 1] = h[n + 1]
      OBVIOUS
    <3>1. g[n + 1] = Turn(g, n + 1) /\ h[n + 1] = Turn(h, n + 1)
      <4> HIDE DEF Turn
      <4> QED BY <2>0
    <3>2. g[n] = h[n] OBVIOUS
    <3>3. (n + 1) - 1 = n /\ n + 1 # 0 OBVIOUS
    <3> QED BY <3>1, <3>2, <3>3
  <2> HIDE DEF N
  <2>3. \A n \in Nat : n \in N BY <2>1, <2>2, NatAll
  <2> QED BY <2>3 DEF N
<1>4. \E g : Whole(g)
  <2> DEFINE Part(k) == CHOOSE g : Upto(g, k)
             w == [k \in Nat |-> Part(k)[k]]
  <2>1. \A k \in Nat : Upto(Part(k), k)
    <3> HIDE DEF Upto
    <3> QED BY <1>2
  <2>2. ASSUME NEW n \in Nat PROVE w[n] = Turn(w, n)
    <3>1. Part(n)[n] = Turn(Part(n), n)
      <4>1. Part(n) = [m \in 0..n |-> Turn(Part(n), m)] BY <2>1
      <4>2. n \in 0..n OBVIOUS
      <4> HIDE DEF Turn, Part
      <4> QED BY <4>1, <4>2
    <3>2. CASE n = 0 BY <3>1, <3>2
    <3>3. CASE n # 0
      <4>1. n - 1 \in Nat BY <3>3
      <4>2. Part(n)[n - 1] = Part(n - 1)[n - 1]
        <5> HIDE DEF Upto, Part
        <5> QED BY <1>3, <2>1, <4>1
      <4>3. w[n] = Part(n)[n] /\ w[n - 1] = Part(n - 1)[n - 1] BY <4>1
      <4> HIDE DEF w, Part
      <4> QED BY <3>1, <3>3, <4>2, <4>3
    <3> QED BY <3>2, <3>3
  <2>3. w = [n \in Nat |-> w[n]] OBVIOUS
  <2> HIDE DEF w, Turn
  <2>4. [n \in Nat |-> w[n]] = [n \in Nat |-> Turn(w, n)] BY <2>2
  <2> QED BY <2>3, <2>4
<1>5. PICK g : Whole(g)
  <2> HIDE DEF Whole
  <2> QED BY <1>4
<1>6. /\ g[0] = x
      /\ \A n \in Nat : g[n + 1] = F[g[n]]
  <2>1. \A n \in Nat : g[n] = Turn(g, n)
    <3> HIDE DEF Turn
    <3> QED BY <1>5
  <2>2. \A n \in Nat : n + 1 \in Nat /\ n + 1 # 0 /\ (n + 1) - 1 = n OBVIOUS
  <2> QED BY <2>1, <2>2
<1>7. \A n \in Nat : g[n] \in D
  <2> DEFINE N == {n \in Nat : g[n] \in D}
  <2>1. 0 \in N BY <1>6
  <2>2. \A n \in N \cap Nat : n + 1 \in N BY <1>6
  <2> HIDE DEF N
  <2>3. \A n \in Nat : n \in N BY <2>1, <2>2, NatAll
  <2> QED BY <2>3 DEF N
<1>8. g \in [Nat -> D]
  <2>1. g = [n \in Nat |-> g[n]] BY <1>5
  <2> QED BY <1>7, <2>1
<1> QED BY <1>6, <1>8

(* What a solution of the recursion is at each number.                      *)
LEMMA AfterIs ==
  ASSUME NEW X, NEW E
  PROVE  /\ After(X, E, 0) = X
         /\ \A n \in Nat : After(X, E, n + 1) =
               {e[2] : e \in {f \in E : f[1] \in After(X, E, n)}}
<1> DEFINE V == X \cup {e[2] : e \in E}
           Image(Y) == {e[2] : e \in {f \in E : f[1] \in Y}}
           step == [Y \in SUBSET V |-> Image(Y)]
           Whole(g) == g = [n \in Nat |-> IF n = 0 THEN X ELSE Image(g[n - 1])]
           A == CHOOSE g : Whole(g)
<1>1. step \in [SUBSET V -> SUBSET V] OBVIOUS
<1>2. X \in SUBSET V OBVIOUS
<1>3. PICK g \in [Nat -> SUBSET V] :
         g[0] = X /\ \A n \in Nat : g[n + 1] = step[g[n]]
  <2> DEFINE D == SUBSET V
  <2> HIDE DEF step, D
  <2>1. X \in D /\ step \in [D -> D] BY <1>1, <1>2 DEF D
  <2>2. \E g \in [Nat -> D] : g[0] = X /\ \A n \in Nat : g[n + 1] = step[g[n]]
    BY <2>1, Recursion
  <2> QED BY <2>2 DEF D
<1>4. Whole(g)
  <2>1. \A Y \in SUBSET V : step[Y] = Image(Y) OBVIOUS
  <2> HIDE DEF step, Image, V
  <2>2. ASSUME NEW n \in Nat
        PROVE  g[n] = IF n = 0 THEN X ELSE Image(g[n - 1])
    <3>1. CASE n = 0 BY <3>1, <1>3
    <3>2. CASE n # 0
      <4>1. n - 1 \in Nat /\ (n - 1) + 1 = n BY <3>2
      <4>2. g[n - 1] \in SUBSET V BY <4>1
      <4> QED BY <1>3, <2>1, <3>2, <4>1, <4>2
    <3> QED BY <3>1, <3>2
  <2>3. g = [n \in Nat |-> g[n]] OBVIOUS
  <2> QED BY <2>2, <2>3
<1>5. Whole(A)
  <2> HIDE DEF Whole
  <2> QED BY <1>4
<1>6. \A n : After(X, E, n) = A[n] BY DEF After
<1>7. A[0] = X /\ \A n \in Nat : A[n + 1] = Image(A[n])
  <2>1. \A n \in Nat : n + 1 \in Nat /\ n + 1 # 0 /\ (n + 1) - 1 = n OBVIOUS
  <2> HIDE DEF A, Image
  <2> QED BY <1>5, <2>1
<1> HIDE DEF A
<1> QED BY <1>6, <1>7

(* The racks d layers join: twice as many with each layer.                  *)
LEMMA JoinedIs ==
  /\ Joined[0] = 1
  /\ \A d \in Nat : Joined[d] \in Nat \ {0} /\ Joined[d + 1] = 2 * Joined[d]
<1> DEFINE step == [y \in Nat |-> 2 * y]
           Whole(g) == g = [d \in Nat |-> IF d = 0 THEN 1 ELSE 2 * g[d - 1]]
<1>1. PICK g \in [Nat -> Nat] :
         g[0] = 1 /\ \A d \in Nat : g[d + 1] = step[g[d]]
  <2> DEFINE D == Nat
             one == 1
  <2>1. step \in [D -> D] /\ one \in D OBVIOUS
  <2> HIDE DEF step, D, one
  <2>2. \E g \in [Nat -> D] : g[0] = one /\ \A d \in Nat : g[d + 1] = step[g[d]]
    BY <2>1, Recursion
  <2> QED BY <2>2 DEF D, one
<1>2. Whole(g)
  <2>1. ASSUME NEW d \in Nat
        PROVE  g[d] = IF d = 0 THEN 1 ELSE 2 * g[d - 1]
    <3>1. CASE d = 0 BY <3>1, <1>1
    <3>2. CASE d # 0
      <4>1. d - 1 \in Nat /\ (d - 1) + 1 = d BY <3>2
      <4>2. g[d - 1] \in Nat BY <4>1
      <4>3. g[d] = step[g[d - 1]]
        <5> HIDE DEF step
        <5> QED BY <1>1, <4>1
      <4> QED BY <3>2, <4>2, <4>3
    <3> QED BY <3>1, <3>2
  <2>2. g = [d \in Nat |-> g[d]] OBVIOUS
  <2> QED BY <2>1, <2>2
<1>3. Whole(Joined)
  <2> HIDE DEF Whole
  <2>1. Joined = CHOOSE f : Whole(f) BY DEF Joined, Whole
  <2> QED BY <1>2, <2>1
<1>4. Joined[0] = 1 /\ \A d \in Nat : Joined[d + 1] = 2 * Joined[d]
  <2>1. \A d \in Nat : d + 1 \in Nat /\ d + 1 # 0 /\ (d + 1) - 1 = d OBVIOUS
  <2> QED BY <1>3, <2>1
<1>5. \A d \in Nat : Joined[d] \in Nat \ {0}
  <2> DEFINE N == {d \in Nat : Joined[d] \in Nat \ {0}}
  <2>1. 0 \in N BY <1>4
  <2>2. \A d \in N \cap Nat : d + 1 \in N BY <1>4
  <2> HIDE DEF N
  <2>3. \A d \in Nat : d \in N BY <2>1, <2>2, NatAll
  <2> QED BY <2>3 DEF N
<1> QED BY <1>4, <1>5

(* The least number of layers is the one that is found.                     *)
LEMMA LayersIs ==
  ASSUME NEW n \in Nat, NEW d \in Nat,
         Joined[d] >= n, d = 0 \/ Joined[d - 1] < n
  PROVE  Layers(n) = d
<1> DEFINE Least(e) == Joined[e] >= n /\ (e = 0 \/ Joined[e - 1] < n)
<1>1. ASSUME NEW e \in Nat PROVE \A c \in Nat : Joined[e] <= Joined[e + c] /\ c <= Joined[c]
  <2> DEFINE N == {c \in Nat : Joined[e] <= Joined[e + c] /\ c < Joined[c]}
  <2>1. 0 \in N BY JoinedIs
  <2>2. ASSUME NEW c \in N \cap Nat PROVE c + 1 \in N
    <3>1. e + (c + 1) = (e + c) + 1 /\ e + c \in Nat OBVIOUS
    <3>2. Joined[e + (c + 1)] = 2 * Joined[e + c] /\ Joined[c + 1] = 2 * Joined[c]
      BY <3>1, JoinedIs
    <3>3. Joined[e + c] \in Nat /\ Joined[c] \in Nat /\ Joined[e] \in Nat BY JoinedIs
    <3>4. Joined[e] <= Joined[e + c] /\ c < Joined[c] OBVIOUS
    <3>5. Joined[e] <= Joined[e + (c + 1)] /\ c + 1 < Joined[c + 1]
      BY <3>2, <3>3, <3>4
    <3> QED BY <3>5
  <2> HIDE DEF N
  <2>3. \A c \in Nat : c \in N BY <2>1, <2>2, NatAll
  <2>4. ASSUME NEW c \in Nat PROVE Joined[e] <= Joined[e + c] /\ c <= Joined[c]
    <3>1. Joined[c] \in Nat BY JoinedIs
    <3> QED BY <2>3, <3>1 DEF N
  <2> QED BY <2>4
<1>2. \A e, f \in Nat : e < f => Joined[e] <= Joined[f - 1]
  <2> SUFFICES ASSUME NEW e \in Nat, NEW f \in Nat, e < f
               PROVE  Joined[e] <= Joined[f - 1]
    OBVIOUS
  <2>1. f - 1 - e \in Nat /\ e + (f - 1 - e) = f - 1 OBVIOUS
  <2> QED BY <1>1, <2>1
<1>3. \A e \in Nat : Joined[e] \in Nat /\ (e # 0 => Joined[e - 1] \in Nat)
  BY JoinedIs
<1>4. \A e, f \in Nat : Least(e) /\ Least(f) => ~ (e < f)
  BY <1>2, <1>3
<1>5. d \in 0..n
  <2>1. CASE d = 0 BY <2>1
  <2>2. CASE d # 0
    <3>1. d - 1 \in Nat /\ Joined[d - 1] < n BY <2>2
    <3>2. d - 1 <= Joined[d - 1] BY <1>1, <3>1
    <3> QED BY <1>3, <3>1, <3>2
  <2> QED BY <2>1, <2>2
<1> HIDE DEF Least
<1>6. Least(d) BY DEF Least
<1>7. \A e \in 0..n : Least(e) => e = d
  <2> SUFFICES ASSUME NEW e \in 0..n, Least(e) PROVE e = d OBVIOUS
  <2> QED BY <1>4, <1>6
<1>8. Layers(n) = CHOOSE e \in 0..n : Least(e) BY DEF Layers, Least
<1> QED BY <1>5, <1>6, <1>7, <1>8

(* The same, element by element.                                            *)
LEMMA AfterNext ==
  ASSUME NEW X, NEW E
  PROVE  \A n \in Nat : \A x :
           x \in After(X, E, n + 1) <=> \E e \in E : e[1] \in After(X, E, n) /\ e[2] = x
<1>1. \A n \in Nat :
        After(X, E, n + 1) = {e[2] : e \in {f \in E : f[1] \in After(X, E, n)}}
  BY AfterIs
<1> QED BY <1>1

(* What is reached is reached by one more edge ...                          *)
LEMMA AfterHop ==
  ASSUME NEW X, NEW E, NEW n \in Nat, NEW a \in After(X, E, n), NEW b,
         <<a, b>> \in E
  PROVE  b \in After(X, E, n + 1)
<1>1. <<a, b>>[1] = a /\ <<a, b>>[2] = b OBVIOUS
<1> QED BY <1>1, AfterNext

(* ... and where every node has an edge to itself, it stays reached.        *)
LEMMA AfterKeeps ==
  ASSUME NEW X, NEW E, NEW a, <<a, a>> \in E,
         NEW m \in Nat, NEW n \in Nat, m <= n, a \in After(X, E, m)
  PROVE  a \in After(X, E, n)
<1> DEFINE N == {c \in Nat : a \in After(X, E, m + c)}
<1>1. 0 \in N
  <2>1. m + 0 = m OBVIOUS
  <2> QED BY <2>1
<1>2. ASSUME NEW c \in N \cap Nat PROVE c + 1 \in N
  <2>1. m + c \in Nat /\ (m + c) + 1 = m + (c + 1) OBVIOUS
  <2>2. a \in After(X, E, m + c) OBVIOUS
  <2>3. a \in After(X, E, (m + c) + 1) BY <2>1, <2>2, AfterHop
  <2> QED BY <2>1, <2>3
<1> HIDE DEF N
<1>3. \A c \in Nat : c \in N BY <1>1, <1>2, NatAll
<1>4. n - m \in Nat /\ m + (n - m) = n OBVIOUS
<1>5. n - m \in N BY <1>3, <1>4
<1> QED BY <1>4, <1>5 DEF N

(* No edge leads out of C: what is reached from inside is inside.           *)
LEMMA AfterInside ==
  ASSUME NEW X, NEW E, NEW C, X \subseteq C,
         \A e \in E : e[1] \in C => e[2] \in C
  PROVE  \A n \in Nat : After(X, E, n) \subseteq C
<1> DEFINE N == {n \in Nat : After(X, E, n) \subseteq C}
<1>1. 0 \in N BY AfterIs
<1>2. \A n \in N \cap Nat : n + 1 \in N BY AfterIs
<1> HIDE DEF N
<1>3. \A n \in Nat : n \in N BY <1>1, <1>2, NatAll
<1> QED BY <1>3 DEF N

-----------------------------------------------------------------------------
(***************************************************************************)
(* A fat tree in the making is a forest: every node but the roots that are *)
(* still to be joined has one link up, and the racks are d layers below    *)
(* the roots of the layer that is being joined, d the least number of      *)
(* layers that makes so few of them.                                       *)
(***************************************************************************)
Elements(q) == {q[j] : j \in DOMAIN q}
Repeats(q) == \E j, k \in DOMAIN q : j # k /\ q[j] = q[k]
Linked(x, y) == \E l \in links : l.from = x /\ l.to = y
Leads(x) == \E l \in links : l.from = x

(* Every host hangs on the switch of its rack, and the loop is one of kind. *)
RackInv ==
    /\ IsFiniteSet(hosts)
    /\ \A x \in hosts : \E r \in DOMAIN tors : \E h \in 1..racks[r] :
           x = Host(r, h) /\ Linked(x, Tor(r))
    /\ (kind = "FatTree") => pc \in {"racks", "layers", "done"}
    /\ pc = "racks" => newTodo = <<>>
    /\ (kind = "Clos") => pc \in {"racks", "core", "pods", "wires", "done"}

(* The nodes of a tree in the making that have nothing above them.          *)
Roots ==
    IF pc = "racks" THEN Elements(tors)
    ELSE {todo[j] : j \in {k \in DOMAIN todo : k > i}} \cup Elements(newTodo)

(* One link up from every node that is not a root, and none from a root.    *)
ForestInv ==
    kind = "FatTree" =>
        /\ \A l, m \in links : l.from = m.from => l = m
        /\ \A x \in nodes : Leads(x) <=> x \notin Roots

(* The d layers so far left this many roots of the racks.                   *)
Fits(d) ==
    LET n == Len(racks)
        m == Len(todo)
    IN  /\ (m - 1) * Joined[d] < n /\ n <= m * Joined[d]
        /\ d = 0 \/ Joined[d - 1] < n

(* From every rack d links up lead to one root of the layer, and none of    *)
(* the nodes on the way is a root.                                          *)
Climbs(d) ==
    \A r \in DOMAIN tors :
        /\ \E j \in DOMAIN todo : Above({tors[r]}, d) = {todo[j]}
        /\ \A k \in 0..d - 1 : \A x \in Above({tors[r]}, k) :
               x \in nodes \ (Elements(todo) \cup Elements(newTodo))

(* What is joined and what is next: no root twice, each joined one below a  *)
(* root of the next layer.                                                  *)
LayerInv ==
    (kind = "FatTree" /\ pc # "racks") =>
        /\ ~ Repeats(todo) /\ ~ Repeats(newTodo)
        /\ Elements(todo) \cap Elements(newTodo) = {}
        /\ 2 * Len(newTodo) = i /\ i <= Len(todo) + 1 /\ Len(todo) >= 1
        /\ i > 0 => Len(todo) > 1 /\ pc = "layers"
        /\ pc = "done" => Len(todo) = 1
        /\ \A j \in DOMAIN todo : j <= i => \E k \in DOMAIN newTodo : Linked(todo[j], newTodo[k])
        /\ \E d \in Nat : Fits(d) /\ Climbs(d)

TreeInv == RackInv /\ ForestInv /\ LayerInv

(* The names of racks, switches and hosts never clash.                      *)
LEMMA NamesApart ==
  /\ \A r, q : Tor(r) = Tor(q) => r = q
  /\ \A m, n : Switch(m) = Switch(n) => m = n
  /\ \A r, h, q, k : Host(r, h) = Host(q, k) => r = q /\ h = k
  /\ \A r, n, q, h : Tor(r) # Switch(n) /\ Tor(r) # Host(q, h) /\ Switch(n) # Host(q, h)
BY DEF Tor, Switch, Host

(* Every node was added by one of the loops.                                *)
LEMMA NodeKinds ==
  ASSUME TopologyInv, RackInv, NEW x \in nodes
  PROVE  \/ \E r \in DOMAIN tors : x = Tor(r)
         \/ \E r \in DOMAIN tors : \E h \in 1..racks[r] : x = Host(r, h)
         \/ \E n \in 1..s : x = Switch(n)
BY DEF TopologyInv, Built, RackInv, nodes, switches

(* What a loop is about to add is not there yet.                            *)
LEMMA NewSwitch ==
  ASSUME TopologyInv, RackInv, NEW n \in Nat, n > s
  PROVE  Switch(n) \notin nodes
<1>1. s \in Nat BY DEF TopologyInv, TypeOK
<1>2. \A m \in 1..s : m # n BY <1>1
<1> QED BY <1>2, NodeKinds, NamesApart

LEMMA NewRack ==
  ASSUME TopologyInv, RackInv, NEW r, r \notin DOMAIN tors
  PROVE  Tor(r) \notin nodes /\ \A h : Host(r, h) \notin nodes
BY NodeKinds, NamesApart

LEMMA LinkParts ==
  ASSUME NEW a, NEW b, NEW c
  PROVE  /\ Link(a, b, c).from = a /\ Link(a, b, c).to = b
         /\ \A x, y, z : Link(a, b, c) = Link(x, y, z) <=> a = x /\ b = y /\ c = z
BY DEF Link

LEMMA AppendElements ==
  ASSUME NEW T, NEW q \in Seq(T), NEW e
  PROVE  Elements(Append(q, e)) = Elements(q) \cup {e}
<1>1. /\ Len(Append(q, e)) = Len(q) + 1 /\ Append(q, e)[Len(q) + 1] = e
      /\ \A j \in 1..Len(q) : Append(q, e)[j] = q[j]
  BY AppendProperties
<1>2. /\ DOMAIN q = 1..Len(q) /\ Len(q) \in Nat
      /\ DOMAIN Append(q, e) = 1..Len(Append(q, e))
  OBVIOUS
<1>3. /\ \A j \in DOMAIN q : j \in DOMAIN Append(q, e) /\ Append(q, e)[j] = q[j]
      /\ Len(q) + 1 \in DOMAIN Append(q, e) /\ Append(q, e)[Len(q) + 1] = e
      /\ \A j \in DOMAIN Append(q, e) : j \in DOMAIN q \/ j = Len(q) + 1
  BY <1>1, <1>2
<1> QED BY <1>3 DEF Elements

LEMMA InitTree == ASSUME Init PROVE TreeInv
<1>1. /\ pc = "racks" /\ i = 0 /\ s = 0 /\ tors = <<>> /\ hosts = {} /\ links = {}
      /\ newTodo = <<>> /\ kind \in {"FatTree", "Clos"}
  BY DEF Init
<1>2. nodes = {} BY <1>1 DEF nodes, switches
<1>3. IsFiniteSet(hosts) BY <1>1, FS_EmptySet
<1> QED BY <1>1, <1>2, <1>3 DEF TreeInv, RackInv, ForestInv, LayerInv

(* A rack is a tree of its own, with its switch as the root.                *)
LEMMA AddRackTree ==
  ASSUME TopologyInv, TreeInv, AddRack PROVE TreeInv'
<1> DEFINE r == i + 1
           new == {Host(r, h) : h \in 1..racks[r]}
           more == {Link(h, Tor(r), EdgeLimit) : h \in new}
<1> USE DEF TreeInv
<1>1. /\ r \in 1..Len(racks) /\ Len(tors) = i /\ tors' = Append(tors, Tor(r))
      /\ tors \in Seq(nodes) /\ racks[r] \in Nat /\ DOMAIN tors = 1..i /\ i \in Nat
  <2>1. /\ r \in 1..Len(racks) /\ Len(tors) = i /\ tors' = Append(tors, Tor(r))
        /\ tors \in Seq(nodes) /\ i \in Nat /\ racks \in Seq(1..MaxHosts)
    BY DEF AddRack, TopologyInv, TypeOK, Built
  <2>2. racks[r] \in 1..MaxHosts
    <3>1. racks \in Seq(1..MaxHosts) BY <2>1
    <3>2. \A q \in 1..Len(racks) : racks[q] \in 1..MaxHosts
      BY <3>1, TopologyAssumption
    <3> QED BY <2>1, <3>2
  <2>3. racks[r] \in Nat BY <2>2, TopologyAssumption
  <2> QED BY <2>1, <2>3
<1>2. /\ DOMAIN tors' = DOMAIN tors \cup {r} /\ r \notin DOMAIN tors
      /\ \A q \in DOMAIN tors : tors'[q] = tors[q]
      /\ tors'[r] = Tor(r)
  BY <1>1
<1>3. /\ hosts' = hosts \cup new /\ links' = links \cup more
      /\ UNCHANGED <<kind, racks, pc, s, newTodo>> /\ pc = "racks"
  BY DEF AddRack
<1>4. nodes' = nodes \cup {Tor(r)} \cup new
  BY <1>2, <1>3 DEF nodes, switches
<1>5. Elements(tors') = Elements(tors) \cup {Tor(r)}
  BY <1>2 DEF Elements
<1>6. \A x \in new : x \notin nodes /\ x # Tor(r) BY <1>2, NewRack, NamesApart
<1>7. Tor(r) \notin nodes BY <1>2, NewRack
<1>8. \A l \in links : l.from \in nodes BY DEF TopologyInv, TypeOK
<1>9. /\ \A l \in more : l.from \in new
      /\ \A l, m \in more : l.from = m.from => l = m
      /\ \A h \in new : \E l \in more : l.from = h /\ l.to = Tor(r)
  <2> HIDE DEF new
  <2>1. \A l \in more : \E h \in new : l = Link(h, Tor(r), EdgeLimit) OBVIOUS
  <2>2. \A h \in new : Link(h, Tor(r), EdgeLimit) \in more OBVIOUS
  <2> HIDE DEF more
  <2> QED BY <2>1, <2>2, LinkParts
<1> HIDE DEF more
<1>10. RackInv'
  <2>1. IsFiniteSet(hosts')
    <3> DEFINE f == [h \in 1..racks[r] |-> Host(r, h)]
    <3>1. f \in Surjection(1..racks[r], new) BY DEF Surjection
    <3>2. IsFiniteSet(1..racks[r])
      <4>1. 1 \in Int /\ racks[r] \in Int BY <1>1
      <4> QED BY <4>1, FS_Interval
    <3>3. IsFiniteSet(new)
      <4> HIDE DEF f, new
      <4> QED BY <3>1, <3>2, FS_Surjection
    <3> HIDE DEF new
    <3> QED BY <1>3, <3>3, FS_Union DEF RackInv
  <2>2. ASSUME NEW x \in hosts'
        PROVE  \E q \in DOMAIN tors' : \E h \in 1..racks[q] :
                   x = Host(q, h) /\ \E l \in links' : l.from = x /\ l.to = Tor(q)
    <3>1. CASE x \in hosts BY <3>1, <1>2, <1>3 DEF RackInv, Linked
    <3>2. CASE x \in new BY <3>2, <1>2, <1>3, <1>9
    <3> QED BY <1>3, <3>1, <3>2
  <2> QED BY <1>3, <2>1, <2>2 DEF RackInv, Linked
<1>11. ForestInv'
  <2> SUFFICES ASSUME kind = "FatTree"
               PROVE  /\ \A l, m \in links' : l.from = m.from => l = m
                      /\ \A x \in nodes' : Leads(x)' <=> x \notin Roots'
    BY <1>3 DEF ForestInv
  <2>1. \A l, m \in links : l.from = m.from => l = m BY DEF ForestInv
  <2>2. \A l, m \in links' : l.from = m.from => l = m
    BY <1>3, <1>6, <1>8, <1>9, <2>1
  <2>3. Roots = Elements(tors) /\ Roots' = Roots \cup {Tor(r)}
    BY <1>3, <1>5 DEF Roots
  <2>4. Roots \subseteq nodes BY <2>3 DEF Elements, nodes
  <2>5. ASSUME NEW x \in nodes' PROVE Leads(x)' <=> x \notin Roots'
    <3>1. Leads(x)' <=> Leads(x) \/ x \in new BY <1>3, <1>9 DEF Leads
    <3>2. Leads(x) => x \in nodes BY <1>8 DEF Leads
    <3>3. x \in nodes => (Leads(x) <=> x \notin Roots) BY DEF ForestInv
    <3> QED BY <1>4, <1>6, <1>7, <2>3, <2>4, <3>1, <3>2, <3>3
  <2> QED BY <2>2, <2>5
<1>12. LayerInv' BY <1>3 DEF LayerInv
<1> QED BY <1>10, <1>11, <1>12

(* A step that ends the loop over the racks makes them the first layer.     *)
LEMMA RacksDoneTree ==
  ASSUME TopologyInv, TreeInv, RacksDone PROVE TreeInv'
<1> USE DEF TreeInv
<1>1. /\ UNCHANGED <<kind, racks, tors, hosts, links, s, newTodo>> /\ pc = "racks"
      /\ i' = 0 /\ i = Len(racks) /\ Len(tors) = i
      /\ Len(racks) \in Nat \ {0} /\ tors \in Seq(nodes)
      /\ (kind = "FatTree") => pc' = "layers" /\ todo' = tors
      /\ (kind = "Clos") => pc' = "core"
      /\ kind \in {"FatTree", "Clos"} /\ newTodo = <<>>
  BY DEF RacksDone, TopologyInv, TypeOK, Built, RackInv
<1>2. nodes' = nodes BY <1>1 DEF nodes, switches
<1>3. RackInv' BY <1>1 DEF RackInv, Linked
<1> SUFFICES ASSUME kind = "FatTree" PROVE ForestInv' /\ LayerInv'
  BY <1>1, <1>3 DEF ForestInv, LayerInv
<1>4. DOMAIN tors = 1..Len(racks) /\ \A r \in DOMAIN tors : tors[r] = Tor(r) /\ r > 0
  BY <1>1 DEF TopologyInv, Built
<1>5. ForestInv'
  <2>1. Roots' = Elements(tors) /\ Roots = Elements(tors)
    BY <1>1, <1>4 DEF Roots, Elements
  <2> QED BY <1>1, <1>2, <2>1 DEF ForestInv, Leads
<1>6. LayerInv'
  <2>1. ~ Repeats(todo') BY <1>1, <1>4, NamesApart DEF Repeats
  <2>2. Elements(newTodo') = {} /\ ~ Repeats(newTodo') /\ Len(newTodo') = 0
    BY <1>1 DEF Elements, Repeats
  <2>3. Fits(0)'
    <3>1. Len(todo') = Len(racks') /\ Len(racks') \in Nat BY <1>1
    <3>2. Joined[0] = 1 BY JoinedIs
    <3> QED BY <3>1, <3>2 DEF Fits
  <2>4. Climbs(0)'
    <3> SUFFICES ASSUME NEW r \in DOMAIN tors
                 PROVE  \E j \in DOMAIN tors : After({tors[r]}, Up, 0) = {tors[j]}
      BY <1>1 DEF Climbs, Above, Up
    <3> QED BY AfterIs
  <2>5. \A j \in DOMAIN todo' : ~ (j <= 0) BY <1>1, <1>4
  <2> QED BY <1>1, <2>1, <2>2, <2>3, <2>4, <2>5 DEF LayerInv
<1> QED BY <1>5, <1>6

(* Who climbs from a rack meets no node of a layer before the last one.     *)
LEMMA ClimbKept ==
  ASSUME NEW d \in Nat, Climbs(d), UNCHANGED <<tors, todo>>, links \subseteq links',
         nodes \subseteq nodes',
         \A l \in links' \ links : l.from \in Elements(todo),
         \A x \in Elements(newTodo') \ Elements(newTodo) : x \notin nodes
  PROVE  Climbs(d)'
<1> DEFINE R == Elements(todo)
<1>1. Up \subseteq Up' /\ \A e \in Up' \ Up : e[1] \in R
  <2>1. \A l \in links' : l \notin links => <<l.from, l.to>>[1] \in R OBVIOUS
  <2> HIDE DEF R
  <2> QED BY <2>1 DEF Up
<1>2. ASSUME NEW r \in DOMAIN tors
      PROVE  /\ \E j \in DOMAIN todo : After({tors[r]}, Up, d) = {todo[j]}
             /\ \A k \in 0..d - 1 : \A x \in After({tors[r]}, Up, k) :
                     x \in nodes \ (R \cup Elements(newTodo))
             /\ \A k \in 0..d : After({tors[r]}, Up', k) = After({tors[r]}, Up, k)
  <2>1. /\ \E j \in DOMAIN todo : After({tors[r]}, Up, d) = {todo[j]}
        /\ \A k \in 0..d - 1 : \A x \in After({tors[r]}, Up, k) :
                x \in nodes \ (R \cup Elements(newTodo))
    BY DEF Climbs, Above
  <2>2. \A k \in 0..d - 1 : \A x \in After({tors[r]}, Up, k) : x \notin R
    BY <2>1
  <2> HIDE DEF R
  <2> DEFINE X == {tors[r]}
             N == {k \in Nat : k <= d => After(X, Up', k) = After(X, Up, k)}
  <2>3. 0 \in N BY AfterIs
  <2>4. ASSUME NEW k \in N \cap Nat PROVE k + 1 \in N
    <3> SUFFICES ASSUME k + 1 <= d
                 PROVE  After(X, Up', k + 1) = After(X, Up, k + 1)
      OBVIOUS
    <3>1. After(X, Up', k) = After(X, Up, k) /\ k \in 0..d - 1 OBVIOUS
    <3>2. \A x \in After(X, Up, k) : x \notin R BY <2>2, <3>1
    <3> HIDE DEF X, N
    <3>3. /\ \A x : x \in After(X, Up, k + 1)
                 <=> \E e \in Up : e[1] \in After(X, Up, k) /\ e[2] = x
          /\ \A x : x \in After(X, Up', k + 1)
                 <=> \E e \in Up' : e[1] \in After(X, Up', k) /\ e[2] = x
      BY AfterNext
    <3>4. \A x : x \in After(X, Up', k + 1) <=> x \in After(X, Up, k + 1)
      BY <1>1, <3>1, <3>2, <3>3
    <3> QED BY <3>4
  <2> HIDE DEF N
  <2>5. \A k \in Nat : k \in N BY <2>3, <2>4, NatAll
  <2>6. \A k \in 0..d : After(X, Up', k) = After(X, Up, k) BY <2>5 DEF N
  <2> QED BY <2>1, <2>6
<1>3. ASSUME NEW r \in DOMAIN tors
      PROVE  /\ \E j \in DOMAIN todo' : After({tors'[r]}, Up', d) = {todo'[j]}
             /\ \A k \in 0..d - 1 : \A x \in After({tors'[r]}, Up', k) :
                     x \in nodes' \ (Elements(todo') \cup Elements(newTodo'))
  <2>1. After({tors[r]}, Up', d) = After({tors[r]}, Up, d)
    <3>1. d \in 0..d OBVIOUS
    <3> QED BY <1>2, <3>1
  <2>2. \A k \in 0..d - 1 : k \in 0..d OBVIOUS
  <2>3. \A k \in 0..d - 1 : After({tors[r]}, Up', k) = After({tors[r]}, Up, k)
    BY <1>2, <2>2
  <2>4. Elements(todo') = R BY DEF Elements
  <2> HIDE DEF R
  <2> QED BY <1>2, <2>1, <2>3, <2>4
<1> QED BY <1>3 DEF Climbs, Above

(* The new switch takes the place of the one or two roots below it.         *)
LEMMA JoinPairTree ==
  ASSUME TopologyInv, TreeInv, JoinPair, TopologyInv' PROVE TreeInv'
<1> USE DEF TreeInv
<1> DEFINE sw == Switch(s + 1)
           J == {i + 1, i + 2} \cap DOMAIN todo
           joined == {todo[j] : j \in J}
           more == {Link(todo[i + 1], sw, bandwidth)}
                     \cup {Link(todo[j], sw, NoLimit) : j \in {i + 2} \cap DOMAIN todo}
<1>1. /\ pc = "layers" /\ i < Len(todo) /\ Len(todo) > 1 /\ i' = i + 2
      /\ newTodo' = Append(newTodo, sw) /\ links' = links \cup more /\ s' = s + 1
      /\ UNCHANGED <<kind, racks, pc, tors, hosts, todo>>
  BY DEF JoinPair
<1>2. kind = "FatTree"
  BY <1>1 DEF RackInv, TopologyInv, TypeOK
<1>3. /\ i \in Nat /\ s \in Nat /\ Len(todo) \in Nat /\ DOMAIN todo = 1..Len(todo)
      /\ newTodo \in Seq(nodes) /\ todo \in Seq(nodes) /\ bandwidth \in Nat
      /\ Len(newTodo) \in Nat
  BY DEF TopologyInv, TypeOK, Built
<1>4. /\ ~ Repeats(todo) /\ ~ Repeats(newTodo)
      /\ Elements(todo) \cap Elements(newTodo) = {}
      /\ 2 * Len(newTodo) = i
      /\ \A j \in DOMAIN todo : j <= i =>
              \E k \in DOMAIN newTodo : Linked(todo[j], newTodo[k])
      /\ \E d \in Nat : Fits(d) /\ Climbs(d)
  BY <1>1, <1>2 DEF LayerInv
<1>5. /\ \A l, m \in links : l.from = m.from => l = m
      /\ \A x \in nodes : Leads(x) <=> x \notin Roots
  BY <1>2 DEF ForestInv
<1>6. nodes' = nodes \cup {sw} /\ sw \notin nodes
  <2>1. 1..(s + 1) = (1..s) \cup {s + 1} BY <1>3
  <2>2. switches' = switches \cup {sw} BY <1>1, <2>1 DEF switches
  <2>3. sw \notin nodes BY <1>3, NewSwitch
  <2> QED BY <1>1, <2>2, <2>3 DEF nodes
<1>7. Elements(todo) \subseteq nodes /\ Elements(newTodo) \subseteq nodes
  BY <1>3 DEF Elements
<1>8. i + 1 \in J /\ J \subseteq DOMAIN todo /\ \A j \in DOMAIN todo : j \in J <=> j > i /\ ~(j > i + 2)
  BY <1>1, <1>3
<1>9. /\ \A l \in more : \E j \in J : l.from = todo[j] /\ l.to = sw
      /\ \A j \in J : \E l \in more : l.from = todo[j] /\ l.to = sw
      /\ \A l, m \in more : l.from = m.from => l = m
  <2> DEFINE one == Link(todo[i + 1], sw, bandwidth)
             two == Link(todo[i + 2], sw, NoLimit)
  <2>1. /\ one.from = todo[i + 1] /\ one.to = sw
        /\ two.from = todo[i + 2] /\ two.to = sw
    BY LinkParts
  <2>2. more = IF i + 2 \in DOMAIN todo THEN {one, two} ELSE {one}
    OBVIOUS
  <2>3. J = IF i + 2 \in DOMAIN todo THEN {i + 1, i + 2} ELSE {i + 1}
    BY <1>8
  <2>4. i + 2 \in DOMAIN todo => todo[i + 1] # todo[i + 2]
    BY <1>3, <1>4, <1>8 DEF Repeats
  <2> HIDE DEF one, two, more, J
  <2> QED BY <2>1, <2>2, <2>3, <2>4
<1> HIDE DEF more, J, sw
<1>10. joined \subseteq Elements(todo) BY <1>8 DEF Elements
<1>11. \A l \in more : l.from \in joined BY <1>9
<1>12. \A x \in joined : x \in Roots /\ x \in nodes
  <2>1. Roots = {todo[j] : j \in {k \in DOMAIN todo : k > i}} \cup Elements(newTodo)
    BY <1>1 DEF Roots
  <2> QED BY <1>7, <1>8, <1>10, <2>1
<1>13. Roots' = (Roots \ joined) \cup {sw}
  <2>1. Roots = {todo[j] : j \in {k \in DOMAIN todo : k > i}} \cup Elements(newTodo)
    BY <1>1 DEF Roots
  <2>2. Roots' = {todo[j] : j \in {k \in DOMAIN todo : k > i + 2}} \cup Elements(newTodo')
    BY <1>1 DEF Roots
  <2>3. Elements(newTodo') = Elements(newTodo) \cup {sw}
    BY <1>1, <1>3, AppendElements
  <2>4. {todo[j] : j \in {k \in DOMAIN todo : k > i + 2}}
          = {todo[j] : j \in {k \in DOMAIN todo : k > i}} \ joined
    <3>1. \A j, k \in DOMAIN todo : todo[j] = todo[k] => j = k BY <1>4 DEF Repeats
    <3>2. \A j \in DOMAIN todo : j > i + 2 => j > i BY <1>3
    <3> QED BY <1>8, <3>1, <3>2
  <2>5. Elements(newTodo) \cap joined = {} BY <1>4, <1>10
  <2> QED BY <2>1, <2>2, <2>3, <2>4, <2>5
<1>14. RackInv' BY <1>1 DEF RackInv, Linked
<1>15. ForestInv'
  <2>1. \A l \in links : l.from \notin joined
    <3>1. \A l \in links : Leads(l.from) BY DEF Leads
    <3> QED BY <1>5, <1>12, <3>1
  <2>2. \A l, m \in links' : l.from = m.from => l = m
    BY <1>1, <1>5, <1>9, <1>11, <2>1
  <2>3. ASSUME NEW x \in nodes' PROVE Leads(x)' <=> x \notin Roots'
    <3>1. Leads(x)' <=> Leads(x) \/ x \in joined BY <1>1, <1>9, <1>11 DEF Leads
    <3>2. \A l \in links : l.from \in nodes BY DEF TopologyInv, TypeOK
    <3>3. Leads(sw) => FALSE BY <1>6, <3>2 DEF Leads
    <3> QED BY <1>5, <1>6, <1>12, <1>13, <3>1, <3>3
  <2> QED BY <1>1, <2>2, <2>3 DEF ForestInv
<1>16. LayerInv'
  <2>1. newTodo' = Append(newTodo, sw) /\ DOMAIN newTodo' = 1..(Len(newTodo) + 1)
    BY <1>1, <1>3
  <2>2. /\ \A k \in DOMAIN newTodo : newTodo'[k] = newTodo[k] /\ k \in DOMAIN newTodo'
        /\ newTodo'[Len(newTodo) + 1] = sw
        /\ \A k \in DOMAIN newTodo' : k \in DOMAIN newTodo \/ k = Len(newTodo) + 1
    BY <1>3, <2>1
  <2>3. ~ Repeats(newTodo')
    <3>1. \A k \in DOMAIN newTodo : newTodo[k] # sw BY <1>6, <1>7 DEF Elements
    <3> QED BY <1>4, <2>2, <3>1 DEF Repeats
  <2>4. Elements(newTodo') = Elements(newTodo) \cup {sw}
    BY <1>1, <1>3, AppendElements
  <2>5. ASSUME NEW j \in DOMAIN todo, j <= i + 2
        PROVE  \E k \in DOMAIN newTodo' : Linked(todo[j], newTodo[k])'
    <3>1. CASE j <= i
      <4>1. PICK k \in DOMAIN newTodo : Linked(todo[j], newTodo[k]) BY <1>4, <3>1
      <4> QED BY <1>1, <2>2, <4>1 DEF Linked
    <3>2. CASE ~ (j <= i)
      <4>1. j \in J BY <1>3, <1>8, <2>5, <3>2
      <4>2. PICK l \in more : l.from = todo[j] /\ l.to = sw BY <1>9, <4>1
      <4>3. Len(newTodo) + 1 \in DOMAIN newTodo' BY <1>3, <2>1
      <4> QED BY <1>1, <2>2, <4>2, <4>3 DEF Linked
    <3> QED BY <3>1, <3>2
  <2>6. \E d \in Nat : Fits(d)' /\ Climbs(d)'
    <3>1. PICK d \in Nat : Fits(d) /\ Climbs(d) BY <1>4
    <3>2. Fits(d)' BY <1>1, <3>1 DEF Fits
    <3>3. Climbs(d)'
      <4>1. \A l \in links' \ links : l.from \in Elements(todo)
        BY <1>1, <1>10, <1>11
      <4>2. \A x \in Elements(newTodo') \ Elements(newTodo) : x \notin nodes
        BY <1>6, <2>4
      <4>3. links \subseteq links' /\ nodes \subseteq nodes' BY <1>1, <1>6
      <4>4. UNCHANGED <<tors, todo>> BY <1>1
      <4> QED BY <3>1, <4>1, <4>2, <4>3, <4>4, ClimbKept
    <3> QED BY <3>2, <3>3
  <2>7. Len(newTodo') = Len(newTodo) + 1 BY <1>1, <1>3
  <2>8. Elements(todo) \cap Elements(newTodo') = {} BY <1>4, <1>6, <1>7, <2>4
  <2>9. /\ 2 * Len(newTodo') = i' /\ i' <= Len(todo') + 1 /\ Len(todo') >= 1
        /\ Len(todo') > 1 /\ pc' = "layers"
    <3>1. todo' = todo /\ i' = i + 2 /\ i < Len(todo) /\ pc' = "layers"
      BY <1>1
    <3>2. 2 * (Len(newTodo) + 1) = i + 2
      <4>1. Len(newTodo) \in Nat /\ i \in Nat BY <1>3
      <4>2. 2 * Len(newTodo) = i BY <1>4
      <4> QED BY <4>1, <4>2
    <3>3. Len(todo) >= 1 /\ Len(todo) > 1 /\ i + 2 <= Len(todo) + 1
      BY <1>1, <1>3
    <3> QED BY <2>7, <3>1, <3>2, <3>3
  <2>10. \A j \in DOMAIN todo' : j <= i' =>
             \E k \in DOMAIN newTodo' : Linked(todo[j], newTodo[k])'
    BY <1>1, <2>5
  <2>11. ~ Repeats(todo)' /\ Elements(todo)' \cap Elements(newTodo)' = {}
    BY <1>1, <1>4, <2>8 DEF Repeats, Elements
  <2>12. ~ Repeats(newTodo)' BY <2>3 DEF Repeats
  <2> QED BY <2>6, <2>9, <2>10, <2>11, <2>12 DEF LayerInv
<1> QED BY <1>14, <1>15, <1>16

(* The joined layer becomes the one to join, half as large.                 *)
LEMMA HalfFits ==
  ASSUME NEW n \in Nat, NEW m \in Nat, NEW c \in Nat, NEW d \in Nat, NEW j \in Nat,
         2 * c = j, j >= m, j <= m + 1, m > 1,
         (m - 1) * Joined[d] < n, n <= m * Joined[d]
  PROVE  /\ (c - 1) * Joined[d + 1] < n /\ n <= c * Joined[d + 1]
         /\ Joined[d] < n
<1> DEFINE p == Joined[d]
<1>1. p \in Nat /\ p > 0 /\ Joined[d + 1] = 2 * p BY JoinedIs
<1> HIDE DEF p
<1>2. (m - 1) * p < n /\ n <= m * p BY DEF p
<1>3. m = 2 * c \/ m = 2 * c - 1 OBVIOUS
<1>4. ASSUME m = 2 * c PROVE (c - 1) * (2 * p) < n /\ n <= c * (2 * p)
  <2>1. (m - 1) * p = c * (2 * p) - p /\ m * p = c * (2 * p)
        /\ (c - 1) * (2 * p) = c * (2 * p) - 2 * p
    BY <1>1, <1>4
  <2> DEFINE x == (m - 1) * p
             y == m * p
             q == c * (2 * p)
             z == (c - 1) * (2 * p)
  <2>2. q \in Int BY <1>1
  <2>3. x = q - p /\ y = q /\ z = q - 2 * p
    BY <2>1
  <2>4. x < n /\ n <= y BY <1>2
  <2> HIDE DEF x, y, z, q
  <2>5. z < n /\ n <= q BY <1>1, <2>2, <2>3, <2>4
  <2> QED BY <2>5 DEF z, q
<1>5. ASSUME m = 2 * c - 1 PROVE (c - 1) * (2 * p) < n /\ n <= c * (2 * p)
  <2>1. (m - 1) * p = c * (2 * p) - 2 * p /\ m * p = c * (2 * p) - p
        /\ (c - 1) * (2 * p) = c * (2 * p) - 2 * p
    BY <1>1, <1>5
  <2> DEFINE x == (m - 1) * p
             y == m * p
             q == c * (2 * p)
             z == (c - 1) * (2 * p)
  <2>2. q \in Int BY <1>1
  <2>3. x = q - 2 * p /\ y = q - p /\ z = q - 2 * p
    BY <2>1
  <2>4. x < n /\ n <= y BY <1>2
  <2> HIDE DEF x, y, z, q
  <2>5. z < n /\ n <= q BY <1>1, <2>2, <2>3, <2>4
  <2> QED BY <2>5 DEF z, q
<1>6. (c - 1) * (2 * p) < n /\ n <= c * (2 * p) BY <1>3, <1>4, <1>5
<1>7. p < n
  <2>1. PICK k \in Nat : m = k + 2
    <3>1. m - 2 \in Nat /\ m = (m - 2) + 2 OBVIOUS
    <3> QED BY <3>1
  <2>2. (m - 1) * p = k * p + p /\ k * p \in Nat BY <1>1, <2>1
  <2> QED BY <1>1, <1>2, <2>2
<1> QED BY <1>1, <1>6, <1>7 DEF p

LEMMA NextLayerTree ==
  ASSUME TopologyInv, TreeInv, NextLayer PROVE TreeInv'
<1> USE DEF TreeInv
<1>1. /\ pc = "layers" /\ i >= Len(todo) /\ Len(todo) > 1 /\ i' = 0
      /\ newTodo' = <<>> /\ todo' = newTodo
      /\ UNCHANGED <<kind, racks, pc, tors, hosts, links, s>>
  BY DEF NextLayer
<1>2. kind = "FatTree"
  BY <1>1 DEF RackInv, TopologyInv, TypeOK
<1>3. /\ i \in Nat /\ Len(todo) \in Nat /\ DOMAIN todo = 1..Len(todo)
      /\ DOMAIN newTodo = 1..Len(newTodo)
      /\ newTodo \in Seq(nodes) /\ Len(newTodo) \in Nat /\ Len(racks) \in Nat
  BY DEF TopologyInv, TypeOK, Built
<1>4. /\ ~ Repeats(newTodo) /\ Elements(todo) \cap Elements(newTodo) = {}
      /\ 2 * Len(newTodo) = i /\ i <= Len(todo) + 1
      /\ \A j \in DOMAIN todo : j <= i =>
              \E k \in DOMAIN newTodo : Linked(todo[j], newTodo[k])
      /\ \E d \in Nat : Fits(d) /\ Climbs(d)
  BY <1>1, <1>2 DEF LayerInv
<1>5. Elements(todo) \subseteq nodes
  BY DEF Elements, TopologyInv, Built
<1>6. nodes' = nodes BY <1>1 DEF nodes, switches
<1>7. RackInv' BY <1>1 DEF RackInv, Linked
<1>8. Roots' = Roots
  <2>1. {todo[j] : j \in {k \in DOMAIN todo : k > i}} = {} BY <1>1, <1>3
  <2>2. Roots = Elements(newTodo) BY <1>1, <2>1 DEF Roots
  <2>3. /\ Roots' = {todo'[j] : j \in {k \in DOMAIN todo' : k > 0}}
                      \cup Elements(newTodo')
        /\ Elements(newTodo') = {}
    BY <1>1 DEF Roots, Elements
  <2>4. \A k \in DOMAIN newTodo : k > 0 BY <1>3
  <2> QED BY <1>1, <2>2, <2>3, <2>4 DEF Elements
<1>9. ForestInv' BY <1>1, <1>6, <1>8 DEF ForestInv, Leads
<1>10. PICK d \in Nat : Fits(d) /\ Climbs(d) BY <1>4
<1>11. Fits(d + 1)'
  <2>1. /\ (Len(todo) - 1) * Joined[d] < Len(racks)
        /\ Len(racks) <= Len(todo) * Joined[d]
    BY <1>10 DEF Fits
  <2>2. 2 * Len(newTodo) = i /\ i <= Len(todo) + 1 BY <1>4
  <2>3. /\ (Len(newTodo) - 1) * Joined[d + 1] < Len(racks)
        /\ Len(racks) <= Len(newTodo) * Joined[d + 1]
        /\ Joined[d] < Len(racks)
    BY <1>1, <1>3, <2>1, <2>2, HalfFits
  <2>4. (d + 1) - 1 = d OBVIOUS
  <2>5. todo' = newTodo /\ racks' = racks BY <1>1
  <2> QED BY <2>3, <2>4, <2>5 DEF Fits
<1>12. Climbs(d + 1)'
  <2>1. Up' = Up BY <1>1 DEF Up
  <2> SUFFICES ASSUME NEW r \in DOMAIN tors
               PROVE  /\ \E k \in DOMAIN newTodo : After({tors[r]}, Up, d + 1) = {newTodo[k]}
                      /\ \A k \in 0..d : \A x \in After({tors[r]}, Up, k) :
                             x \in nodes \ Elements(newTodo)
    <3>1. (d + 1) - 1 = d OBVIOUS
    <3>2. Elements(newTodo') = {} /\ Elements(todo') = Elements(newTodo)
      BY <1>1 DEF Elements
    <3> QED BY <1>1, <1>6, <2>1, <3>1, <3>2 DEF Climbs, Above
  <2>2. /\ \E j \in DOMAIN todo : After({tors[r]}, Up, d) = {todo[j]}
        /\ \A k \in 0..d - 1 : \A x \in After({tors[r]}, Up, k) :
                x \in nodes \ (Elements(todo) \cup Elements(newTodo))
    BY <1>10 DEF Climbs, Above
  <2>3. PICK j \in DOMAIN todo : After({tors[r]}, Up, d) = {todo[j]} BY <2>2
  <2>4. PICK k \in DOMAIN newTodo : Linked(todo[j], newTodo[k])
    BY <1>1, <1>3, <1>4
  <2>5. \A e \in Up : e[1] = todo[j] <=> e = <<todo[j], newTodo[k]>>
    <3>1. PICK l \in links : l.from = todo[j] /\ l.to = newTodo[k]
      BY <2>4 DEF Linked
    <3>2. \A m \in links : m.from = todo[j] => m.to = newTodo[k]
      BY <1>2, <3>1 DEF ForestInv
    <3>3. \A e \in Up : \E m \in links : e = <<m.from, m.to>> BY DEF Up
    <3> QED BY <3>2, <3>3
  <2>6. <<todo[j], newTodo[k]>> \in Up BY <2>4 DEF Linked, Up
  <2>7. \A x : x \in After({tors[r]}, Up, d + 1)
                 <=> \E e \in Up : e[1] \in After({tors[r]}, Up, d) /\ e[2] = x
    BY AfterNext
  <2>8. After({tors[r]}, Up, d + 1) = {newTodo[k]}
    <3> DEFINE e0 == <<todo[j], newTodo[k]>>
    <3>0. e0 \in Up /\ e0[1] = todo[j] /\ e0[2] = newTodo[k] BY <2>6
    <3>2. \A e \in Up : e[1] = todo[j] => e[2] = newTodo[k] BY <2>5
    <3> HIDE DEF e0
    <3>3. \A x : (\E e \in Up : e[1] \in {todo[j]} /\ e[2] = x) <=> x = newTodo[k]
      BY <3>0, <3>2
    <3>1. \A x : x \in After({tors[r]}, Up, d + 1) <=> x = newTodo[k]
      BY <2>3, <2>7, <3>3
    <3> QED BY <3>1
  <2>9. todo[j] \in nodes \ Elements(newTodo)
    BY <1>4, <1>5 DEF Elements
  <2>10. \A m \in 0..d : m \in 0..d - 1 \/ m = d OBVIOUS
  <2> QED BY <2>2, <2>3, <2>8, <2>9, <2>10
<1>13. LayerInv'
  <2>1. /\ Elements(newTodo)' = {} /\ ~ Repeats(newTodo)' /\ Len(newTodo)' = 0
    BY <1>1 DEF Elements, Repeats
  <2>2. ~ Repeats(todo)' BY <1>1, <1>4 DEF Repeats
  <2>3. \A j \in DOMAIN todo' : ~ (j <= i') BY <1>1, <1>3
  <2>4. Len(todo)' >= 1
    <3>1. Len(newTodo) # 0 BY <1>1, <1>3, <1>4
    <3> QED BY <1>1, <1>3, <3>1
  <2>5. d + 1 \in Nat OBVIOUS
  <2> QED BY <1>1, <1>11, <1>12, <2>1, <2>2, <2>3, <2>4, <2>5 DEF LayerInv
<1> QED BY <1>7, <1>9, <1>13

LEMMA TreeDoneTree ==
  ASSUME TopologyInv, TreeInv, TreeDone PROVE TreeInv'
<1> USE DEF TreeInv
<1>1. /\ pc = "layers" /\ Len(todo) <= 1 /\ pc' = "done"
      /\ UNCHANGED <<kind, racks, i, tors, hosts, links, s, todo, newTodo>>
  BY DEF TreeDone
<1>2. kind = "FatTree"
  BY <1>1 DEF RackInv, TopologyInv, TypeOK
<1>3. nodes' = nodes /\ Up' = Up BY <1>1 DEF nodes, switches, Up
<1>4. RackInv' BY <1>1 DEF RackInv, Linked
<1>5. Roots' = Roots BY <1>1 DEF Roots, Elements
<1>6. ForestInv' BY <1>1, <1>3, <1>5 DEF ForestInv, Leads
<1>7. LayerInv'
  <2>1. \E d \in Nat : Fits(d)' /\ Climbs(d)'
    <3>1. PICK d \in Nat : Fits(d) /\ Climbs(d) BY <1>1, <1>2 DEF LayerInv
    <3>2. Fits(d)' BY <1>1, <3>1 DEF Fits
    <3>3. Climbs(d)'
      BY <1>1, <1>3, <3>1, ClimbKept
    <3> QED BY <3>2, <3>3
  <2>2. /\ Len(todo) >= 1 /\ Len(todo) \in Nat /\ i \in Nat
        /\ i > 0 => Len(todo) > 1
        /\ ~ Repeats(todo) /\ ~ Repeats(newTodo)
        /\ Elements(todo) \cap Elements(newTodo) = {}
        /\ 2 * Len(newTodo) = i /\ i <= Len(todo) + 1
        /\ \A j \in DOMAIN todo : j <= i =>
               \E k \in DOMAIN newTodo : Linked(todo[j], newTodo[k])
    BY <1>1, <1>2 DEF LayerInv, TopologyInv, TypeOK, Built
  <2>3. /\ ~ Repeats(todo)' /\ ~ Repeats(newTodo)'
        /\ Elements(todo)' \cap Elements(newTodo)' = {}
        /\ \A j \in DOMAIN todo' : j <= i' =>
               \E k \in DOMAIN newTodo' : Linked(todo[j], newTodo[k])'
    BY <1>1, <2>2 DEF Repeats, Elements, Linked
  <2>4. Len(todo) = 1 /\ ~ (i > 0)
    <3>1. Len(todo) >= 1 /\ Len(todo) \in Nat /\ i \in Nat /\ (i > 0 => Len(todo) > 1)
      BY <2>2
    <3>2. Len(todo) <= 1 BY <1>1
    <3> DEFINE m == Len(todo)
    <3>3. m >= 1 /\ m <= 1 /\ m \in Nat BY <3>1, <3>2
    <3> HIDE DEF m
    <3>4. m = 1 BY <3>3
    <3>5. ~ (i > 0)
      <4>1. ~ (m > 1) BY <3>4
      <4> QED BY <3>1, <4>1 DEF m
    <3> QED BY <3>4, <3>5 DEF m
  <2> QED BY <1>1, <2>1, <2>2, <2>3, <2>4 DEF LayerInv
<1> QED BY <1>4, <1>6, <1>7

(* The steps of Clos leave a tree alone: there is none.                     *)
LEMMA ClosTree ==
  ASSUME TopologyInv, TreeInv, AddCore \/ AddPod \/ PodsDone \/ WireCore \/ ClosDone
  PROVE  TreeInv'
<1> USE DEF TreeInv
<1>1. /\ pc \in {"core", "pods", "wires"} /\ pc' \in {"pods", "wires", "done"}
      /\ UNCHANGED <<kind, racks, tors, hosts>> /\ links \subseteq links'
  BY DEF AddCore, AddPod, PodsDone, WireCore, ClosDone
<1>2. kind = "Clos" BY <1>1 DEF RackInv, TopologyInv, TypeOK
<1>3. RackInv' BY <1>1, <1>2 DEF RackInv, Linked
<1> QED BY <1>1, <1>2, <1>3 DEF ForestInv, LayerInv

LEMMA StutterTree ==
  ASSUME TopologyInv, TreeInv, UNCHANGED vars PROVE TreeInv'
<1> USE DEF TreeInv
<1>1. UNCHANGED <<kind, racks, pc, i, tors, hosts, links, s, todo, newTodo>>
  BY DEF vars
<1>2. nodes' = nodes BY <1>1 DEF nodes, switches
<1>3. RackInv' BY <1>1 DEF RackInv, Linked
<1>4. ForestInv' BY <1>1, <1>2 DEF ForestInv, Leads, Roots, Elements
<1>5. LayerInv'
  <2> SUFFICES ASSUME kind = "FatTree", pc # "racks" PROVE LayerInv'
    BY <1>1 DEF LayerInv
  <2>1. PICK d \in Nat : Fits(d) /\ Climbs(d) BY DEF LayerInv
  <2>2. Fits(d)' BY <1>1, <2>1 DEF Fits
  <2>3. Climbs(d)' BY <1>1, <1>2, <2>1, ClimbKept
  <2>4. /\ Repeats(todo)' = Repeats(todo) /\ Repeats(newTodo)' = Repeats(newTodo)
        /\ Elements(todo)' = Elements(todo) /\ Elements(newTodo)' = Elements(newTodo)
        /\ \A j, k : Linked(todo[j], newTodo[k])' = Linked(todo[j], newTodo[k])
    BY <1>1 DEF Repeats, Elements, Linked
  <2> QED BY <1>1, <2>2, <2>3, <2>4 DEF LayerInv
<1> QED BY <1>3, <1>4, <1>5

(* The invariant of the fat tree: inductive, given the type invariant.      *)
LEMMA TreeInvariant == Spec => [](TopologyInv /\ TreeInv)
<1>1. TopologyInv /\ TopologyInv' /\ TreeInv /\ [Next]_vars => TreeInv'
  BY AddRackTree, RacksDoneTree, JoinPairTree, NextLayerTree, TreeDoneTree,
     ClosTree, StutterTree DEF Next
<1> QED BY <1>1, InitTree, BuiltInvariant, PTL DEF Spec

(* A network has finitely many nodes, so they can be counted.               *)
LEMMA NodesFinite ==
  ASSUME TopologyInv, RackInv PROVE IsFiniteSet(nodes)
<1>1. IsFiniteSet({tors[r] : r \in DOMAIN tors})
  <2> DEFINE f == [r \in DOMAIN tors |-> tors[r]]
             T == {tors[r] : r \in DOMAIN tors}
  <2>1. f \in Surjection(DOMAIN tors, T) BY DEF Surjection
  <2>2. IsFiniteSet(DOMAIN tors)
    <3>1. DOMAIN tors = 1..Len(tors) /\ 1 \in Int /\ Len(tors) \in Int
      BY DEF TopologyInv, Built
    <3> QED BY <3>1, FS_Interval
  <2> HIDE DEF f, T
  <2>3. IsFiniteSet(T) BY <2>1, <2>2, FS_Surjection
  <2> QED BY <2>3 DEF T
<1>2. IsFiniteSet(switches)
  <2> DEFINE f == [n \in 1..s |-> Switch(n)]
  <2>1. f \in Surjection(1..s, switches) BY DEF Surjection, switches
  <2>2. IsFiniteSet(1..s)
    <3>1. 1 \in Int /\ s \in Int BY DEF TopologyInv, TypeOK
    <3> QED BY <3>1, FS_Interval
  <2> HIDE DEF f
  <2> QED BY <2>1, <2>2, FS_Surjection
<1>3. IsFiniteSet(hosts) BY DEF RackInv
<1> DEFINE T == {tors[r] : r \in DOMAIN tors}
<1>4. IsFiniteSet(T) BY <1>1
<1> HIDE DEF T
<1>5. IsFiniteSet(T \cup hosts) BY <1>3, <1>4, FS_Union
<1>6. IsFiniteSet((T \cup hosts) \cup switches) BY <1>2, <1>5, FS_Union
<1> QED BY <1>6 DEF nodes, T

(* A finished tree: one root, and one link up from every other node.        *)
LEMMA FinishedTree ==
  ASSUME TopologyInv, TreeInv, pc = "done", kind = "FatTree"
  PROVE  TreeIsBalanced
<1> USE DEF TreeInv
<1> DEFINE root == todo[1]
<1>1. /\ todo \in Seq(nodes) /\ newTodo \in Seq(nodes) /\ Len(tors) = Len(racks)
      /\ Len(racks) \in Nat /\ Len(racks) > 0 /\ DOMAIN tors = 1..Len(racks) /\ i \in Nat
  BY DEF TopologyInv, TypeOK, Built
<1>2. Len(todo) = 1 /\ ~ (i > 0) /\ 2 * Len(newTodo) = i
  BY DEF LayerInv
<1>3. i = 0 /\ Len(newTodo) = 0
  <2>1. i = 0 BY <1>1, <1>2
  <2>2. Len(newTodo) \in Nat BY <1>1
  <2> QED BY <1>2, <2>1, <2>2
<1>4. DOMAIN todo = {1} /\ root \in nodes
  <2>1. DOMAIN todo = 1..1 BY <1>1, <1>2
  <2>2. 1..1 = {1} OBVIOUS
  <2>3. \A j \in DOMAIN todo : todo[j] \in nodes BY <1>1
  <2> QED BY <2>1, <2>2, <2>3
<1>5. Roots = {root}
  <2>1. DOMAIN newTodo = {} BY <1>1, <1>3
  <2>2. Roots = {todo[j] : j \in {k \in DOMAIN todo : k > 0}} \cup Elements(newTodo)
    BY <1>3 DEF Roots
  <2> QED BY <1>4, <2>1, <2>2 DEF Elements
<1>6. /\ \A l, m \in links : l.from = m.from => l = m
      /\ \A x \in nodes : (\E l \in links : l.from = x) <=> x # root
  BY <1>5 DEF ForestInv, Leads
<1>7. \A l \in links : l.from \in nodes BY DEF TopologyInv, TypeOK
<1> HIDE DEF root
<1>8. Cardinality(links) = Cardinality(nodes) - 1
  <2> DEFINE f == [l \in links |-> l.from]
             low == nodes \ {root}
  <2>1. IsFiniteSet(nodes) BY NodesFinite
  <2>2. IsFiniteSet(low) /\ Cardinality(low) = Cardinality(nodes) - 1
    BY <1>4, <2>1, FS_RemoveElement
  <2>3. f \in Bijection(links, low)
    <3>1. f \in [links -> low] BY <1>6, <1>7
    <3>2. f \in Injection(links, low) BY <3>1, <1>6 DEF Injection, IsInjective
    <3>3. f \in Surjection(links, low) BY <3>1, <1>6 DEF Surjection
    <3> QED BY <3>2, <3>3 DEF Bijection
  <2> HIDE DEF f, low
  <2>4. IsFiniteSet(links)
    <3>1. f \in Injection(links, low) BY <2>3 DEF Bijection
    <3> QED BY <2>2, <3>1, FS_Injection
  <2>5. ExistsBijection(links, low) BY <2>3 DEF ExistsBijection
  <2>6. Cardinality(low) = Cardinality(links) BY <2>4, <2>5, FS_Bijection
  <2> QED BY <2>2, <2>6
<1>9. ASSUME NEW x \in nodes PROVE Cardinality({l \in links : l.from = x}) <= 1
  <2> DEFINE L == {l \in links : l.from = x}
  <2>1. CASE L = {} BY <2>1, FS_EmptySet
  <2>2. CASE L # {}
    <3>1. PICK l \in links : L = {l} BY <2>2, <1>6
    <3>2. Cardinality({l}) = 1 BY FS_Singleton
    <3> QED BY <3>1, <3>2
  <2> QED BY <2>1, <2>2
<1>10. PICK d \in Nat : Fits(d) /\ Climbs(d) BY DEF LayerInv
<1>11. Layers(Len(racks)) = d
  <2>1. Joined[d] \in Nat BY JoinedIs
  <2>2. Len(racks) <= Joined[d] /\ (d = 0 \/ Joined[d - 1] < Len(racks))
    BY <1>2, <1>10, <2>1 DEF Fits
  <2>3. Joined[d] >= Len(racks) BY <1>1, <2>1, <2>2
  <2> QED BY <1>1, <2>2, <2>3, LayersIs
<1>12. ASSUME NEW r \in DOMAIN tors
       PROVE  Above({tors[r]}, d) = {root} /\ Above({tors[r]}, d + 1) = {}
  <2>1. Above({tors[r]}, d) = {root} BY <1>4, <1>10 DEF Climbs, root
  <2>2. \A x : x \in Above({tors[r]}, d + 1)
                 <=> \E e \in Up : e[1] \in Above({tors[r]}, d) /\ e[2] = x
    BY AfterNext DEF Above
  <2>3. \A e \in Up : e[1] # root BY <1>4, <1>6 DEF Up
  <2> QED BY <2>1, <2>2, <2>3
<1>13. 1 \in DOMAIN tors BY <1>1
<1> QED BY <1>8, <1>9, <1>11, <1>12, <1>13 DEF TreeIsBalanced

(* A finished fat tree is a tree, with all racks at the same, least depth   *)
(* below its root, for every number of racks, odd layers included.          *)
THEOREM TreesAreBalanced == Spec => []TreeIsBalanced
<1>1. TopologyInv /\ TreeInv => TreeIsBalanced
  BY FinishedTree DEF TreeIsBalanced
<1> QED BY <1>1, TreeInvariant, PTL

-----------------------------------------------------------------------------
(***************************************************************************)
(* The limits of a fat tree: the links into the roots of the next layer    *)
(* have the limit of this one, those into the roots of this layer half of  *)
(* it, or none.                                                             *)
(***************************************************************************)
(* A switch is above one link with a limit, and above a link with a limit   *)
(* a limit is twice as large.                                               *)
LimitsDouble ==
    kind = "FatTree" =>
        /\ \A x \in switches : \E l \in links : l.to = x /\ l.bw # NoLimit
        /\ \A l, m \in links :
             (l.from \notin hosts /\ l.to = m.from /\ NoLimit \notin {l.bw, m.bw})
                => m.bw = 2 * l.bw

BandInv ==
    kind = "FatTree" =>
        /\ bandwidth # 0
        /\ pc = "racks" => \A l \in links : l.from \in hosts
        /\ pc = "layers" =>
              \A l \in links :
                 /\ l.from \notin hosts /\ l.to \in Elements(todo)
                      => l.bw = NoLimit \/ 2 * l.bw = bandwidth
                 /\ l.to \in Elements(newTodo) => l.bw \in {NoLimit, bandwidth}

LimitsInv == BandInv /\ LimitsDouble

LEMMA InitLimits == ASSUME Init PROVE LimitsInv
<1>1. links = {} /\ s = 0 /\ pc = "racks" /\ bandwidth = 10 BY DEF Init, EdgeLimit
<1>2. switches = {} BY <1>1 DEF switches
<1> QED BY <1>1, <1>2 DEF LimitsInv, BandInv, LimitsDouble

LEMMA AddRackLimits ==
  ASSUME TopologyInv, TreeInv, LimitsInv, AddRack PROVE LimitsInv'
<1> DEFINE new == {Host(i + 1, h) : h \in 1..racks[i + 1]}
<1>1. /\ pc = "racks" /\ s = 0 /\ hosts' = hosts \cup new
      /\ links' = links \cup {Link(h, Tor(i + 1), EdgeLimit) : h \in new}
      /\ UNCHANGED <<kind, pc, s, bandwidth>>
  BY DEF AddRack, TopologyInv, Built
<1> HIDE DEF new
<1> SUFFICES ASSUME kind = "FatTree" PROVE LimitsInv'
  BY <1>1 DEF LimitsInv, BandInv, LimitsDouble
<1>2. \A l \in links : l.from \in hosts BY <1>1 DEF LimitsInv, BandInv
<1>3. \A l \in links' : l.from \in hosts' BY <1>1, <1>2, LinkParts
<1>4. switches' = {} BY <1>1 DEF switches
<1> QED BY <1>1, <1>3, <1>4 DEF LimitsInv, BandInv, LimitsDouble

LEMMA JoinPairLimits ==
  ASSUME TopologyInv, TreeInv, LimitsInv, JoinPair PROVE LimitsInv'
<1> DEFINE sw == Switch(s + 1)
           first == Link(todo[i + 1], sw, bandwidth)
           second == {Link(todo[j], sw, NoLimit) : j \in {i + 2} \cap DOMAIN todo}
<1>1. /\ pc = "layers" /\ newTodo' = Append(newTodo, sw) /\ s' = s + 1
      /\ links' = links \cup {first} \cup second
      /\ UNCHANGED <<kind, pc, hosts, todo, bandwidth>>
  BY DEF JoinPair
<1> SUFFICES ASSUME kind = "FatTree" PROVE LimitsInv'
  BY <1>1 DEF LimitsInv, BandInv, LimitsDouble
<1>2. /\ todo \in Seq(nodes) /\ newTodo \in Seq(nodes) /\ s \in Nat /\ bandwidth \in Nat
      /\ i \in Nat /\ i < Len(todo)
      /\ \A l \in links : l.from \in nodes /\ l.to \in nodes /\ l.bw \in Nat
  BY DEF JoinPair, TopologyInv, TypeOK, Built
<1>3. sw \notin nodes
  <2>1. s + 1 \in Nat /\ s + 1 > s BY <1>2
  <2> QED BY <2>1, NewSwitch DEF TreeInv
<1>4. Elements(todo) \subseteq nodes BY <1>2 DEF Elements
<1>5. /\ \A l \in {first} \cup second :
            l.to = sw /\ l.from \in Elements(todo) /\ l.bw \in {NoLimit, bandwidth}
      /\ first.to = sw /\ first.bw = bandwidth
  <2>1. i + 1 \in DOMAIN todo BY <1>2
  <2>2. \A j \in DOMAIN todo : todo[j] \in Elements(todo) BY DEF Elements
  <2> HIDE DEF sw
  <2>3. /\ first.to = sw /\ first.from = todo[i + 1] /\ first.bw = bandwidth
    BY DEF Link
  <2>4. ASSUME NEW l \in second
        PROVE  l.to = sw /\ l.from \in Elements(todo) /\ l.bw = NoLimit
    BY <2>2 DEF Link
  <2> HIDE DEF first, second
  <2> QED BY <2>1, <2>2, <2>3, <2>4
<1>6. Elements(newTodo') = Elements(newTodo) \cup {sw}
  <2> HIDE DEF sw
  <2> QED BY <1>1, <1>2, AppendElements
<1>7. switches' = switches \cup {sw}
  <2>1. 1..s' = 1..s \cup {s + 1} BY <1>1, <1>2
  <2> QED BY <2>1 DEF switches
<1> HIDE DEF first, second, sw
<1>8. /\ bandwidth # 0
      /\ \A l \in links :
            /\ l.from \notin hosts /\ l.to \in Elements(todo)
                 => l.bw = NoLimit \/ 2 * l.bw = bandwidth
            /\ l.to \in Elements(newTodo) => l.bw \in {NoLimit, bandwidth}
      /\ \A x \in switches : \E l \in links : l.to = x /\ l.bw # NoLimit
      /\ \A l, m \in links :
           (l.from \notin hosts /\ l.to = m.from /\ NoLimit \notin {l.bw, m.bw})
              => m.bw = 2 * l.bw
  BY <1>1 DEF LimitsInv, BandInv, LimitsDouble
<1>9. \A l \in links' : l \in links \/ l \in {first} \cup second BY <1>1
<1>10. ASSUME NEW l \in links', NEW m \in links',
              l.from \notin hosts, l.to = m.from, NoLimit \notin {l.bw, m.bw}
       PROVE  m.bw = 2 * l.bw
  <2>1. l \in links BY <1>2, <1>3, <1>4, <1>5, <1>9, <1>10
  <2>2. CASE m \in links BY <1>8, <1>10, <2>1, <2>2
  <2>3. CASE m \in {first} \cup second
    <3>1. m.from \in Elements(todo) /\ m.bw = bandwidth BY <1>5, <1>10, <2>3
    <3> QED BY <1>8, <1>10, <2>1, <3>1
  <2> QED BY <1>9, <2>2, <2>3
<1>11. ASSUME NEW x \in switches' PROVE \E l \in links' : l.to = x /\ l.bw # NoLimit
  BY <1>1, <1>5, <1>7, <1>8 DEF NoLimit
<1>12. ASSUME NEW l \in links'
       PROVE  /\ l.from \notin hosts /\ l.to \in Elements(todo)
                   => l.bw = NoLimit \/ 2 * l.bw = bandwidth
              /\ l.to \in Elements(newTodo') => l.bw \in {NoLimit, bandwidth}
  <2>1. CASE l \in links BY <1>2, <1>3, <1>6, <1>8, <2>1
  <2>2. CASE l \in {first} \cup second BY <1>3, <1>4, <1>5, <2>2
  <2> QED BY <1>9, <2>1, <2>2
<1>13. Elements(todo)' = Elements(todo) /\ Elements(newTodo)' = Elements(newTodo')
  BY <1>1 DEF Elements
<1>14. BandInv' BY <1>1, <1>8, <1>12, <1>13 DEF BandInv
<1>15. LimitsDouble' BY <1>1, <1>10, <1>11 DEF LimitsDouble
<1> QED BY <1>14, <1>15 DEF LimitsInv

LEMMA NextLayerLimits ==
  ASSUME TopologyInv, LimitsInv, NextLayer PROVE LimitsInv'
<1>1. /\ pc = "layers" /\ todo' = newTodo /\ newTodo' = <<>> /\ bandwidth' = 2 * bandwidth
      /\ UNCHANGED <<kind, pc, hosts, links, s>> /\ bandwidth \in Nat
      /\ \A l \in links : l.bw \in Nat
  BY DEF NextLayer, TopologyInv, TypeOK
<1>2. switches' = switches BY <1>1 DEF switches
<1>3. Elements(todo)' = Elements(newTodo) /\ Elements(newTodo)' = {}
  BY <1>1 DEF Elements
<1>4. BandInv' BY <1>1, <1>3 DEF LimitsInv, BandInv
<1>5. LimitsDouble' BY <1>1, <1>2 DEF LimitsInv, LimitsDouble
<1> QED BY <1>4, <1>5 DEF LimitsInv

(* The steps of the tree that change no link; those of Clos are not its.    *)
LEMMA OtherLimits ==
  ASSUME TopologyInv, TreeInv, LimitsInv,
         \/ RacksDone \/ TreeDone \/ UNCHANGED vars
         \/ AddCore \/ AddPod \/ PodsDone \/ WireCore \/ ClosDone
  PROVE  LimitsInv'
<1>1. UNCHANGED kind
  BY DEF RacksDone, TreeDone, AddCore, AddPod, PodsDone, WireCore, ClosDone, vars
<1> SUFFICES ASSUME kind = "FatTree" PROVE LimitsInv'
  BY <1>1 DEF LimitsInv, BandInv, LimitsDouble
<1>2. RacksDone \/ TreeDone \/ UNCHANGED vars
  BY DEF TreeInv, RackInv, AddCore, AddPod, PodsDone, WireCore, ClosDone
<1>3. UNCHANGED <<hosts, links, s, bandwidth, newTodo>>
  BY <1>2 DEF RacksDone, TreeDone, vars
<1>4. switches' = switches /\ Elements(newTodo)' = Elements(newTodo)
  BY <1>3 DEF switches, Elements
<1>5. LimitsDouble' BY <1>1, <1>3, <1>4 DEF LimitsInv, LimitsDouble
<1>6. CASE RacksDone
  <2>1. pc = "racks" /\ newTodo = <<>> /\ pc' = "layers"
    BY <1>6 DEF RacksDone, TreeInv, RackInv
  <2>2. Elements(newTodo) = {} BY <2>1 DEF Elements
  <2>3. \A l \in links : l.from \in hosts BY <2>1 DEF LimitsInv, BandInv
  <2>4. BandInv' BY <1>3, <1>4, <2>1, <2>2, <2>3 DEF BandInv, LimitsInv
  <2> QED BY <1>5, <2>4 DEF LimitsInv
<1>7. CASE TreeDone
  <2>1. pc' = "done" BY <1>7 DEF TreeDone
  <2>2. BandInv' BY <1>3, <2>1 DEF BandInv, LimitsInv
  <2> QED BY <1>5, <2>2 DEF LimitsInv
<1>8. CASE UNCHANGED vars
  <2>1. UNCHANGED pc /\ Elements(todo)' = Elements(todo) BY <1>8 DEF vars, Elements
  <2>2. BandInv' BY <1>1, <1>3, <1>4, <2>1 DEF BandInv, LimitsInv
  <2> QED BY <1>5, <2>2 DEF LimitsInv
<1> QED BY <1>2, <1>6, <1>7, <1>8

(* "The bandwidth limit is doubled with every layer of the tree": so it is  *)
(* wherever FatTree gives a limit, which it does for a link of each pair;   *)
(* BandwidthDoubles fails for those without one and for nothing else.       *)
THEOREM GivenLimitsDouble == Spec => []LimitsDouble
<1>1. TopologyInv /\ TreeInv /\ LimitsInv /\ [Next]_vars => LimitsInv'
  BY AddRackLimits, JoinPairLimits, NextLayerLimits, OtherLimits DEF Next
<1>2. LimitsInv => LimitsDouble BY DEF LimitsInv
<1> QED BY <1>1, <1>2, InitLimits, TreeInvariant, PTL DEF Spec

-----------------------------------------------------------------------------
(***************************************************************************)
(* A Clos network in the making: which links there are, and that the ones  *)
(* of the racks and the pods the loops have passed are all there.          *)
(***************************************************************************)
(* A link leads from a host to its rack, from a rack to a switch of its pod *)
(* or from a switch of a pod to one of the core.                            *)
Wire(l) ==
    \/ \E r \in DOMAIN tors : \E h \in 1..racks[r] :
           l.from = Host(r, h) /\ l.to = Tor(r)
    \/ \E p \in 0..Len(pod) : \E j, x \in 1..2 :
         2 * p + 2 <= Len(pod) /\ l.from = Tor(2 * p + j) /\ l.to = Switch(2 * p + 2 + x)
    \/ \E q \in DOMAIN pod : \E c \in 1..2 : l.from = pod[q] /\ l.to = Switch(c)

ClosInv ==
    kind = "Clos" =>
        /\ \A l \in links : Wire(l)
        /\ \A q \in DOMAIN pod : pod[q] = Switch(q + 2)
        /\ pc \in {"racks", "core"} => pod = <<>>
        /\ pc = "pods" => Len(pod) = 2 * i
        /\ pc \in {"wires", "done"} => Len(pod) = 2 * NumPods
        /\ pc \in {"pods", "wires", "done"} => s = Len(pod) + 2
        /\ pc = "wires" => i <= Len(pod)
        /\ \A p \in 0..Len(pod) : \A j, x \in 1..2 :
             2 * p + 2 <= Len(pod) => Linked(Tor(2 * p + j), Switch(2 * p + 2 + x))
        /\ pc \in {"wires", "done"} =>
              \A q \in DOMAIN pod : \A c \in 1..2 :
                 pc = "done" \/ q <= i => Linked(pod[q], Switch(c))

LEMMA InitClos == ASSUME Init PROVE ClosInv
<1>1. /\ pc = "racks" /\ links = {} /\ pod = <<>> BY DEF Init
<1>2. DOMAIN pod = {} /\ Len(pod) = 0 BY <1>1
<1>3. \A p \in 0..0 : ~(2 * p + 2 <= 0) OBVIOUS
<1> QED BY <1>1, <1>2, <1>3 DEF ClosInv

(* A link that was there keeps its place.                                   *)
LEMMA WireKept ==
  ASSUME NEW l, Wire(l), UNCHANGED racks, DOMAIN tors \subseteq DOMAIN tors',
         Len(pod) \in Nat, Len(pod') \in Nat, Len(pod) <= Len(pod'),
         DOMAIN pod \subseteq DOMAIN pod', \A q \in DOMAIN pod : pod'[q] = pod[q]
  PROVE  Wire(l)'
<1>1. CASE \E r \in DOMAIN tors : \E h \in 1..racks[r] :
              l.from = Host(r, h) /\ l.to = Tor(r)
  BY <1>1 DEF Wire
<1>2. CASE \E p \in 0..Len(pod) : \E j, x \in 1..2 :
              2 * p + 2 <= Len(pod) /\ l.from = Tor(2 * p + j) /\ l.to = Switch(2 * p + 2 + x)
  <2>1. PICK p \in 0..Len(pod), j \in 1..2, x \in 1..2 :
           2 * p + 2 <= Len(pod) /\ l.from = Tor(2 * p + j) /\ l.to = Switch(2 * p + 2 + x)
    BY <1>2
  <2>2. p \in 0..Len(pod') /\ 2 * p + 2 <= Len(pod') BY <2>1
  <2> QED BY <2>1, <2>2 DEF Wire
<1>3. CASE \E q \in DOMAIN pod : \E c \in 1..2 : l.from = pod[q] /\ l.to = Switch(c)
  BY <1>3 DEF Wire
<1> QED BY <1>1, <1>2, <1>3 DEF Wire

LEMMA AddRackClos ==
  ASSUME TopologyInv, TreeInv, ClosInv, AddRack PROVE ClosInv'
<1> DEFINE r == i + 1
           new == {Host(r, h) : h \in 1..racks[r]}
<1> SUFFICES ASSUME kind = "Clos" PROVE ClosInv'
  BY DEF ClosInv, AddRack
<1>1. /\ tors' = Append(tors, Tor(r)) /\ Len(tors) = i /\ i \in Nat
      /\ tors \in Seq(nodes) /\ pc = "racks"
      /\ links' = links \cup {Link(h, Tor(r), EdgeLimit) : h \in new}
      /\ UNCHANGED <<kind, racks, pc, pod>>
  BY DEF AddRack, TopologyInv, TypeOK, Built
<1>2. DOMAIN tors \subseteq DOMAIN tors' /\ r \in DOMAIN tors' BY <1>1
<1>3. pod = <<>> /\ \A l \in links : Wire(l) BY <1>1 DEF ClosInv
<1>4. Len(pod) = 0 /\ DOMAIN pod = {} BY <1>3
<1>5. ASSUME NEW l \in links' PROVE Wire(l)'
  <2>1. CASE l \in links
    <3>1. Wire(l) BY <1>3, <2>1
    <3>2. Len(pod') = Len(pod) /\ Len(pod) \in Nat BY <1>1, <1>4
    <3> QED BY <1>1, <1>2, <3>1, <3>2, WireKept
  <2>2. CASE l \notin links
    <3>1. PICK h \in 1..racks[r] : l = Link(Host(r, h), Tor(r), EdgeLimit)
      BY <1>1, <2>2
    <3>2. l.from = Host(r, h) /\ l.to = Tor(r) BY <3>1, LinkParts
    <3> HIDE DEF r
    <3> QED BY <1>1, <1>2, <3>2 DEF Wire
  <2> QED BY <2>1, <2>2
<1>6. \A p \in 0..0 : ~(2 * p + 2 <= 0) OBVIOUS
<1> QED BY <1>1, <1>3, <1>4, <1>5, <1>6 DEF ClosInv

LEMMA AddPodClos ==
  ASSUME TopologyInv, TreeInv, ClosInv, AddPod PROVE ClosInv'
<1> DEFINE new == <<Switch(s + 1), Switch(s + 2)>>
           last == (i + 1) * PodSize
           wires == {Link(tors[j + 1], new[x], ClosLimit) :
                       j \in i * PodSize .. last - 1, x \in 1..2}
<1>1. /\ pc = "pods" /\ i < NumPods /\ pod' = pod \o new /\ s' = s + 2 /\ i' = i + 1
      /\ UNCHANGED <<kind, racks, pc, tors, hosts>>
  BY DEF AddPod
<1>2. kind = "Clos" BY <1>1 DEF TreeInv, RackInv, TopologyInv, TypeOK
<1>3. /\ \A l \in links : Wire(l)
      /\ \A q \in DOMAIN pod : pod[q] = Switch(q + 2)
      /\ Len(pod) = 2 * i /\ s = Len(pod) + 2
      /\ \A p \in 0..Len(pod) : \A j, x \in 1..2 :
             2 * p + 2 <= Len(pod) => Linked(Tor(2 * p + j), Switch(2 * p + 2 + x))
  BY <1>1, <1>2 DEF ClosInv
<1>4. /\ i \in Nat /\ Len(racks) \in Nat /\ Len(tors) = Len(racks)
      /\ pod \in Seq(nodes) /\ tors \in Seq(nodes)
      /\ \A r \in DOMAIN tors : tors[r] = Tor(r)
  BY <1>1 DEF TopologyInv, TypeOK, Built
<1>5. NumPods \in Nat /\ 2 * NumPods <= Len(racks) BY <1>4 DEF NumPods, PodSize
<1>6. last = 2 * i + 2 /\ i * PodSize = 2 * i /\ last <= Len(racks)
  BY <1>1, <1>4, <1>5 DEF PodSize
<1>7. links' = links \cup wires
  <2>1. ~ (last > Len(racks)) BY <1>4, <1>6
  <2> QED BY <2>1 DEF AddPod
<1>8. /\ pod' \in Seq(nodes \cup {Switch(s + 1), Switch(s + 2)})
      /\ Len(pod') = 2 * i + 2
      /\ \A q \in DOMAIN pod : q \in DOMAIN pod' /\ pod'[q] = pod[q]
      /\ pod'[2 * i + 1] = Switch(s + 1) /\ pod'[2 * i + 2] = Switch(s + 2)
  <2> DEFINE T == nodes \cup {Switch(s + 1), Switch(s + 2)}
             a == Switch(s + 1)
             b == Switch(s + 2)
  <2>1. a \in T /\ b \in T /\ pod \in Seq(T) BY <1>4, SeqGrows
  <2> HIDE DEF T, a, b
  <2>2. <<a, b>> \in Seq(T) /\ Len(<<a, b>>) = 2 /\ <<a, b>>[1] = a /\ <<a, b>>[2] = b
    BY <2>1
  <2>3. pod' = pod \o <<a, b>> BY <1>1 DEF a, b
  <2>4. Len(pod) = 2 * i BY <1>3
  <2>5. /\ pod' \in Seq(T) /\ Len(pod') = 2 * i + 2
        /\ \A q \in 1..Len(pod) + 2 :
              pod'[q] = IF q <= Len(pod) THEN pod[q] ELSE <<a, b>>[q - Len(pod)]
    BY <1>4, <2>1, <2>2, <2>3, <2>4, ConcatProperties
  <2>6. DOMAIN pod = 1..2 * i /\ DOMAIN pod' = 1..2 * i + 2
    BY <1>4, <2>4, <2>5
  <2>7. pod'[2 * i + 1] = a /\ pod'[2 * i + 2] = b
    BY <1>4, <2>2, <2>4, <2>5
  <2> QED BY <1>4, <2>4, <2>5, <2>6, <2>7 DEF T, a, b
<1>9. DOMAIN pod = 1..2 * i /\ DOMAIN pod' = 1..2 * i + 2 BY <1>3, <1>4, <1>8
<1>10. \A q \in DOMAIN pod' : pod'[q] = Switch(q + 2)
  <2>1. \A q \in 1..2 * i + 2 : q \in 1..2 * i \/ q = 2 * i + 1 \/ q = 2 * i + 2
    BY <1>4
  <2>2. s + 1 = (2 * i + 1) + 2 /\ s + 2 = (2 * i + 2) + 2 BY <1>3, <1>4
  <2> QED BY <1>3, <1>8, <1>9, <2>1, <2>2
<1>11. /\ \A l \in wires : \E j, x \in 1..2 :
              l.from = Tor(2 * i + j) /\ l.to = Switch(2 * i + 2 + x)
       /\ \A j, x \in 1..2 : \E l \in wires :
              l.from = Tor(2 * i + j) /\ l.to = Switch(2 * i + 2 + x)
  <2>1. ASSUME NEW x \in 1..2 PROVE new[x] = Switch(2 * i + 2 + x)
    <3>1. s = 2 * i + 2 BY <1>3
    <3> QED BY <3>1
  <2>2. ASSUME NEW j \in 1..2
        PROVE  tors[2 * i + j] = Tor(2 * i + j)
    <3>1. 2 * i + j \in DOMAIN tors BY <1>4, <1>6
    <3> QED BY <1>4, <3>1
  <2>3. wires = {Link(tors[j + 1], new[x], ClosLimit) :
                    j \in 2 * i .. 2 * i + 1, x \in 1..2}
    <3>1. last - 1 = 2 * i + 1 BY <1>4, <1>6
    <3> QED BY <1>6, <3>1
  <2>4. ASSUME NEW l \in wires
        PROVE  \E j, x \in 1..2 : l.from = Tor(2 * i + j) /\ l.to = Switch(2 * i + 2 + x)
    <3>1. PICK j \in 2 * i .. 2 * i + 1, x \in 1..2 : l = Link(tors[j + 1], new[x], ClosLimit)
      BY <2>3
    <3>2. PICK k \in 1..2 : j + 1 = 2 * i + k
      <4>1. j + 1 - 2 * i \in 1..2 BY <1>4
      <4> QED BY <1>4, <4>1
    <3>3. l = Link(Tor(2 * i + k), Switch(2 * i + 2 + x), ClosLimit)
      BY <2>1, <2>2, <3>1, <3>2
    <3> QED BY <3>3, LinkParts
  <2>5. ASSUME NEW j \in 1..2, NEW x \in 1..2
        PROVE  \E l \in wires : l.from = Tor(2 * i + j) /\ l.to = Switch(2 * i + 2 + x)
    <3> DEFINE k == 2 * i + j - 1
    <3>1. k \in 2 * i .. 2 * i + 1 /\ k + 1 = 2 * i + j BY <1>4
    <3>2. Link(tors[k + 1], new[x], ClosLimit) \in wires
      <4> HIDE DEF k, new, wires
      <4> QED BY <2>3, <3>1
    <3>3. tors[k + 1] = Tor(2 * i + j) /\ new[x] = Switch(2 * i + 2 + x)
      BY <2>1, <2>2, <3>1
    <3> HIDE DEF k, new, wires
    <3> QED BY <3>2, <3>3, LinkParts
  <2> QED BY <2>4, <2>5
<1> HIDE DEF new, wires
<1>12. ASSUME NEW l \in links' PROVE Wire(l)'
  <2>1. CASE l \in links
    <3>1. Wire(l) BY <1>3, <2>1
    <3>2. Len(pod) \in Nat /\ Len(pod') \in Nat /\ Len(pod) <= Len(pod')
      BY <1>3, <1>4, <1>8
    <3>3. UNCHANGED <<racks, tors>> /\ DOMAIN pod \subseteq DOMAIN pod' BY <1>1, <1>8
    <3> QED BY <1>8, <3>1, <3>2, <3>3, WireKept
  <2>2. CASE l \in wires
    <3>1. PICK j \in 1..2, x \in 1..2 :
            l.from = Tor(2 * i + j) /\ l.to = Switch(2 * i + 2 + x)
      BY <1>11, <2>2
    <3>2. i \in 0..Len(pod') /\ 2 * i + 2 <= Len(pod') BY <1>4, <1>8
    <3> QED BY <3>1, <3>2 DEF Wire
  <2> QED BY <1>7, <2>1, <2>2
<1>13. ASSUME NEW p \in 0..Len(pod'), NEW j \in 1..2, NEW x \in 1..2,
              2 * p + 2 <= Len(pod')
       PROVE  Linked(Tor(2 * p + j), Switch(2 * p + 2 + x))'
  <2>1. p < i \/ p = i BY <1>4, <1>8, <1>13
  <2>2. CASE p < i
    <3>1. p \in 0..Len(pod) /\ 2 * p + 2 <= Len(pod) BY <1>3, <1>4, <2>2
    <3>2. Linked(Tor(2 * p + j), Switch(2 * p + 2 + x)) BY <1>3, <3>1
    <3> QED BY <1>7, <3>2 DEF Linked
  <2>3. CASE p = i BY <1>7, <1>11, <2>3 DEF Linked
  <2> QED BY <2>1, <2>2, <2>3
<1>14. Len(pod') = 2 * i' /\ s' = Len(pod') + 2 BY <1>1, <1>3, <1>4, <1>8
<1> QED BY <1>1, <1>10, <1>12, <1>13, <1>14 DEF ClosInv

LEMMA WireCoreClos ==
  ASSUME TopologyInv, TreeInv, ClosInv, WireCore PROVE ClosInv'
<1> DEFINE more == {Link(pod[i + 1], Core(c), ClosLimit) :
                      c \in {(i * 2) % NumCore, (i * 2 + 1) % NumCore}}
<1>1. /\ pc = "wires" /\ i < Len(pod) /\ links' = links \cup more /\ i' = i + 1
      /\ UNCHANGED <<kind, racks, pc, tors, hosts, s, pod>>
  BY DEF WireCore
<1>2. kind = "Clos" BY <1>1 DEF TreeInv, RackInv, TopologyInv, TypeOK
<1>3. /\ \A l \in links : Wire(l)
      /\ \A q \in DOMAIN pod : pod[q] = Switch(q + 2)
      /\ Len(pod) = 2 * NumPods /\ s = Len(pod) + 2
      /\ \A p \in 0..Len(pod) : \A j, x \in 1..2 :
             2 * p + 2 <= Len(pod) => Linked(Tor(2 * p + j), Switch(2 * p + 2 + x))
      /\ \A q \in DOMAIN pod : \A c \in 1..2 : q <= i => Linked(pod[q], Switch(c))
  BY <1>1, <1>2 DEF ClosInv
<1>4. i \in Nat /\ Len(pod) \in Nat /\ DOMAIN pod = 1..Len(pod)
  BY DEF TopologyInv, TypeOK, Built
<1>5. i + 1 \in DOMAIN pod BY <1>1, <1>4
<1>6. /\ \A l \in more : l.from = pod[i + 1] /\ \E c \in 1..2 : l.to = Switch(c)
      /\ \A c \in 1..2 : \E l \in more : l.from = pod[i + 1] /\ l.to = Switch(c)
  <2>1. (i * 2) % 2 = 0 /\ (i * 2 + 1) % 2 = 1 BY <1>4
  <2>2. more = {Link(pod[i + 1], Core(0), ClosLimit), Link(pod[i + 1], Core(1), ClosLimit)}
    BY <2>1 DEF NumCore
  <2>3. Core(0) = Switch(1) /\ Core(1) = Switch(2) BY DEF Core
  <2>4. \A c \in 1..2 : c = 1 \/ c = 2 OBVIOUS
  <2> HIDE DEF more
  <2> QED BY <2>2, <2>3, <2>4, LinkParts
<1> HIDE DEF more
<1>7. ASSUME NEW l \in links' PROVE Wire(l)'
  <2>1. CASE l \in links
    <3>1. Wire(l) BY <1>3, <2>1
    <3> QED BY <1>1, <1>4, <3>1, WireKept
  <2>2. CASE l \in more BY <1>1, <1>5, <1>6, <2>2 DEF Wire
  <2> QED BY <1>1, <2>1, <2>2
<1>8. ASSUME NEW q \in DOMAIN pod, NEW c \in 1..2, q <= i + 1
      PROVE  Linked(pod[q], Switch(c))'
  <2>1. CASE q <= i
    <3>1. Linked(pod[q], Switch(c)) BY <1>3, <2>1
    <3> QED BY <1>1, <3>1 DEF Linked
  <2>2. CASE q = i + 1 BY <1>1, <1>6, <2>2 DEF Linked
  <2> QED BY <1>4, <1>8, <2>1, <2>2
<1>9. ASSUME NEW p \in 0..Len(pod), NEW j \in 1..2, NEW x \in 1..2,
             2 * p + 2 <= Len(pod)
      PROVE  Linked(Tor(2 * p + j), Switch(2 * p + 2 + x))'
  <2>1. Linked(Tor(2 * p + j), Switch(2 * p + 2 + x)) BY <1>3, <1>9
  <2>2. \E l \in links : l.from = Tor(2 * p + j) /\ l.to = Switch(2 * p + 2 + x)
    BY <2>1 DEF Linked
  <2>3. \E l \in links' : l.from = Tor(2 * p + j) /\ l.to = Switch(2 * p + 2 + x)
    BY <1>1, <2>2
  <2> QED BY <2>3 DEF Linked
<1>10. i' <= Len(pod') BY <1>1, <1>4
<1>11. NumPods' = NumPods BY <1>1 DEF NumPods
<1> QED BY <1>1, <1>3, <1>7, <1>8, <1>9, <1>10, <1>11 DEF ClosInv

(* The steps that end a loop of Clos, and those of the tree.                *)
LEMMA LoopEndClos ==
  ASSUME TopologyInv, TreeInv, ClosInv,
         RacksDone \/ AddCore \/ PodsDone \/ ClosDone \/ UNCHANGED vars
  PROVE  ClosInv'
<1> SUFFICES ASSUME kind = "Clos" PROVE ClosInv'
  BY DEF ClosInv, RacksDone, AddCore, PodsDone, ClosDone, vars
<1>1. UNCHANGED <<kind, racks, tors, hosts, links, pod>>
  BY DEF RacksDone, AddCore, PodsDone, ClosDone, vars
<1>2. /\ \A l \in links : Wire(l)
      /\ \A q \in DOMAIN pod : pod[q] = Switch(q + 2)
      /\ pc \in {"racks", "core"} => pod = <<>>
      /\ pc = "pods" => Len(pod) = 2 * i
      /\ pc \in {"wires", "done"} => Len(pod) = 2 * NumPods
      /\ pc \in {"pods", "wires", "done"} => s = Len(pod) + 2
      /\ pc = "wires" => i <= Len(pod)
      /\ \A p \in 0..Len(pod) : \A j, x \in 1..2 :
             2 * p + 2 <= Len(pod) => Linked(Tor(2 * p + j), Switch(2 * p + 2 + x))
      /\ pc \in {"wires", "done"} =>
            \A q \in DOMAIN pod : \A c \in 1..2 :
               pc = "done" \/ q <= i => Linked(pod[q], Switch(c))
  BY DEF ClosInv
<1>3. Len(pod) \in Nat /\ i \in Nat /\ DOMAIN pod = 1..Len(pod) /\ NumPods' = NumPods
  BY <1>1 DEF TopologyInv, TypeOK, Built, NumPods
<1>4. ASSUME NEW l \in links' PROVE Wire(l)'
  <2>1. l \in links /\ Wire(l) BY <1>1, <1>2
  <2>2. /\ Len(pod') = Len(pod) /\ DOMAIN pod' = DOMAIN pod
        /\ \A q \in DOMAIN pod : pod'[q] = pod[q]
    BY <1>1
  <2>3. UNCHANGED racks /\ DOMAIN tors \subseteq DOMAIN tors' BY <1>1
  <2> QED BY <1>3, <2>1, <2>2, <2>3, WireKept
<1>5. \A x, y : Linked(x, y)' <=> Linked(x, y) BY <1>1 DEF Linked
<1>6. /\ pc' \in {"racks", "core"} => pod' = <<>>
      /\ pc' = "pods" => Len(pod') = 2 * i'
      /\ pc' \in {"wires", "done"} => Len(pod') = 2 * NumPods'
      /\ pc' \in {"pods", "wires", "done"} => s' = Len(pod') + 2
      /\ pc' = "wires" => i' <= Len(pod')
  <2>1. CASE RacksDone BY <1>1, <1>2, <2>1 DEF RacksDone
  <2>2. CASE AddCore
    <3>1. pod = <<>> /\ i = 0 /\ Len(pod) = 0
      BY <1>2, <2>2 DEF AddCore, TopologyInv, Built
    <3> QED BY <1>1, <2>2, <3>1 DEF AddCore, NumCore
  <2>3. CASE PodsDone
    <3>1. pc = "pods" /\ i = NumPods /\ i' = 0 /\ pc' = "wires" /\ s' = s
      BY <2>3 DEF PodsDone
    <3> QED BY <1>1, <1>2, <1>3, <3>1
  <2>4. CASE ClosDone BY <1>1, <1>2, <1>3, <2>4 DEF ClosDone
  <2>5. CASE UNCHANGED vars BY <1>1, <1>2, <1>3, <2>5 DEF vars
  <2> QED BY <2>1, <2>2, <2>3, <2>4, <2>5
<1>7. pc' \in {"wires", "done"} =>
         \A q \in DOMAIN pod : \A c \in 1..2 :
            pc' = "done" \/ q <= i' => Linked(pod[q], Switch(c))
  <2>1. CASE RacksDone BY <2>1 DEF RacksDone
  <2>2. CASE AddCore BY <2>2 DEF AddCore
  <2>3. CASE PodsDone BY <1>3, <2>3 DEF PodsDone
  <2>4. CASE ClosDone
    <3>1. pc = "wires" /\ i = Len(pod) BY <2>4 DEF ClosDone
    <3> QED BY <1>2, <1>3, <3>1
  <2>5. CASE UNCHANGED vars BY <1>2, <2>5 DEF vars
  <2> QED BY <2>1, <2>2, <2>3, <2>4, <2>5
<1>8. \A p \in 0..Len(pod) : \A j, x \in 1..2 :
         2 * p + 2 <= Len(pod) => Linked(Tor(2 * p + j), Switch(2 * p + 2 + x))'
  BY <1>2, <1>5
<1>9. \A q \in DOMAIN pod : \A c : Linked(pod[q], Switch(c))' <=> Linked(pod[q], Switch(c))
  BY <1>1 DEF Linked
<1> QED BY <1>1, <1>2, <1>4, <1>6, <1>7, <1>8, <1>9 DEF ClosInv

(* The invariant of Clos: inductive, given those of the racks.              *)
LEMMA ClosInvariant == Spec => [](TopologyInv /\ TreeInv /\ ClosInv)
<1>1. TopologyInv /\ TreeInv /\ (JoinPair \/ NextLayer \/ TreeDone) /\ ClosInv => ClosInv'
  <2>1. TopologyInv /\ TreeInv /\ (JoinPair \/ NextLayer \/ TreeDone) => kind = "FatTree"
    BY DEF TreeInv, RackInv, TopologyInv, TypeOK, JoinPair, NextLayer, TreeDone
  <2>2. JoinPair \/ NextLayer \/ TreeDone => UNCHANGED kind
    BY DEF JoinPair, NextLayer, TreeDone
  <2> QED BY <2>1, <2>2 DEF ClosInv
<1>2. TopologyInv /\ TreeInv /\ ClosInv /\ [Next]_vars => ClosInv'
  BY <1>1, AddRackClos, AddPodClos, WireCoreClos, LoopEndClos DEF Next
<1> QED BY <1>2, InitClos, TreeInvariant, PTL DEF Spec

-----------------------------------------------------------------------------
(* A finished Clos network: the x-th switch of the pod of rack r, and the   *)
(* nodes of a rack.                                                         *)
Over(r, x) == Switch(2 * ((r - 1) \div 2) + 2 + x)

Own(r) == {x \in nodes : x = Tor(r) \/ \E k \in 1..racks[r] : x = Host(r, k)}

ClosBuilt ==
    TopologyInv /\ TreeInv /\ ClosInv /\ pc = "done" /\ kind = "Clos"

LEMMA RackIsWired ==
  ASSUME ClosBuilt, NEW r \in DOMAIN tors, Wired(r), NEW x \in 1..2
  PROVE  /\ Linked(Tor(r), Over(r, x))
         /\ \A c \in 1..2 : Linked(Over(r, x), Switch(c))
<1> DEFINE p == (r - 1) \div 2
<1>1. /\ Len(pod) = 2 * NumPods /\ pod \in Seq(nodes)
      /\ \A n \in DOMAIN pod : pod[n] = Switch(n + 2)
      /\ \A n \in DOMAIN pod : \A c \in 1..2 : Linked(pod[n], Switch(c))
      /\ \A m \in 0..Len(pod) : \A j, y \in 1..2 :
             2 * m + 2 <= Len(pod) => Linked(Tor(2 * m + j), Switch(2 * m + 2 + y))
  BY DEF ClosBuilt, ClosInv, TopologyInv, Built
<1>2. r \in Nat /\ r >= 1 /\ r <= 2 * NumPods /\ NumPods \in Nat
  <2>1. Len(racks) \in Nat /\ tors \in Seq(nodes)
    BY DEF ClosBuilt, TopologyInv, TypeOK, Built
  <2>2. NumPods \in Nat BY <2>1 DEF NumPods, PodSize
  <2> QED BY <2>1, <2>2 DEF Wired, PodSize
<1>3. p \in Nat /\ (r = 2 * p + 1 \/ r = 2 * p + 2) BY <1>2
<1> HIDE DEF p
<1>4. p \in 0..Len(pod) /\ 2 * p + 2 <= Len(pod)
  BY <1>1, <1>2, <1>3
<1>5. Over(r, x) = Switch(2 * p + 2 + x) BY DEF Over, p
<1>6. Linked(Tor(r), Over(r, x))
  <2>1. PICK j \in 1..2 : r = 2 * p + j BY <1>3
  <2>2. Linked(Tor(2 * p + j), Switch(2 * p + 2 + x)) BY <1>1, <1>4, <2>1
  <2> QED BY <1>5, <2>1, <2>2
<1>7. 2 * p + x \in DOMAIN pod /\ (2 * p + x) + 2 = 2 * p + 2 + x
  BY <1>1, <1>3, <1>4
<1>8. pod[2 * p + x] = Over(r, x) BY <1>1, <1>5, <1>7
<1> QED BY <1>1, <1>6, <1>7, <1>8

LEMMA PodsApart ==
  ASSUME NEW r \in Nat \ {0}, NEW x \in 1..2, NEW c \in 1..2
  PROVE  Over(r, 1) # Over(r, 2) /\ Over(r, x) # Switch(c) /\ Switch(1) # Switch(2)
<1> DEFINE p == (r - 1) \div 2
<1>1. p \in Nat OBVIOUS
<1>2. \A y : Over(r, y) = Switch(2 * p + 2 + y) BY DEF Over
<1> HIDE DEF p
<1>3. 2 * p + 2 + 1 # 2 * p + 2 + 2 /\ 2 * p + 2 + x # c BY <1>1
<1> QED BY <1>2, <1>3, NamesApart

(* A link is an edge both ways, a node has one to itself.                   *)
LEMMA LinkIsWays ==
  ASSUME NEW ls, NEW l \in ls
  PROVE  <<l.from, l.to>> \in Ways(ls) /\ <<l.to, l.from>> \in Ways(ls)
BY DEF Ways

LEMMA NodeIsWays ==
  ASSUME NEW ls, NEW x \in nodes PROVE <<x, x>> \in Ways(ls)
BY DEF Ways

LEMMA TwoHops ==
  ASSUME NEW X, NEW E, NEW n \in Nat, NEW a \in After(X, E, n), NEW b, NEW c,
         <<a, b>> \in E, <<b, c>> \in E
  PROVE  c \in After(X, E, n + 2)
<1>1. b \in After(X, E, n + 1) BY AfterHop
<1>2. c \in After(X, E, (n + 1) + 1) BY <1>1, AfterHop
<1>3. (n + 1) + 1 = n + 2 OBVIOUS
<1> QED BY <1>2, <1>3

LEMMA FourHops ==
  ASSUME NEW X, NEW E, NEW n \in Nat, NEW a \in After(X, E, n),
         NEW b, NEW c, NEW d, NEW e,
         <<a, b>> \in E, <<b, c>> \in E, <<c, d>> \in E, <<d, e>> \in E
  PROVE  e \in After(X, E, n + 4)
<1>1. c \in After(X, E, n + 2) BY TwoHops
<1>2. e \in After(X, E, (n + 2) + 2) BY <1>1, TwoHops
<1>3. (n + 2) + 2 = n + 4 OBVIOUS
<1> QED BY <1>2, <1>3

(* Two racks that are wired are four links apart, whatever switch is left   *)
(* out.                                                                     *)
LEMMA RackToRack ==
  ASSUME ClosBuilt, NEW r \in DOMAIN tors, NEW q \in DOMAIN tors, Wired(r), Wired(q),
         NEW x, \A k : x # Tor(k),
         NEW X, NEW n \in Nat,
         Tor(r) \in After(X, Ways({l \in links : x \notin {l.from, l.to}}), n)
  PROVE  Tor(q) \in After(X, Ways({l \in links : x \notin {l.from, l.to}}), n + 4)
<1> DEFINE E == Ways({l \in links : x \notin {l.from, l.to}})
<1>1. \A a, b : Linked(a, b) /\ a # x /\ b # x => <<a, b>> \in E /\ <<b, a>> \in E
  <2> SUFFICES ASSUME NEW a, NEW b, Linked(a, b), a # x, b # x
               PROVE  <<a, b>> \in E /\ <<b, a>> \in E
    OBVIOUS
  <2>1. PICK l \in links : l.from = a /\ l.to = b BY DEF Linked
  <2>2. l \in {m \in links : x \notin {m.from, m.to}} BY <2>1
  <2> QED BY <2>1, <2>2, LinkIsWays
<1>2. r \in Nat \ {0} /\ q \in Nat \ {0}
  <2>1. tors \in Seq(nodes) BY DEF ClosBuilt, TopologyInv, Built
  <2> QED BY <2>1
<1>3. PICK y \in 1..2 : Over(r, y) # x BY <1>2, PodsApart
<1>4. PICK z \in 1..2 : Over(q, z) # x BY <1>2, PodsApart
<1>5. PICK c \in 1..2 : Switch(c) # x
  <2>1. Switch(1) # Switch(2) BY NamesApart
  <2> QED BY <2>1
<1>6. Linked(Tor(r), Over(r, y)) /\ Linked(Over(r, y), Switch(c)) BY RackIsWired
<1>7. Linked(Tor(q), Over(q, z)) /\ Linked(Over(q, z), Switch(c)) BY RackIsWired
<1> HIDE DEF E
<1>8. /\ <<Tor(r), Over(r, y)>> \in E /\ <<Over(r, y), Switch(c)>> \in E
      /\ <<Switch(c), Over(q, z)>> \in E /\ <<Over(q, z), Tor(q)>> \in E
  BY <1>1, <1>3, <1>4, <1>5, <1>6, <1>7
<1>9. Tor(r) \in After(X, E, n) BY DEF E
<1>10. Tor(q) \in After(X, E, n + 4) BY <1>8, <1>9, FourHops
<1> QED BY <1>10 DEF E

LEMMA ClosNodes ==
  ASSUME ClosBuilt, NEW r \in DOMAIN tors, Wired(r)
  PROVE  {Over(r, 1), Over(r, 2), Switch(1), Switch(2), Tor(r)} \subseteq nodes
<1>1. Linked(Tor(r), Over(r, 1)) /\ Linked(Tor(r), Over(r, 2)) BY RackIsWired
<1>2. Linked(Over(r, 1), Switch(1)) /\ Linked(Over(r, 1), Switch(2)) BY RackIsWired
<1>3. \A l \in links : l.from \in nodes /\ l.to \in nodes
  BY DEF ClosBuilt, TopologyInv, TypeOK
<1> QED BY <1>1, <1>2, <1>3 DEF Linked

LEMMA OneMore ==
  ASSUME NEW S, IsFiniteSet(S), NEW n \in Nat, Cardinality(S) >= n, NEW x, x \notin S
  PROVE  IsFiniteSet(S \cup {x}) /\ Cardinality(S \cup {x}) >= n + 1
BY FS_AddElement, FS_CardinalityType

(* A way between two hosts over two pods passes six nodes at least, so the  *)
(* hops that are counted are enough.                                        *)
LEMMA EnoughNodes ==
  ASSUME ClosBuilt, NEW r \in DOMAIN tors, Wired(r)
  PROVE  /\ Cardinality(nodes) \in Nat /\ Cardinality(nodes) >= 4
         /\ \A h \in hosts : Cardinality(nodes) >= 6
<1> DEFINE S2 == {Over(r, 1)} \cup {Over(r, 2)}
           S3 == S2 \cup {Switch(1)}
           S4 == S3 \cup {Switch(2)}
           S5 == S4 \cup {Tor(r)}
<1>1. r \in Nat \ {0}
  <2>1. tors \in Seq(nodes) BY DEF ClosBuilt, TopologyInv, Built
  <2> QED BY <2>1
<1>2. IsFiniteSet({Over(r, 1)}) /\ Cardinality({Over(r, 1)}) >= 1
  <2> DEFINE a == Over(r, 1)
  <2> HIDE DEF a
  <2>1. IsFiniteSet({a}) /\ Cardinality({a}) = 1 BY FS_Singleton
  <2> QED BY <2>1 DEF a
<1>3. IsFiniteSet(S2) /\ Cardinality(S2) >= 2
  <2>1. Over(r, 2) \notin {Over(r, 1)} BY <1>1, PodsApart
  <2> QED BY <1>2, <2>1, OneMore
<1>4. IsFiniteSet(S3) /\ Cardinality(S3) >= 3
  <2>1. Switch(1) \notin S2 BY <1>1, PodsApart
  <2> HIDE DEF S2
  <2> QED BY <1>3, <2>1, OneMore
<1>5. IsFiniteSet(S4) /\ Cardinality(S4) >= 4
  <2>1. Switch(2) \notin S3 BY <1>1, PodsApart
  <2> HIDE DEF S3
  <2> QED BY <1>4, <2>1, OneMore
<1>6. IsFiniteSet(S5) /\ Cardinality(S5) >= 5
  <2>1. Tor(r) \notin S4 BY NamesApart DEF Over
  <2> HIDE DEF S4
  <2> QED BY <1>5, <2>1, OneMore
<1>7. ASSUME NEW h \in hosts
      PROVE  IsFiniteSet(S5 \cup {h}) /\ Cardinality(S5 \cup {h}) >= 6
  <2>1. \E q, k : h = Host(q, k) BY DEF ClosBuilt, TopologyInv, Built
  <2>2. h \notin S5 BY <2>1, NamesApart DEF Over
  <2> HIDE DEF S5
  <2> QED BY <1>6, <2>2, OneMore
<1>8. IsFiniteSet(nodes) BY NodesFinite DEF ClosBuilt, TreeInv
<1>9. S4 \subseteq nodes /\ \A h \in hosts : S5 \cup {h} \subseteq nodes
  BY ClosNodes DEF nodes
<1> HIDE DEF S4, S5
<1>10. Cardinality(nodes) \in Nat /\ Cardinality(S4) \in Nat /\ Cardinality(S4) <= Cardinality(nodes)
  BY <1>5, <1>8, <1>9, FS_Subset, FS_CardinalityType
<1>11. ASSUME NEW h \in hosts PROVE Cardinality(nodes) >= 6
  <2> DEFINE S6 == S5 \cup {h}
  <2>1. IsFiniteSet(S6) /\ Cardinality(S6) >= 6 /\ S6 \subseteq nodes BY <1>7, <1>9
  <2> HIDE DEF S6
  <2>2. Cardinality(S6) \in Nat /\ Cardinality(S6) <= Cardinality(nodes)
    BY <1>8, <2>1, FS_Subset, FS_CardinalityType
  <2> QED BY <1>10, <2>1, <2>2
<1> QED BY <1>5, <1>10, <1>11

(* A Clos network without any one of its switches still connects the racks  *)
(* that it wires, for any number of racks.                                  *)
THEOREM ClosSurvives == Spec => []ClosSurvivesSwitch
<1>1. TopologyInv /\ TreeInv /\ ClosInv => ClosSurvivesSwitch
  <2> SUFFICES ASSUME ClosBuilt, NEW x \in switches,
                      NEW r \in DOMAIN tors, Wired(r), NEW q \in DOMAIN tors, Wired(q)
               PROVE  tors[q] \in Reached(tors[r], {l \in links : x \notin {l.from, l.to}})
    BY DEF ClosSurvivesSwitch, ClosBuilt
  <2> DEFINE E == Ways({l \in links : x \notin {l.from, l.to}})
  <2>1. tors[r] = Tor(r) /\ tors[q] = Tor(q) BY DEF ClosBuilt, TopologyInv, Built
  <2>2. \A k : x # Tor(k) BY NamesApart DEF switches
  <2>3. Tor(r) \in After({Tor(r)}, E, 0) BY AfterIs
  <2>4. Tor(q) \in After({Tor(r)}, E, 0 + 4) BY <2>2, <2>3, RackToRack
  <2>5. <<Tor(q), Tor(q)>> \in E
    <3>1. Tor(q) \in nodes BY <2>1 DEF nodes
    <3> QED BY <3>1, NodeIsWays
  <2>6. Cardinality(nodes) \in Nat /\ Cardinality(nodes) >= 4 BY EnoughNodes
  <2> HIDE DEF E
  <2>7. Tor(q) \in After({Tor(r)}, E, Cardinality(nodes))
    BY <2>4, <2>5, <2>6, AfterKeeps
  <2> QED BY <2>1, <2>7 DEF Reached, E
<1> QED BY <1>1, ClosInvariant, PTL

(* The links of a rack outside every pod stay inside the rack.              *)
LEMMA RackIsCutOff ==
  ASSUME ClosBuilt, NEW r \in DOMAIN tors, ~ Wired(r), NEW l \in links
  PROVE  l.from \in Own(r) <=> l.to \in Own(r)
<1>1. /\ Wire(l) /\ Len(pod) = 2 * NumPods
      /\ \A n \in DOMAIN pod : pod[n] = Switch(n + 2)
      /\ l.from \in nodes /\ l.to \in nodes
  BY DEF ClosBuilt, ClosInv, TopologyInv, TypeOK
<1>2. CASE \E q \in DOMAIN tors : \E h \in 1..racks[q] :
              l.from = Host(q, h) /\ l.to = Tor(q)
  <2>1. PICK q \in DOMAIN tors :
           \E h \in 1..racks[q] : l.from = Host(q, h) /\ l.to = Tor(q)
    BY <1>2
  <2>2. l.from \in Own(r) <=> q = r BY <1>1, <2>1, NamesApart DEF Own
  <2>3. l.to \in Own(r) <=> q = r BY <1>1, <2>1, NamesApart DEF Own
  <2> QED BY <2>2, <2>3
<1>3. CASE \E p \in 0..Len(pod) : \E j, x \in 1..2 :
              2 * p + 2 <= Len(pod) /\ l.from = Tor(2 * p + j) /\ l.to = Switch(2 * p + 2 + x)
  <2>1. PICK p \in 0..Len(pod), j \in 1..2, x \in 1..2 :
           2 * p + 2 <= Len(pod) /\ l.from = Tor(2 * p + j) /\ l.to = Switch(2 * p + 2 + x)
    BY <1>3
  <2>2. Len(pod) \in Nat BY DEF ClosBuilt, TopologyInv, Built
  <2>3. 2 * p + j # r BY <1>1, <2>1, <2>2 DEF Wired, PodSize
  <2>4. l.from \notin Own(r) /\ l.to \notin Own(r) BY <2>1, <2>3, NamesApart DEF Own
  <2> QED BY <2>4
<1>4. CASE \E n \in DOMAIN pod : \E c \in 1..2 : l.from = pod[n] /\ l.to = Switch(c)
  <2>1. \E n : l.from = Switch(n + 2) BY <1>1, <1>4
  <2>2. \E c : l.to = Switch(c) BY <1>4
  <2> QED BY <2>1, <2>2, NamesApart DEF Own
<1> QED BY <1>1, <1>2, <1>3, <1>4 DEF Wire

(* A set that every link stays inside of, or outside of, is not left.       *)
LEMMA NotLeft ==
  ASSUME NEW C, NEW x \in C, \A l \in links : l.from \in C <=> l.to \in C
  PROVE  \A n \in Nat : After({x}, Ways(links), n) \subseteq C
<1> DEFINE E == Ways(links)
<1>1. ASSUME NEW e \in E, e[1] \in C PROVE e[2] \in C
  <2>1. CASE \E l \in links : e = <<l.from, l.to>> BY <1>1, <2>1
  <2>2. CASE \E l \in links : e = <<l.to, l.from>> BY <1>1, <2>2
  <2>3. CASE \E y \in nodes : e = <<y, y>> BY <1>1, <2>3
  <2> QED BY <2>1, <2>2, <2>3 DEF Ways
<1> HIDE DEF E
<1> QED BY <1>1, AfterInside DEF E

(* The host of a rack that no pod has a place for reaches its own rack and  *)
(* nothing else; every other host reaches all the racks that are wired.     *)
THEOREM ClosCuts == Spec => []ClosCutsOddRack
<1>1. TopologyInv /\ TreeInv /\ ClosInv => ClosCutsOddRack
  <2> SUFFICES ASSUME ClosBuilt, NEW h \in hosts
               PROVE  Reached(h, links) \cap hosts =
                         {g \in hosts : g[2] = h[2] \/ (Wired(h[2]) /\ Wired(g[2]))}
    BY DEF ClosCutsOddRack, ClosBuilt
  <2> DEFINE E == Ways(links)
             N == Cardinality(nodes)
  <2>1. ASSUME NEW g \in hosts
        PROVE  \E r \in DOMAIN tors : \E k \in 1..racks[r] :
                 g = Host(r, k) /\ g[2] = r /\ Linked(g, Tor(r)) /\ g \in nodes /\ Tor(r) \in nodes
    <3>1. PICK r \in DOMAIN tors :
             \E k \in 1..racks[r] : g = Host(r, k) /\ Linked(g, Tor(r))
      BY DEF ClosBuilt, TreeInv, RackInv
    <3>2. tors[r] = Tor(r) BY DEF ClosBuilt, TopologyInv, Built
    <3> QED BY <3>1, <3>2 DEF Host, nodes
  <2>2. PICK r \in DOMAIN tors : \E k \in 1..racks[r] :
           h = Host(r, k) /\ h[2] = r /\ Linked(h, Tor(r)) /\ h \in nodes /\ Tor(r) \in nodes
    BY <2>1
  <2>3. \A a, b : Linked(a, b) => <<a, b>> \in E /\ <<b, a>> \in E
    BY LinkIsWays DEF Linked
  <2>4. h \in After({h}, E, 0) BY AfterIs
  <2>5. N \in Nat /\ N >= 2
    <3>1. IsFiniteSet(nodes) BY NodesFinite DEF ClosBuilt, TreeInv
    <3> DEFINE a == Tor(r)
    <3>2. a # h BY <2>2, NamesApart
    <3> HIDE DEF a
    <3>3. IsFiniteSet({h}) /\ Cardinality({h}) = 1 BY FS_Singleton
    <3>4. IsFiniteSet({h} \cup {a}) /\ Cardinality({h} \cup {a}) >= 2
      BY <3>2, <3>3, OneMore
    <3>5. {h} \cup {a} \subseteq nodes BY <2>2 DEF a
    <3>6. Cardinality({h} \cup {a}) <= N BY <3>1, <3>5, FS_Subset
    <3>7. N \in Nat /\ Cardinality({h} \cup {a}) \in Nat
      BY <3>1, <3>4, FS_CardinalityType
    <3> QED BY <3>4, <3>6, <3>7
  <2>6. \A g \in hosts : <<g, g>> \in E BY <2>1, NodeIsWays
  <2> HIDE DEF E, N
  <2>7. ASSUME NEW g \in hosts, g[2] = h[2] PROVE g \in After({h}, E, N)
    <3>1. Linked(g, Tor(r)) BY <2>1, <2>2, <2>7
    <3>2. g \in After({h}, E, 0 + 2) BY <2>2, <2>3, <2>4, <3>1, TwoHops
    <3>3. <<g, g>> \in E /\ g \in After({h}, E, 2) BY <2>6, <3>2
    <3> QED BY <2>5, <3>3, AfterKeeps
  <2>8. ASSUME NEW g \in hosts, Wired(h[2]), Wired(g[2]) PROVE g \in After({h}, E, N)
    <3>1. PICK q \in DOMAIN tors : g[2] = q /\ Linked(g, Tor(q)) BY <2>1
    <3>2. Wired(r) /\ Wired(q) BY <2>2, <2>8, <3>1
    <3>3. Tor(r) \in After({h}, E, 0 + 1) BY <2>2, <2>3, <2>4, AfterHop
    <3> DEFINE x == Switch(0)
               ls == {l \in links : x \notin {l.from, l.to}}
    <3>4. x \notin nodes /\ \A a : x # Tor(a)
      <4>1. 0 \notin 1..s OBVIOUS
      <4> QED BY <4>1, NodeKinds, NamesApart DEF ClosBuilt, TreeInv
    <3>5. ls = links BY <3>4 DEF ClosBuilt, TopologyInv, TypeOK
    <3> HIDE DEF x
    <3>6. Tor(r) \in After({h}, Ways(ls), 1)
      <4> HIDE DEF ls
      <4> QED BY <3>3, <3>5 DEF E
    <3>7. Tor(q) \in After({h}, Ways(ls), 1 + 4) BY <3>2, <3>4, <3>6, RackToRack
    <3>8. Tor(q) \in After({h}, E, 5)
      <4> HIDE DEF ls
      <4> QED BY <3>5, <3>7 DEF E
    <3>9. g \in After({h}, E, 5 + 1) BY <2>3, <3>1, <3>8, AfterHop
    <3>10. N >= 6 BY <2>2, <3>2, EnoughNodes DEF N
    <3>11. <<g, g>> \in E /\ g \in After({h}, E, 6) BY <2>6, <3>9
    <3> QED BY <2>5, <3>10, <3>11, AfterKeeps
  <2>9. ASSUME NEW g \in hosts, g \in After({h}, E, N)
        PROVE  g[2] = h[2] \/ (Wired(h[2]) /\ Wired(g[2]))
    <3>1. PICK q \in DOMAIN tors : \E m \in 1..racks[q] :
             g = Host(q, m) /\ g[2] = q /\ g \in nodes
      BY <2>1
    <3>2. CASE ~ Wired(r)
      <4>1. h \in Own(r) BY <2>2 DEF Own
      <4>2. After({h}, E, N) \subseteq Own(r)
        BY <2>5, <3>2, <4>1, RackIsCutOff, NotLeft DEF E
      <4>3. g \in Own(r) BY <2>9, <4>2
      <4> QED BY <2>2, <3>1, <4>3, NamesApart DEF Own
    <3>3. CASE ~ Wired(q) /\ q # r
      <4> DEFINE C == nodes \ Own(q)
      <4>1. h \in C BY <2>2, <3>3, NamesApart DEF Own
      <4>2. \A l \in links : l.from \in C <=> l.to \in C
        <5>1. \A l \in links : l.from \in nodes /\ l.to \in nodes
          BY DEF ClosBuilt, TopologyInv, TypeOK
        <5> QED BY <3>3, <5>1, RackIsCutOff
      <4> HIDE DEF C
      <4>3. After({h}, E, N) \subseteq C BY <2>5, <4>1, <4>2, NotLeft DEF E
      <4>4. g \in C BY <2>9, <4>3
      <4> QED BY <3>1, <4>4 DEF C, Own
    <3> QED BY <2>2, <3>1, <3>2, <3>3
  <2> QED BY <2>7, <2>8, <2>9 DEF Reached, E, N
<1> QED BY <1>1, ClosInvariant, PTL
=============================================================================
