------------------------- MODULE NMSimulator_proofs -------------------------
(***************************************************************************)
(* Proofs about one node manager and the threads that add containers to    *)
(* it, for any tasks and transmissions, any times and any kills:           *)
(*   - it asks of the network emulator what TransmissionService lets its   *)
(*     clients ask (FetchInv);                                             *)
(*   - its state is well typed, the iterators stay inside the lists and    *)
(*     the delay queue has no more entries than it is written out for      *)
(*     (NodeInv);                                                          *)
(*   - a container is reported once, and none is lost between the lists    *)
(*     (BookInv);                                                          *)
(*   - none is reported before its work time has passed (TimeInv).         *)
(***************************************************************************)
EXTENDS NMSimulator, FiniteSetTheorems, FunctionTheorems, SequenceTheorems,
        WellFoundedInduction, TLAPS

(***************************************************************************)
(* What the node asks of the emulator                                      *)
(***************************************************************************)
(* What a thread has to fetch is the input of its own task and was never    *)
(* sent.  A transmission that was over would otherwise be sent again when   *)
(* the task is launched a second time.                                      *)
FetchInv ==
    /\ todo \in [Tasks -> SUBSET Transfers]
    /\ \A t \in Tasks : todo[t] \subseteq TransfersOf[t]
    /\ \A t \in Tasks : \A x \in todo[t] : stage[x] = "unsent"
    /\ stage \in [Transfers -> {"unsent", "sent", "over"}]
    /\ DOMAIN result = Transfers /\ DOMAIN reports = Transfers

clientVars == <<todo, stage, result, reports>>

LEMMA InitFetch == ASSUME Init PROVE FetchInv
BY DEF Init, FetchInv

LEMMA FetchStutter ==
  ASSUME FetchInv, UNCHANGED clientVars PROVE FetchInv' /\ UNCHANGED Service!vars
BY DEF FetchInv, clientVars, Service!vars

(* Launches, fetches only transmissions that were not sent.                 *)
LEMMA PutRunningStep ==
  ASSUME FetchInv, NEW t \in Tasks, PutRunning(t)
  PROVE  FetchInv' /\ UNCHANGED Service!vars
<1>1. PICK needed \in Input(t) : todo' = [todo EXCEPT ![t] = needed]
  BY DEF PutRunning
<1>2. needed \subseteq TransfersOf[t] /\ \A x \in needed : stage[x] = "unsent"
  BY DEF Input
<1>3. TransfersOf[t] \subseteq Transfers BY TransferAssumption
<1>4. UNCHANGED <<stage, result, reports>> BY DEF PutRunning, emulatorVars
<1>5. todo' \in [Tasks -> SUBSET Transfers] BY <1>1, <1>2, <1>3 DEF FetchInv
<1>6. \A u \in Tasks : /\ todo'[u] \subseteq TransfersOf[u]
                       /\ \A x \in todo'[u] : stage[x] = "unsent"
  BY <1>1, <1>2 DEF FetchInv
<1> QED BY <1>4, <1>5, <1>6 DEF FetchInv, Service!vars

(* The RPC, whether it returns or throws: no other thread has the same      *)
(* transmission to send.                                                    *)
LEMMA TransmitStep ==
  ASSUME FetchInv, NEW t \in Tasks, NEW x \in Transfers,
         Transmit(t, x) \/ TransmitFails(t, x)
  PROVE  FetchInv' /\ Service!Next
<1> USE DEF FetchInv
<1>1. /\ x \in todo[t] /\ stage[x] = "unsent"
      /\ todo' = [todo EXCEPT ![t] = @ \ {x}]
      /\ \/ stage' = [stage EXCEPT ![x] = "sent"]
         \/ stage' = stage
      /\ UNCHANGED <<result, reports>>
  BY DEF Transmit, TransmitFails
<1>2. \A u \in Tasks : x \notin todo'[u]
  BY <1>1, TransferAssumption
<1>3. \A u \in Tasks : todo'[u] \subseteq todo[u] BY <1>1
<1>4. \A y \in Transfers : y # x => stage'[y] = stage[y] BY <1>1
<1>5. FetchInv'
  <2>1. \A u \in Tasks : \A y \in todo'[u] : stage'[y] = "unsent"
    BY <1>2, <1>3, <1>4
  <2> QED BY <1>1, <1>3, <2>1
<1>6. Service!Next
  <2>1. \A y \in Transfers : Service!Send(y) \/ Service!Stay(y)
    BY <1>1 DEF Service!Send, Service!Stay
  <2> QED BY <2>1 DEF Service!Next
<1> QED BY <1>5, <1>6

LEMMA EndsStep ==
  ASSUME FetchInv, NEW x \in Transfers, NEW o \in Outcomes, TransferEnds(x, o)
  PROVE  FetchInv' /\ Service!Next
<1> USE DEF FetchInv
<1>1. /\ stage[x] = "sent"
      /\ stage' = [stage EXCEPT ![x] = "over"]
      /\ result' = [result EXCEPT ![x] = o]
      /\ UNCHANGED <<todo, reports>>
  BY DEF TransferEnds, callVars
<1>2. FetchInv' BY <1>1
<1>3. \A y \in Transfers : Service!Finish(y) \/ Service!Stay(y)
  BY <1>1 DEF Service!Finish, Service!Stay
<1> QED BY <1>2, <1>3 DEF Service!Next

LEMMA PublishStep ==
  ASSUME FetchInv, NEW x \in Transfers, Publish(x)
  PROVE  FetchInv' /\ Service!Next
<1> USE DEF FetchInv
<1>1. /\ stage[x] = "over" /\ reports[x] = <<>>
      /\ reports' = [reports EXCEPT ![x] = <<result[x]>>]
      /\ UNCHANGED <<todo, stage, result>>
  BY DEF Publish, callVars
<1>2. FetchInv' BY <1>1
<1>3. \A y \in Transfers : Service!Report(y) \/ Service!Stay(y)
  BY <1>1 DEF Service!Report, Service!Stay
<1> QED BY <1>2, <1>3 DEF Service!Next

(* Every other step leaves the emulator and the list of what is to be       *)
(* fetched alone.                                                           *)
LEMMA OtherSteps ==
  ASSUME \/ \E t \in Tasks : \/ AddWaiting(t) \/ AddQueue(t)
                             \/ AddTransmission(t) \/ SetDeadline(t)
         \/ \E a \in AMs : AddAM(a) \/ RemoveAM(a) \/ CompleteAM(a)
         \/ NMStep
         \/ \E c \in Containers : Kill(c)
         \/ Tick
         \/ UNCHANGED vars
  PROVE  UNCHANGED clientVars
<1> USE DEF clientVars, callVars, emulatorVars
<1>1. CASE \E t \in Tasks : \/ AddWaiting(t) \/ AddQueue(t)
                            \/ AddTransmission(t) \/ SetDeadline(t)
  BY <1>1 DEF AddWaiting, AddQueue, AddTransmission, SetDeadline
<1>2. CASE \E a \in AMs : AddAM(a) \/ RemoveAM(a) \/ CompleteAM(a)
  BY <1>2 DEF AddAM, RemoveAM, CompleteAM
<1>3. CASE NMStep
  <2>1. CASE \E x \in inbox : Receive(x) BY <2>1 DEF Receive
  <2>2. CASE NextThrows("notify") \/ NextThrows("scan") BY <2>2 DEF NextThrows
  <2>3. CASE Notify \/ Notified \/ ReceivedAll
    BY <2>3 DEF Notify, Notified, ReceivedAll
  <2>4. CASE Scan \/ RemoveDone BY <2>4 DEF Scan, RemoveDone
  <2>5. CASE Poll \/ Polled \/ Beat BY <2>5 DEF Poll, Polled, Beat
  <2>6. CASE \E c \in commands : ReleaseAM(c) \/ Release(c)
    BY <2>6 DEF ReleaseAM, Release
  <2> QED BY <1>3, <2>1, <2>2, <2>3, <2>4, <2>5, <2>6 DEF NMStep
<1>4. CASE \E c \in Containers : Kill(c) BY <1>4 DEF Kill
<1>5. CASE Tick BY <1>5 DEF Tick
<1>6. CASE UNCHANGED vars BY <1>6 DEF vars
<1> QED BY <1>1, <1>2, <1>3, <1>4, <1>5, <1>6

LEMMA FetchStep ==
  ASSUME FetchInv, [Next]_vars
  PROVE  FetchInv' /\ [Service!Next]_(Service!vars)
<1>1. CASE \E t \in Tasks : PutRunning(t) BY <1>1, PutRunningStep
<1>2. CASE \E t \in Tasks : \E x \in Transfers : Transmit(t, x) \/ TransmitFails(t, x)
  BY <1>2, TransmitStep
<1>3. CASE EmulatorStep BY <1>3, EndsStep, PublishStep DEF EmulatorStep
<1>4. CASE ~ \/ \E t \in Tasks : PutRunning(t)
             \/ \E t \in Tasks : \E x \in Transfers : Transmit(t, x) \/ TransmitFails(t, x)
             \/ EmulatorStep
  <2>1. UNCHANGED clientVars BY <1>4, OtherSteps DEF Next, LaunchStep
  <2> QED BY <2>1, FetchStutter
<1> QED BY <1>1, <1>2, <1>3, <1>4

(* A node uses the emulator as its specification says: a transmission is    *)
(* sent at most once, also when its task is launched again or the RPC       *)
(* refuses it, whatever kills, failures and exceptions come in between.     *)
THEOREM UsesTheService == Spec => UsesService
<1>1. Init => Service!Init
  BY DEF Init, Service!Init
<1> QED BY <1>1, InitFetch, FetchStep, PTL DEF Spec, UsesService, Service!Spec

(***************************************************************************)
(* Copies in a sequence                                                    *)
(***************************************************************************)
LEMMA CopiesType ==
  ASSUME NEW T, NEW s \in Seq(T), NEW c
  PROVE  /\ IsFiniteSet({i \in DOMAIN s : s[i] = c})
         /\ Copies(c, s) \in Nat
         /\ Copies(c, s) = 0 <=> c \notin Members(s)
<1> DEFINE P == {i \in DOMAIN s : s[i] = c}
<1>1. DOMAIN s = 1..Len(s) /\ Len(s) \in Nat OBVIOUS
<1>2. IsFiniteSet(P)
  <2>1. P \in SUBSET (1..Len(s)) /\ IsFiniteSet(1..Len(s)) BY <1>1, FS_Interval
  <2> HIDE DEF P
  <2> QED BY <2>1, FS_Subset
<1>3. Cardinality(P) \in Nat BY <1>2, FS_CardinalityType
<1>4. Cardinality(P) = 0 <=> P = {} BY <1>2, FS_EmptySet
<1>5. P = {} <=> c \notin Members(s) BY DEF Members
<1> QED BY <1>2, <1>3, <1>4, <1>5 DEF Copies

LEMMA CopiesOne ==
  ASSUME NEW c, NEW e
  PROVE  Copies(c, <<>>) = 0 /\ Copies(c, <<e>>) = IF e = c THEN 1 ELSE 0
<1>1. {i \in DOMAIN <<>> : <<>>[i] = c} = {} OBVIOUS
<1>2. {i \in DOMAIN <<e>> : <<e>>[i] = c} = IF e = c THEN {1} ELSE {} OBVIOUS
<1> QED BY <1>1, <1>2, FS_EmptySet, FS_Singleton DEF Copies

(* The copies in the second of two sequences are found behind the first.    *)
LEMMA CopiesConcat ==
  ASSUME NEW T, NEW s \in Seq(T), NEW r \in Seq(T), NEW c
  PROVE  Copies(c, s \o r) = Copies(c, s) + Copies(c, r)
<1> DEFINE P == {i \in DOMAIN s : s[i] = c}
           R == {i \in DOMAIN r : r[i] = c}
           B == {i \in DOMAIN (s \o r) : (s \o r)[i] = c}
           m == Len(s)
           Q == {i \in B : i > m}
           f == [i \in R |-> i + m]
<1>1. /\ m \in Nat /\ Len(r) \in Nat
      /\ DOMAIN s = 1..m /\ DOMAIN r = 1..Len(r)
      /\ DOMAIN (s \o r) = 1..m + Len(r)
      /\ \A i \in 1..m : (s \o r)[i] = s[i]
      /\ \A i \in 1..Len(r) : (s \o r)[i + m] = r[i]
  OBVIOUS
<1> HIDE DEF m
<1>2. IsFiniteSet(P) /\ IsFiniteSet(R) BY CopiesType
<1>3. f \in Bijection(R, Q)
  <2>1. \A i \in R : i + m \in Q /\ i \in Int BY <1>1
  <2>2. f \in [R -> Q] BY <2>1
  <2>3. \A i, j \in R : f[i] = f[j] => i = j BY <1>1, <2>1
  <2>4. \A q \in Q : q - m \in R /\ f[q - m] = q
    <3> SUFFICES ASSUME NEW q \in Q PROVE q - m \in R /\ f[q - m] = q OBVIOUS
    <3>1. q \in 1..m + Len(r) /\ q > m /\ (s \o r)[q] = c BY <1>1
    <3>2. q - m \in 1..Len(r) /\ (q - m) + m = q BY <1>1, <3>1
    <3>3. r[q - m] = c BY <1>1, <3>1, <3>2
    <3> QED BY <1>1, <3>2, <3>3
  <2>5. \A q \in Q : \E i \in R : f[i] = q BY <2>4
  <2> HIDE DEF f, Q, R
  <2> QED BY <2>2, <2>3, <2>5, Fun_IsBij
<1>4. IsFiniteSet(Q) /\ Cardinality(Q) = Cardinality(R)
  <2> HIDE DEF f, Q, R
  <2> QED BY <1>2, <1>3, FS_Bijection DEF ExistsBijection
<1>5. B = P \cup Q /\ P \cap Q = {} BY <1>1
<1>6. Cardinality(P) \in Nat /\ Cardinality(Q) \in Nat
  BY <1>2, <1>4, FS_CardinalityType
<1>7. Cardinality(B) = Cardinality(P) + Cardinality(Q)
  <2> HIDE DEF B, P, Q
  <2>1. Cardinality(P \cup Q) = Cardinality(P) + Cardinality(Q) - Cardinality(P \cap Q)
    BY <1>2, <1>4, FS_Union
  <2>2. Cardinality(P \cap Q) = 0 BY <1>5, FS_EmptySet
  <2> QED BY <1>5, <1>6, <2>1, <2>2
<1> QED BY <1>4, <1>7 DEF Copies

LEMMA CopiesAppend ==
  ASSUME NEW T, NEW s \in Seq(T), NEW e \in T, NEW c
  PROVE  Copies(c, Append(s, e)) = Copies(c, s) + IF e = c THEN 1 ELSE 0
<1>1. Append(s, e) = s \o <<e>> /\ <<e>> \in Seq(T) OBVIOUS
<1>2. Copies(c, s \o <<e>>) = Copies(c, s) + Copies(c, <<e>>) BY <1>1, CopiesConcat
<1> QED BY <1>1, <1>2, CopiesOne

LEMMA CopiesSame ==
  ASSUME NEW e, NEW s \in Seq({e})
  PROVE  \A c : Copies(c, s) = IF e = c THEN Len(s) ELSE 0
<1>1. DOMAIN s = 1..Len(s) /\ Len(s) \in Nat /\ \A i \in 1..Len(s) : s[i] = e
  OBVIOUS
<1>2. \A c : {i \in DOMAIN s : s[i] = c} = IF e = c THEN 1..Len(s) ELSE {}
  BY <1>1
<1>3. Cardinality(1..Len(s)) = Len(s)
  <2> DEFINE n == Len(s)
  <2>1. n \in Nat BY <1>1
  <2> HIDE DEF n
  <2>2. Cardinality(1..n) = n BY <2>1, FS_Interval
  <2> QED BY <2>2 DEF n
<1> QED BY <1>2, <1>3, FS_EmptySet DEF Copies

(***************************************************************************)
(* The lists of the node                                                   *)
(***************************************************************************)
LEMMA NatMin ==
  ASSUME NEW N \in SUBSET Nat, N # {}
  PROVE  \E n \in N : \A m \in N : n <= m
<1> DEFINE R == {x \in Nat \X Nat : x[1] < x[2]}
<1>1. IsWellFoundedOn(R, Nat) BY NatLessThanWellFounded DEF OpToRel
<1>2. \A m, n \in Nat : m < n => <<m, n>> \in R OBVIOUS
<1>3. \E n \in N : \A m \in N : ~(<<m, n>> \in R)
  <2> HIDE DEF R
  <2> QED BY <1>1, WFMin
<1> HIDE DEF R
<1>4. PICK n \in N : \A m \in N : ~(<<m, n>> \in R) BY <1>3
<1>5. \A m \in N : ~(m < n) BY <1>2, <1>4
<1> QED BY <1>5

(* What stays of a list is numbered in its order.                           *)
LEMMA WithoutType ==
  ASSUME NEW T, NEW s \in Seq(T), NEW gone
  PROVE  /\ Without(s, gone) \in Seq(T)
         /\ Members(Without(s, gone)) \subseteq Members(s)
<1> DEFINE K == {i \in DOMAIN s : s[i] \notin gone}
           n == Cardinality(K)
           f == [i \in K |-> Cardinality(K \cap (1..i))]
           Pick(k) == CHOOSE i \in K : Cardinality(K \cap (1..i)) = k
<1>1. DOMAIN s = 1..Len(s) /\ Len(s) \in Nat OBVIOUS
<1>2. IsFiniteSet(K)
  <2>1. K \in SUBSET (1..Len(s)) /\ IsFiniteSet(1..Len(s)) BY <1>1, FS_Interval
  <2> HIDE DEF K
  <2> QED BY <2>1, FS_Subset
<1>3. n \in Nat BY <1>2, FS_CardinalityType
<1>4. \A i \in K : i \in Nat /\ i \in 1..i BY <1>1
<1> HIDE DEF K
<1>5. f \in Injection(K, 1..n)
  <2>1. ASSUME NEW i \in K PROVE f[i] \in 1..n
    <3> DEFINE I == K \cap (1..i)
    <3>1. IsFiniteSet(I) /\ Cardinality(I) <= n BY <1>2, FS_Subset
    <3>2. Cardinality(I) \in Nat BY <3>1, FS_CardinalityType
    <3>3. i \in I BY <1>4
    <3>4. Cardinality(I) # 0 BY <3>1, <3>3, FS_EmptySet
    <3> QED BY <1>3, <3>1, <3>2, <3>4
  <2>2. ASSUME NEW i \in K, NEW j \in K, i < j PROVE f[i] # f[j]
    <3> DEFINE I == K \cap (1..i)
               J == K \cap (1..j)
    <3>1. IsFiniteSet(J) BY <1>2, FS_Subset
    <3>2. I \in SUBSET J /\ j \in J /\ j \notin I BY <1>4, <2>2
    <3>3. Cardinality(I) # Cardinality(J)
      <4> HIDE DEF I, J
      <4> QED BY <3>1, <3>2, FS_Subset
    <3> QED BY <3>3
  <2>3. f \in [K -> 1..n]
    <3> HIDE DEF n
    <3> QED BY <2>1
  <2>4. \A i, j \in K : f[i] = f[j] => i = j
    <3>1. \A i, j \in K : i < j \/ j < i \/ i = j BY <1>4
    <3> HIDE DEF f
    <3> QED BY <2>2, <3>1
  <2> HIDE DEF f, n
  <2> QED BY <2>3, <2>4, Fun_IsInj
<1>6. IsFiniteSet(1..n) /\ Cardinality(1..n) = n BY <1>3, FS_Interval
<1>7. f \in Surjection(K, 1..n)
  <2> HIDE DEF f
  <2> QED BY <1>5, <1>6, FS_Injection
<1>8. \A k \in 1..n : Pick(k) \in K
  <2>1. \A k \in 1..n : \E i \in K : f[i] = k
    <3> HIDE DEF f, n
    <3> QED BY <1>7 DEF Surjection
  <2> QED BY <2>1
<1>9. \A k \in 1..n : s[Pick(k)] \in T /\ s[Pick(k)] \in Members(s)
  <2>1. \A i \in K : i \in DOMAIN s BY DEF K
  <2> HIDE DEF Pick, n
  <2> QED BY <1>1, <1>8, <2>1 DEF Members
<1>10. Without(s, gone) = [k \in 1..n |-> s[Pick(k)]] BY DEF Without, K
<1> HIDE DEF Pick, n
<1>11. [k \in 1..n |-> s[Pick(k)]] \in Seq(T) BY <1>3, <1>9
<1> QED BY <1>9, <1>10, <1>11 DEF Members

LEMMA ConcatMembers ==
  ASSUME NEW T, NEW s \in Seq(T), NEW r \in Seq(T)
  PROVE  s \o r \in Seq(T) /\ Members(s \o r) = Members(s) \cup Members(r)
<1>1. /\ DOMAIN s = 1..Len(s) /\ DOMAIN r = 1..Len(r)
      /\ DOMAIN (s \o r) = 1..Len(s) + Len(r)
      /\ \A i \in 1..Len(s) : (s \o r)[i] = s[i]
      /\ \A i \in 1..Len(r) : (s \o r)[i + Len(s)] = r[i]
      /\ Len(s) \in Nat /\ Len(r) \in Nat
  OBVIOUS
<1>2. \A i \in 1..Len(s) + Len(r) : i \in 1..Len(s) \/ i - Len(s) \in 1..Len(r)
  BY <1>1
<1>3. \A i \in 1..Len(r) : i + Len(s) \in 1..Len(s) + Len(r) BY <1>1
<1>4. \A i \in 1..Len(s) : i \in 1..Len(s) + Len(r) BY <1>1
<1>5. Members(s \o r) \subseteq Members(s) \cup Members(r)
  <2> SUFFICES ASSUME NEW i \in DOMAIN (s \o r)
               PROVE  (s \o r)[i] \in Members(s) \cup Members(r)
    BY DEF Members
  <2>1. CASE i \in 1..Len(s) BY <1>1, <2>1 DEF Members
  <2>2. CASE i - Len(s) \in 1..Len(r)
    <3>1. (i - Len(s)) + Len(s) = i BY <1>1
    <3>2. (s \o r)[i] = r[i - Len(s)] BY <1>1, <2>2, <3>1
    <3> QED BY <1>1, <2>2, <3>2 DEF Members
  <2> QED BY <1>1, <1>2, <2>1, <2>2
<1>6. Members(s) \cup Members(r) \subseteq Members(s \o r)
  BY <1>1, <1>3, <1>4 DEF Members
<1> QED BY <1>5, <1>6

LEMMA FirstRemoved ==
  ASSUME NEW T, NEW s \in Seq(T), NEW e
  PROVE  /\ S!RemoveFirst(s, e) \in Seq(T)
         /\ Members(S!RemoveFirst(s, e)) \subseteq Members(s)
<1> DEFINE I == {i \in 1..Len(s) : s[i] = e}
<1>1. CASE I = {}
  <2>1. S!RemoveFirst(s, e) = s BY <1>1 DEF S!RemoveFirst
  <2> QED BY <2>1
<1>2. CASE I # {}
  <2> DEFINE k == S!Min(I)
  <2>1. k \in I
    <3>1. I \in SUBSET Nat OBVIOUS
    <3>2. \E n \in I : \A m \in I : n <= m BY <1>2, <3>1, NatMin
    <3> QED BY <3>2 DEF S!Min
  <2>2. S!RemoveFirst(s, e) = SubSeq(s, 1, k - 1) \o SubSeq(s, k + 1, Len(s))
    BY <1>2 DEF S!RemoveFirst, S!RemoveAt, S!SelectInSeq
  <2>3. k \in 1..Len(s) BY <2>1
  <2> HIDE DEF k
  <2>4. /\ SubSeq(s, 1, k - 1) \in Seq(T)
        /\ Members(SubSeq(s, 1, k - 1)) \subseteq Members(s)
    BY <2>3 DEF Members
  <2>5. /\ SubSeq(s, k + 1, Len(s)) \in Seq(T)
        /\ Members(SubSeq(s, k + 1, Len(s))) \subseteq Members(s)
    BY <2>3 DEF Members
  <2> DEFINE a == SubSeq(s, 1, k - 1)
             b == SubSeq(s, k + 1, Len(s))
  <2>6. a \o b \in Seq(T) /\ Members(a \o b) = Members(a) \cup Members(b)
    <3> HIDE DEF a, b
    <3>1. a \in Seq(T) /\ b \in Seq(T) BY <2>4, <2>5 DEF a, b
    <3> QED BY <3>1, ConcatMembers
  <2> QED BY <2>2, <2>4, <2>5, <2>6
<1> QED BY <1>1, <1>2

(* A task joins the queue, whether it takes the first place or the last.    *)
LEMMA AddCopies ==
  ASSUME NEW T, NEW q \in Seq(T), NEW t \in T
  PROVE  /\ Add(q, t) \in Seq(T)
         /\ \A u : Copies(u, Add(q, t)) = Copies(u, q) + IF t = u THEN 1 ELSE 0
<1>1. CASE q # <<>> /\ Sooner(t, q[1])
  <2> DEFINE r == <<t>> \o Tail(q)
  <2>1. /\ q[1] \in T /\ Tail(q) \in Seq(T) /\ <<q[1]>> \in Seq(T) /\ <<t>> \in Seq(T)
        /\ q = <<q[1]>> \o Tail(q)
    BY <1>1
  <2>2. r \in Seq(T) /\ Append(r, q[1]) \in Seq(T) BY <2>1
  <2>3. Add(q, t) = Append(r, q[1])
    <3>1. Add(q, t) = [Append(q, q[1]) EXCEPT ![1] = t] BY <1>1 DEF Add
    <3> DEFINE e == Append(q, q[1])
               w == [e EXCEPT ![1] = t]
               v == Append(r, q[1])
    <3>2. /\ e \in Seq(T) /\ 1 \in 1..Len(e) /\ Len(e) = Len(q) + 1
          /\ \A i \in 1..Len(q) : e[i] = q[i]
          /\ e[Len(q) + 1] = q[1]
      BY <1>1, <2>1
    <3>3. /\ v \in Seq(T) /\ Len(v) = Len(q) + 1 /\ Len(q) \in Nat \ {0}
          /\ v[1] = t /\ v[Len(q) + 1] = q[1]
          /\ \A i \in 2..Len(q) : v[i] = q[i]
      BY <1>1, <2>1, <2>2
    <3> HIDE DEF e, v
    <3>4. /\ w \in Seq(T) /\ Len(w) = Len(e)
          /\ \A j \in 1..Len(e) : w[j] = IF j = 1 THEN t ELSE e[j]
      BY <3>2, ExceptSeq
    <3> HIDE DEF w
    <3>5. \A i \in 1..Len(w) : w[i] = v[i] BY <3>2, <3>3, <3>4
    <3>6. w = v BY <3>2, <3>3, <3>4, <3>5, SeqEqual
    <3> QED BY <3>1, <3>6 DEF w, v, e
  <2>4. \A u : Copies(u, r) = Copies(u, <<t>>) + Copies(u, Tail(q))
    BY <2>1, CopiesConcat
  <2>5. \A u : Copies(u, q) = Copies(u, <<q[1]>>) + Copies(u, Tail(q))
    BY <2>1, CopiesConcat
  <2>6. \A u : Copies(u, Tail(q)) \in Nat BY <2>1, CopiesType
  <2> HIDE DEF r
  <2>7. \A u : Copies(u, Append(r, q[1])) = Copies(u, r) + IF q[1] = u THEN 1 ELSE 0
    BY <2>1, <2>2, CopiesAppend
  <2>8. \A u : /\ Copies(u, <<t>>) = IF t = u THEN 1 ELSE 0
               /\ Copies(u, <<q[1]>>) = IF q[1] = u THEN 1 ELSE 0
    BY CopiesOne
  <2> QED BY <2>2, <2>3, <2>4, <2>5, <2>6, <2>7, <2>8
<1>2. CASE ~(q # <<>> /\ Sooner(t, q[1]))
  <2>1. Add(q, t) = Append(q, t) BY <1>2 DEF Add
  <2> QED BY <2>1, CopiesAppend
<1> QED BY <1>1, <1>2

LEMMA TailCopies ==
  ASSUME NEW T, NEW q \in Seq(T), q # <<>>
  PROVE  /\ Tail(q) \in Seq(T)
         /\ \A u : Copies(u, Tail(q)) = Copies(u, q) - IF q[1] = u THEN 1 ELSE 0
<1>1. /\ Tail(q) \in Seq(T) /\ <<q[1]>> \in Seq(T)
      /\ q = <<q[1]>> \o Tail(q)
  OBVIOUS
<1>2. \A u : Copies(u, q) = Copies(u, <<q[1]>>) + Copies(u, Tail(q))
  BY <1>1, CopiesConcat
<1>3. \A u : Copies(u, Tail(q)) \in Nat BY <1>1, CopiesType
<1>4. \A u : Copies(u, <<q[1]>>) = IF q[1] = u THEN 1 ELSE 0 BY CopiesOne
<1> QED BY <1>1, <1>2, <1>3, <1>4

LEMMA PairCopies ==
  ASSUME NEW T, NEW x \in T, NEW y \in T
  PROVE  /\ <<x, y>> \in Seq(T)
         /\ \A u : Copies(u, <<x, y>>) = (IF x = u THEN 1 ELSE 0) + (IF y = u THEN 1 ELSE 0)
<1>1. <<x, y>> = Append(<<x>>, y) /\ <<x>> \in Seq(T) OBVIOUS
<1>2. \A u : Copies(u, Append(<<x>>, y)) = Copies(u, <<x>>) + IF y = u THEN 1 ELSE 0
  BY <1>1, CopiesAppend
<1>3. \A u : Copies(u, <<x>>) = IF x = u THEN 1 ELSE 0 BY CopiesOne
<1>4. <<x, y>> \in Seq(T) OBVIOUS
<1> QED BY <1>1, <1>2, <1>3, <1>4

LEMMA UpToThree ==
  ASSUME NEW T, NEW q \in Seq(T), Len(q) <= 3
  PROVE  Len(q) \in 0..3 /\ (Len(q) <= 2 \/ Len(q) = 3)
<1> DEFINE n == Len(q)
<1>1. n \in Nat /\ n <= 3 OBVIOUS
<1> HIDE DEF n
<1>2. n \in 0..3 /\ (n <= 2 \/ n = 3) BY <1>1
<1> QED BY <1>2 DEF n

LEMMA Triple ==
  ASSUME NEW T, NEW q \in Seq(T), Len(q) = 3
  PROVE  /\ q[1] \in T /\ q[2] \in T /\ q[3] \in T
         /\ q = <<q[1], q[2], q[3]>> /\ Tail(q) = <<q[2], q[3]>>
<1>1. \A i \in 1..3 : q[i] \in T OBVIOUS
<1>2. 1 \in 1..3 /\ 2 \in 1..3 /\ 3 \in 1..3 OBVIOUS
<1>3. q = <<q[1], q[2], q[3]>> OBVIOUS
<1>4. Tail(<<q[1], q[2], q[3]>>) = <<q[2], q[3]>> OBVIOUS
<1> QED BY <1>1, <1>2, <1>3, <1>4

(* The first leaves the queue, and the rest stay in it.                     *)
LEMMA RemoveFirstCopies ==
  ASSUME NEW T, NEW q \in Seq(T), q # <<>>, Len(q) <= 3
  PROVE  /\ RemoveFirst(q) \in Seq(T)
         /\ \A u : Copies(u, RemoveFirst(q)) = Copies(u, q) - IF q[1] = u THEN 1 ELSE 0
<1>1. CASE Len(q) <= 2
  <2>1. RemoveFirst(q) = Tail(q) BY <1>1 DEF RemoveFirst
  <2> QED BY <2>1, TailCopies
<1>2. CASE Len(q) = 3
  <2>1. /\ q[2] \in T /\ q[3] \in T
        /\ Tail(q) = <<q[2], q[3]>>
    BY <1>2, Triple
  <2>2. RemoveFirst(q) \in {<<q[2], q[3]>>, <<q[3], q[2]>>} BY <1>2 DEF RemoveFirst
  <2>3. \A u : Copies(u, <<q[2], q[3]>>) = Copies(u, <<q[3], q[2]>>)
    BY <2>1, PairCopies
  <2>4. \A u : Copies(u, RemoveFirst(q)) = Copies(u, Tail(q)) BY <2>1, <2>2, <2>3
  <2>5. RemoveFirst(q) \in Seq(T) BY <2>1, <2>2, PairCopies
  <2> QED BY <2>4, <2>5, TailCopies
<1>3. Len(q) <= 2 \/ Len(q) = 3 BY UpToThree
<1> QED BY <1>1, <1>2, <1>3

(* One entry of t leaves the queue, if there is one, and the rest stay.     *)
LEMMA RemoveCopies ==
  ASSUME NEW T, NEW q \in Seq(T), Len(q) <= 3, NEW t
  PROVE  /\ Remove(q, t) \in Seq(T)
         /\ \A u : Copies(u, Remove(q, t)) =
                      Copies(u, q) - IF t = u /\ t \in Members(q) THEN 1 ELSE 0
<1> DEFINE n == Len(q)
<1>1. \A u : Copies(u, q) \in Nat BY CopiesType
<1>2. CASE t \notin Members(q)
  <2>1. Remove(q, t) = q BY <1>2 DEF Remove
  <2> QED BY <1>1, <1>2, <2>1
<1>3. CASE t \in Members(q) /\ t = q[1]
  <2>1. Remove(q, t) = RemoveFirst(q) BY <1>3 DEF Remove
  <2>2. q # <<>> BY <1>3 DEF Members
  <2> QED BY <1>3, <2>1, <2>2, RemoveFirstCopies
<1>4. CASE t \in Members(q) /\ t # q[1] /\ Len(q) = 3 /\ t = q[2]
  <2>1. Remove(q, t) = Add(<<q[1]>>, q[3]) BY <1>4 DEF Remove
  <2>2. /\ q[1] \in T /\ q[2] \in T /\ q[3] \in T
        /\ q = Append(<<q[1], q[2]>>, q[3])
        /\ <<q[1]>> \in Seq(T)
    <3>1. Len(q) = 3 BY <1>4
    <3>2. /\ q[1] \in T /\ q[2] \in T /\ q[3] \in T
          /\ q = <<q[1], q[2], q[3]>>
      BY <3>1, Triple
    <3> QED BY <3>1, <3>2
  <2>3. \A u : Copies(u, q) = Copies(u, <<q[1], q[2]>>) + IF q[3] = u THEN 1 ELSE 0
    <3>1. <<q[1], q[2]>> \in Seq(T) BY <2>2, PairCopies
    <3>2. q[3] \in T BY <2>2
    <3>3. \A u : Copies(u, Append(<<q[1], q[2]>>, q[3])) =
                     Copies(u, <<q[1], q[2]>>) + IF q[3] = u THEN 1 ELSE 0
      BY <3>1, <3>2, CopiesAppend
    <3> QED BY <2>2, <3>3
  <2>4. \A u : Copies(u, <<q[1], q[2]>>) =
                  (IF q[1] = u THEN 1 ELSE 0) + (IF q[2] = u THEN 1 ELSE 0)
    BY <2>2, PairCopies
  <2>5. /\ Add(<<q[1]>>, q[3]) \in Seq(T)
        /\ \A u : Copies(u, Add(<<q[1]>>, q[3])) =
                     Copies(u, <<q[1]>>) + IF q[3] = u THEN 1 ELSE 0
    BY <2>2, AddCopies
  <2>6. \A u : Copies(u, <<q[1]>>) = IF q[1] = u THEN 1 ELSE 0 BY CopiesOne
  <2> QED BY <1>4, <2>1, <2>3, <2>4, <2>5, <2>6
<1>5. CASE t \in Members(q) /\ t # q[1] /\ (Len(q) # 3 \/ t # q[2])
  <2>1. Remove(q, t) = SubSeq(q, 1, n - 1) BY <1>5 DEF Remove
  <2>2. PICK i \in 1..n : q[i] = t BY <1>5 DEF Members
  <2>3. n \in 2..3 /\ t = q[n]
    <3>1. n \in 0..3 BY UpToThree
    <3>2. i # 1 /\ (n # 3 \/ i # 2) BY <1>5, <2>2
    <3> HIDE DEF n
    <3>3. n \in 2..3 /\ i = n BY <2>2, <3>1, <3>2
    <3> QED BY <2>2, <3>3
  <2>4. /\ SubSeq(q, 1, n - 1) \in Seq(T) /\ q[n] \in T
        /\ q = Append(SubSeq(q, 1, n - 1), q[n])
    BY <2>3
  <2>5. \A u : Copies(u, q) = Copies(u, SubSeq(q, 1, n - 1)) + IF q[n] = u THEN 1 ELSE 0
    <3> DEFINE p == SubSeq(q, 1, n - 1)
               e == q[n]
    <3>1. p \in Seq(T) /\ e \in T /\ q = Append(p, e) BY <2>4
    <3>2. \A u : Copies(u, Append(p, e)) = Copies(u, p) + IF e = u THEN 1 ELSE 0
      <4> HIDE DEF p, e
      <4> QED BY <3>1, CopiesAppend
    <3> QED BY <3>1, <3>2
  <2>6. \A u : Copies(u, SubSeq(q, 1, n - 1)) \in Nat BY <2>4, CopiesType
  <2> QED BY <1>5, <2>1, <2>3, <2>4, <2>5, <2>6
<1> QED BY <1>2, <1>3, <1>4, <1>5

(***************************************************************************)
(* What bounds the delay queue: no task has more entries than containers.  *)
(***************************************************************************)
LEMMA ContainersAreFew ==
  IsFiniteSet(TaskContainers) /\ Cardinality(TaskContainers) \in 0..3
<1> DEFINE First == {<<t, 1>> : t \in Tasks}
           Second == {<<t, 2>> : t \in Relaunched}
           f == [t \in Tasks |-> <<t, 1>>]
           g == [t \in Relaunched |-> <<t, 2>>]
<1>1. /\ IsFiniteSet(Tasks) /\ IsFiniteSet(Relaunched)
      /\ Cardinality(Tasks) \in Nat /\ Cardinality(Relaunched) \in Nat
      /\ Cardinality(Tasks) + Cardinality(Relaunched) <= 3
  BY ContainerAssumption, FS_Subset, FS_CardinalityType
<1>2. f \in Surjection(Tasks, First) /\ g \in Surjection(Relaunched, Second)
  BY Fun_IsSurj
<1>3. /\ IsFiniteSet(First) /\ Cardinality(First) <= Cardinality(Tasks)
      /\ IsFiniteSet(Second) /\ Cardinality(Second) <= Cardinality(Relaunched)
  <2> HIDE DEF f, g, First, Second
  <2> QED BY <1>1, <1>2, FS_Surjection
<1>4. TaskContainers = First \cup Second BY DEF TaskContainers
<1> HIDE DEF First, Second
<1>5. /\ Cardinality(First) \in Nat /\ Cardinality(Second) \in Nat
      /\ IsFiniteSet(First \cap Second)
  BY <1>3, FS_CardinalityType, FS_Intersection
<1>6. Cardinality(First \cap Second) \in Nat BY <1>5, FS_CardinalityType
<1>7. /\ IsFiniteSet(First \cup Second)
      /\ Cardinality(First \cup Second) =
            Cardinality(First) + Cardinality(Second) - Cardinality(First \cap Second)
  BY <1>3, FS_Union
<1>8. Cardinality(First \cup Second) \in Nat BY <1>7, FS_CardinalityType
<1> QED BY <1>1, <1>3, <1>4, <1>5, <1>6, <1>7, <1>8

(* The i-th entry of the queue stands for a container of its own: the first *)
(* of its task if it is the first entry of its task, the second otherwise.  *)
LEMMA QueueLength ==
  ASSUME NEW q \in Seq(Tasks), NEW most \in [Tasks -> 0..2],
         \A t \in Tasks : most[t] = 2 => t \in Relaunched,
         \A t \in Tasks : Copies(t, q) <= most[t]
  PROVE  Len(q) <= 3
<1> DEFINE Same(i) == {j \in DOMAIN q : q[j] = q[i]}
           UpTo(i) == Same(i) \cap (1..i)
           g == [i \in 1..Len(q) |-> <<q[i], Cardinality(UpTo(i))>>]
<1>1. DOMAIN q = 1..Len(q) /\ Len(q) \in Nat OBVIOUS
<1>2. ASSUME NEW i \in 1..Len(q)
      PROVE  /\ IsFiniteSet(Same(i)) /\ Cardinality(Same(i)) = Copies(q[i], q)
             /\ q[i] \in Tasks
  <2>1. q[i] \in Tasks BY <1>2
  <2>2. IsFiniteSet(Same(i)) BY CopiesType
  <2> QED BY <2>1, <2>2 DEF Copies
<1>3. ASSUME NEW i \in 1..Len(q) PROVE g[i] \in TaskContainers
  <2> DEFINE Every == Same(i)
             U == UpTo(i)
  <2>1. U \in SUBSET Every /\ i \in U BY <1>1, <1>3
  <2>2. IsFiniteSet(Every) BY <1>2, <1>3
  <2>3. IsFiniteSet(U) /\ Cardinality(U) <= Cardinality(Every)
    <3> HIDE DEF U, Every
    <3> QED BY <2>1, <2>2, FS_Subset
  <2>4. Cardinality(U) \in Nat /\ Cardinality(U) # 0
    <3> HIDE DEF U, Every
    <3> QED BY <2>1, <2>3, FS_CardinalityType, FS_EmptySet
  <2>5. Cardinality(Every) <= most[q[i]] /\ q[i] \in Tasks /\ Cardinality(Every) \in Nat
    <3>1. Cardinality(Every) = Copies(q[i], q) /\ q[i] \in Tasks BY <1>2, <1>3
    <3>2. Copies(q[i], q) \in Nat BY CopiesType
    <3> HIDE DEF Every
    <3> QED BY <3>1, <3>2
  <2>6. g[i] = <<q[i], Cardinality(U)>> BY <1>3
  <2> HIDE DEF g, U, Every
  <2>7. Cardinality(U) = 1 \/ (Cardinality(U) = 2 /\ q[i] \in Relaunched)
    BY <2>3, <2>4, <2>5
  <2> QED BY <2>5, <2>6, <2>7 DEF TaskContainers
<1>4. ASSUME NEW i \in 1..Len(q), NEW j \in 1..Len(q), i < j PROVE g[i] # g[j]
  <2> DEFINE U == UpTo(i)
             V == UpTo(j)
  <2>1. CASE q[i] # q[j] BY <1>4, <2>1
  <2>2. CASE q[i] = q[j]
    <3>1. U \in SUBSET V /\ j \in V /\ j \notin U BY <1>1, <1>4, <2>2
    <3>2. IsFiniteSet(V)
      <4>1. IsFiniteSet(Same(j)) /\ V \in SUBSET Same(j) BY <1>2, <1>4
      <4> HIDE DEF V
      <4> QED BY <4>1, FS_Subset
    <3>3. Cardinality(U) # Cardinality(V)
      <4> HIDE DEF U, V
      <4> QED BY <3>1, <3>2, FS_Subset
    <3>4. g[i] = <<q[i], Cardinality(U)>> /\ g[j] = <<q[j], Cardinality(V)>>
      BY <1>4
    <3> HIDE DEF U, V, g
    <3> QED BY <3>3, <3>4
  <2> QED BY <2>1, <2>2
<1>5. g \in Injection(1..Len(q), TaskContainers)
  <2>1. g \in [1..Len(q) -> TaskContainers] BY <1>3
  <2>2. \A i, j \in 1..Len(q) : g[i] = g[j] => i = j
    <3>1. \A i, j \in 1..Len(q) : i < j \/ j < i \/ i = j OBVIOUS
    <3> HIDE DEF g
    <3> QED BY <1>4, <3>1
  <2> HIDE DEF g
  <2> QED BY <2>1, <2>2, Fun_IsInj
<1>6. Cardinality(1..Len(q)) = Len(q)
  <2> DEFINE n == Len(q)
  <2>1. n \in Nat BY <1>1
  <2> HIDE DEF n
  <2>2. Cardinality(1..n) = n BY <2>1, FS_Interval
  <2> QED BY <2>2 DEF n
<1>7. Cardinality(1..Len(q)) <= Cardinality(TaskContainers)
  <2> HIDE DEF g
  <2> QED BY <1>5, ContainersAreFew, FS_Injection
<1> QED BY <1>1, <1>6, <1>7, ContainersAreFew

(***************************************************************************)
(* Type correctness                                                        *)
(***************************************************************************)
(* A container is announced by the thread that adds it: a task is in the    *)
(* queue, or about to be put there, at most once for each of its launches.  *)
Entries(t) == Copies(t, queue) + (IF am[t] = "queue" THEN 1 ELSE 0)

LaunchInv ==
    \A t \in Tasks :
        /\ am[t] = "new" <=> launches[t] = 0
        /\ launches[t] = 2 => t \in Relaunched
        /\ Entries(t) <= launches[t]

(* What was never launched waits for nothing and has no end.                *)
WaitInv ==
    \A t \in Tasks :
        launches[t] = 0 => left[t] = Never /\ t \notin Members(waiting)

(* An iterator that was not overtaken by a change stays inside the list.    *)
IterationInv ==
    nm \in {"notify", "scan"} /\ ~stale => cursor \in 1..Len(waiting) + 1

NodeInv == TypeOK /\ LaunchInv /\ WaitInv /\ IterationInv

LEMMA Numbers ==
  /\ LifeTime \in 0..Never /\ Patience \in 0..Never /\ Never \in Nat
  /\ Never \in 0..Never /\ 0 \in 0..MaxAge /\ MaxAge \in Nat /\ Patience < Never
  /\ LifeTime \in Nat /\ LifeTime < Never
BY TimeAssumption, SwitchAssumption DEF Never

LEMMA InitNode == ASSUME Init PROVE NodeInv
<1>1. TypeOK
  <2>1. <<>> \in Seq(Tasks) /\ <<>> \in Seq(Containers) /\ <<>> \in Seq({"SUCCESS", "ABORTED"})
    OBVIOUS
  <2>2. /\ left \in [Tasks -> 0..Never] /\ age \in [Tasks -> 0..MaxAge]
        /\ reported \in [Containers -> Seq({"SUCCESS", "ABORTED"})]
    BY <2>1, Numbers DEF Init
  <2>3. /\ am = [c \in Tasks \cup AMs |-> "new"]
        /\ am \in [Tasks \cup AMs -> {"new", "queue", "run", "send", "returned",
                                      "launched", "cleaning", "ended", "dead"}]
        /\ \A t \in Tasks : am[t] # "returned"
    BY DEF Init
  <2>4. /\ calling \in [Tasks -> Transfers \cup {NoTransfer}]
        /\ launches \in [Tasks -> 0..2]
        /\ stage \in [Transfers -> {"unsent", "sent", "over"}]
        /\ result \in [Transfers -> Outcomes \cup {"none"}]
        /\ todo \in [Tasks -> SUBSET Transfers] /\ open \in [Tasks -> SUBSET Transfers]
    BY DEF Init
  <2>5. /\ nm = "receive" /\ cursor = 1 /\ stale = FALSE /\ running = {} /\ amList = {}
        /\ waiting = <<>> /\ queue = <<>> /\ completed = <<>> /\ released = <<>>
        /\ done = {} /\ inbox = {} /\ commands = {} /\ killed = {}
    BY DEF Init
  <2> QED BY <2>1, <2>2, <2>3, <2>4, <2>5 DEF TypeOK
<1>2. LaunchInv
  <2>1. \A t \in Tasks : Copies(t, queue) = 0 BY CopiesOne DEF Init
  <2> QED BY <2>1 DEF Init, LaunchInv, Entries
<1>3. WaitInv
  <2>1. \A t \in Tasks : t \notin Members(waiting) BY DEF Init, Members
  <2> QED BY <2>1 DEF Init, WaitInv
<1>4. IterationInv BY DEF Init, IterationInv
<1> QED BY <1>1, <1>2, <1>3, <1>4 DEF NodeInv

LEMMA QueueFacts ==
  ASSUME TypeOK, LaunchInv
  PROVE  /\ Len(queue) <= 3
         /\ \A t : Copies(t, queue) \in Nat
         /\ \A t \in Tasks : t \in Members(queue) <=> Copies(t, queue) # 0
         /\ Members(queue) \subseteq Tasks
         /\ \A t \in Members(queue) : launches[t] \in 1..2
<1>1. queue \in Seq(Tasks) /\ launches \in [Tasks -> 0..2] BY DEF TypeOK
<1>2. \A t : Copies(t, queue) \in Nat /\ (Copies(t, queue) = 0 <=> t \notin Members(queue))
  BY <1>1, CopiesType
<1>3. \A t \in Tasks : Copies(t, queue) <= launches[t]
  BY <1>1, <1>2 DEF LaunchInv, Entries
<1>4. Len(queue) <= 3 BY <1>1, <1>3, QueueLength DEF LaunchInv
<1>5. Members(queue) \subseteq Tasks BY <1>1 DEF Members
<1> QED BY <1>1, <1>2, <1>3, <1>4, <1>5

LEMMA AssignedType ==
  ASSUME TypeOK, LaunchInv, NEW t \in Tasks, launches[t] # 0
  PROVE  Assigned(t) \in TaskContainers /\ Assigned(t) \in Containers
<1>1. launches[t] = 1 \/ (launches[t] = 2 /\ t \in Relaunched)
  BY DEF TypeOK, LaunchInv
<1> QED BY <1>1 DEF Assigned, TaskContainers, Containers

LEMMA ContainerTypes ==
  /\ TaskContainers \subseteq Containers /\ AMs \subseteq Containers
  /\ \A t \in Tasks : <<t, 1>> \in TaskContainers
  /\ \A c \in TaskContainers : c[1] \in Tasks /\ c = <<c[1], c[2]>> /\ c[2] \in 1..2
  /\ \A c \in Containers : c \in TaskContainers \/ c \in AMs
  /\ Tasks \cap AMs = {} /\ TaskContainers \cap AMs = {}
BY ContainerAssumption DEF TaskContainers, Containers

(* Where the entries and the launches do not change.                        *)
LEMMA LaunchKept ==
  ASSUME LaunchInv, UNCHANGED <<queue, launches>>,
         \A t \in Tasks : /\ am[t] = "new" <=> am'[t] = "new"
                          /\ am'[t] = "queue" => am[t] = "queue",
         TypeOK
  PROVE  LaunchInv'
<1>1. \A t \in Tasks : Copies(t, queue) \in Nat BY QueueFacts
<1>2. \A t \in Tasks : Entries(t)' <= Entries(t) BY <1>1 DEF Entries
<1>3. \A t \in Tasks : /\ launches[t] \in Nat /\ Entries(t) \in Nat /\ Entries(t)' \in Nat
                       /\ Entries(t) <= launches[t]
  <2>1. launches \in [Tasks -> 0..2] BY DEF TypeOK
  <2>2. \A t \in Tasks : Entries(t) \in Nat /\ Entries(t)' \in Nat BY <1>1 DEF Entries
  <2> QED BY <2>1, <2>2 DEF LaunchInv
<1>4. \A t \in Tasks : Entries(t)' <= launches[t] BY <1>2, <1>3
<1> QED BY <1>4 DEF LaunchInv

LEMMA WaitKept ==
  ASSUME WaitInv, UNCHANGED <<left, waiting, launches>>
  PROVE  WaitInv'
BY DEF WaitInv

LEMMA IterationKept ==
  ASSUME IterationInv, UNCHANGED <<nm, stale, cursor, waiting>>
  PROVE  IterationInv'
BY DEF IterationInv

LEMMA AddWaitingTypes ==
  ASSUME NodeInv, NEW t \in Tasks, AddWaiting(t)
  PROVE  NodeInv'
<1> USE DEF NodeInv
<1>1. /\ launches[t] \in 0..1 /\ launches' = [launches EXCEPT ![t] = @ + 1]
      /\ launches[t] = 1 => t \in Relaunched
      /\ am[t] # "queue" /\ am' = [am EXCEPT ![t] = "queue"]
  BY DEF AddWaiting, MayLaunch, TypeOK, LaunchInv
<1>2. waiting' = Append(waiting, t) /\ stale' = (nm \in {"notify", "scan"})
  BY DEF AddWaiting
<1>3. TypeOK'
  BY <1>1, <1>2 DEF TypeOK, AddWaiting, timeVars, reportVars, emulatorVars, rmVars
<1>4. LaunchInv'
  <2>1. UNCHANGED queue BY DEF AddWaiting
  <2>2. \A u \in Tasks : Copies(u, queue) \in Nat BY QueueFacts
  <2>3. t \in Tasks \cup AMs /\ launches \in [Tasks -> 0..2] /\ DOMAIN am = Tasks \cup AMs
    BY DEF TypeOK
  <2>4. ASSUME NEW u \in Tasks, u # t
        PROVE  launches'[u] = launches[u] /\ am'[u] = am[u]
    BY <1>1, <2>3, <2>4
  <2>5. launches'[t] = launches[t] + 1 /\ am'[t] = "queue" BY <1>1, <2>3
  <2>6. Entries(t) = Copies(t, queue) /\ Entries(t) <= launches[t]
    BY <1>1, <2>2 DEF LaunchInv, Entries
  <2> QED BY <1>1, <2>1, <2>2, <2>4, <2>5, <2>6 DEF LaunchInv, Entries
<1>5. WaitInv'
  <2>1. UNCHANGED left BY DEF AddWaiting, timeVars
  <2>2. Members(waiting') = Members(waiting) \cup {t}
    <3>1. waiting \in Seq(Tasks) /\ <<t>> \in Seq(Tasks) BY DEF TypeOK
    <3>2. waiting' = waiting \o <<t>> BY <1>2, <3>1
    <3>3. Members(<<t>>) = {t} BY DEF Members
    <3>4. Members(waiting \o <<t>>) = Members(waiting) \cup Members(<<t>>)
      BY <3>1, ConcatMembers
    <3> QED BY <3>2, <3>3, <3>4
  <2>3. launches \in [Tasks -> 0..2] BY DEF TypeOK
  <2> QED BY <1>1, <2>1, <2>2, <2>3 DEF WaitInv
<1>6. IterationInv' BY <1>2 DEF IterationInv, AddWaiting
<1> QED BY <1>3, <1>4, <1>5, <1>6

LEMMA AddQueueTypes ==
  ASSUME NodeInv, NEW t \in Tasks, AddQueue(t)
  PROVE  NodeInv'
<1> USE DEF NodeInv
<1>1. /\ am[t] = "queue" /\ am' = [am EXCEPT ![t] = "run"]
      /\ queue' = Add(queue, t)
      /\ UNCHANGED <<launches, left, waiting, nm, stale, cursor>>
  BY DEF AddQueue, timeVars, loopVars
<1>2. /\ queue' \in Seq(Tasks)
      /\ \A u : Copies(u, queue') = Copies(u, queue) + IF t = u THEN 1 ELSE 0
  BY <1>1, AddCopies DEF TypeOK
<1>3. TypeOK'
  BY <1>1, <1>2 DEF TypeOK, AddQueue, timeVars, reportVars, loopVars, emulatorVars, rmVars
<1>4. LaunchInv'
  <2>1. \A u : Copies(u, queue) \in Nat BY QueueFacts
  <2>2. t \in Tasks \cup AMs /\ DOMAIN am = Tasks \cup AMs BY DEF TypeOK
  <2>3. am'[t] = "run" /\ \A u \in Tasks : u # t => am'[u] = am[u] BY <1>1, <2>2
  <2>4. Copies(t, queue') = Copies(t, queue) + 1
        /\ \A u \in Tasks : u # t => Copies(u, queue') = Copies(u, queue)
    BY <1>2, <2>1
  <2>5. \A u \in Tasks : Entries(u)' = Entries(u)
    BY <1>1, <2>1, <2>3, <2>4 DEF Entries
  <2> QED BY <1>1, <2>3, <2>5 DEF LaunchInv
<1> QED BY <1>1, <1>3, <1>4, WaitKept, IterationKept

LEMMA PutRunningTypes ==
  ASSUME NodeInv, FetchInv, FetchInv', NEW t \in Tasks, PutRunning(t)
  PROVE  NodeInv'
<1> USE DEF NodeInv
<1>1. /\ am[t] = "run" /\ am'[t] \in {"launched", "send"}
      /\ am' = [am EXCEPT ![t] = am'[t]]
      /\ running' = running \cup {Assigned(t)}
      /\ UNCHANGED <<queue, launches, left, waiting, nm, stale, cursor, calling>>
  BY DEF PutRunning, timeVars, loopVars, TypeOK
<1>2. Assigned(t) \in TaskContainers
  <2>1. launches[t] # 0 BY <1>1 DEF LaunchInv
  <2> QED BY <2>1, AssignedType
<1>3. \A u \in Tasks \cup AMs : u # t => am'[u] = am[u] BY <1>1 DEF TypeOK
<1>4. TypeOK'
  BY <1>1, <1>2, <1>3 DEF TypeOK, FetchInv, PutRunning, timeVars, reportVars, loopVars,
     emulatorVars, rmVars
<1>5. LaunchInv' BY <1>1, <1>3, LaunchKept
<1> QED BY <1>1, <1>4, <1>5, WaitKept, IterationKept

LEMMA FetchTypes ==
  ASSUME NodeInv, FetchInv, FetchInv', NEW t \in Tasks,
         \/ \E x \in Transfers : Transmit(t, x) \/ TransmitFails(t, x)
         \/ AddTransmission(t)
  PROVE  NodeInv'
<1> USE DEF NodeInv
<1>1. /\ am[t] \in {"send", "returned"} /\ am'[t] \in {"returned", "dead", "send"}
      /\ am' = [am EXCEPT ![t] = am'[t]]
      /\ UNCHANGED <<timeVars, queue, launches, waiting, nm, stale, cursor, running, amList,
                     reportVars, message, done, result, inbox, rmVars>>
  BY DEF Transmit, TransmitFails, AddTransmission, listVars, loopVars, emulatorVars, TypeOK
<1>2. \A u \in Tasks \cup AMs : u # t => am'[u] = am[u] BY <1>1 DEF TypeOK
<1>3. TypeOK'
  <2>1. todo' \in [Tasks -> SUBSET Transfers] /\ stage' \in [Transfers -> {"unsent", "sent", "over"}]
    BY DEF FetchInv
  <2>2. am' \in [Tasks \cup AMs -> {"new", "queue", "run", "send", "returned",
                                   "launched", "cleaning", "ended", "dead"}]
    BY <1>1 DEF TypeOK
  <2>3. ASSUME NEW u \in Tasks, am'[u] = "returned" PROVE calling'[u] \in TransfersOf[u]
    <3>1. CASE \E x \in Transfers : Transmit(t, x)
      <4>1. PICK x \in Transfers : Transmit(t, x) BY <3>1
      <4>2. x \in TransfersOf[t] /\ calling' = [calling EXCEPT ![t] = x]
        BY <4>1 DEF Transmit, FetchInv
      <4>3. u # t => am[u] = "returned" BY <1>2, <2>3
      <4>4. u # t => calling[u] \in TransfersOf[u] BY <4>3 DEF TypeOK
      <4>5. calling'[u] = IF u = t THEN x ELSE calling[u] BY <4>2 DEF TypeOK
      <4> QED BY <4>2, <4>4, <4>5
    <3>2. CASE \E x \in Transfers : TransmitFails(t, x)
      BY <1>2, <2>3, <3>2 DEF TransmitFails, TypeOK
    <3>3. CASE AddTransmission(t)
      <4>1. am'[t] = "send" /\ calling' = [calling EXCEPT ![t] = NoTransfer]
        BY <3>3 DEF AddTransmission, TypeOK
      <4>2. u # t BY <2>3, <4>1
      <4> QED BY <1>2, <2>3, <4>1, <4>2 DEF TypeOK
    <3> QED BY <3>1, <3>2, <3>3
  <2>5. calling' \in [Tasks -> Transfers \cup {NoTransfer}]
    BY DEF Transmit, TransmitFails, AddTransmission, TypeOK
  <2>4. open' \in [Tasks -> SUBSET Transfers]
    <3>1. CASE \E x \in Transfers : Transmit(t, x) \/ TransmitFails(t, x)
      BY <3>1 DEF Transmit, TransmitFails, TypeOK
    <3>2. CASE AddTransmission(t)
      <4>1. calling[t] \in Transfers
        BY <3>2, TransferAssumption DEF AddTransmission, TypeOK
      <4> QED BY <3>2, <4>1 DEF AddTransmission, TypeOK
    <3> QED BY <3>1, <3>2
  <2> QED BY <1>1, <2>1, <2>2, <2>3, <2>4, <2>5 DEF TypeOK, timeVars, reportVars, rmVars
<1>4. LaunchInv' BY <1>1, <1>2, LaunchKept
<1> QED BY <1>1, <1>3, <1>4, WaitKept, IterationKept DEF timeVars

LEMMA SetDeadlineTypes ==
  ASSUME NodeInv, NEW t \in Tasks, SetDeadline(t)
  PROVE  NodeInv'
<1> USE DEF NodeInv
<1>1. /\ am[t] = "send" /\ am' = [am EXCEPT ![t] = "launched"]
      /\ left' = [left EXCEPT ![t] = Patience]
      /\ UNCHANGED <<queue, launches, waiting, nm, stale, cursor>>
  BY DEF SetDeadline, listVars, loopVars
<1>2. am'[t] = "launched" /\ \A u \in Tasks \cup AMs : u # t => am'[u] = am[u]
  BY <1>1 DEF TypeOK
<1>3. TypeOK'
  BY <1>1, <1>2, Numbers DEF TypeOK, SetDeadline, listVars, reportVars, loopVars, emulatorVars, rmVars
<1>4. LaunchInv' BY <1>1, <1>2, LaunchKept
<1>5. WaitInv'
  <2>1. launches[t] # 0 BY <1>1 DEF LaunchInv
  <2> QED BY <1>1, <2>1 DEF WaitInv, TypeOK
<1> QED BY <1>1, <1>3, <1>4, <1>5, IterationKept

LEMMA AMTypes ==
  ASSUME NodeInv, NEW a \in AMs, AddAM(a) \/ RemoveAM(a) \/ CompleteAM(a)
  PROVE  NodeInv'
<1> USE DEF NodeInv
<1>1. /\ am'[a] \in {"launched", "cleaning", "ended"} /\ am' = [am EXCEPT ![a] = am'[a]]
      /\ amList' \subseteq AMs
      /\ completed' \in {completed, Append(completed, a)}
      /\ UNCHANGED <<timeVars, open, queue, launches, waiting, nm, stale, cursor, running,
                     released, reported, message, done, todo, calling, emulatorVars, rmVars>>
  BY DEF AddAM, RemoveAM, CompleteAM, listVars, loopVars, reportVars, TypeOK
<1>2. \A u \in Tasks : am'[u] = am[u]
  BY <1>1, ContainerTypes DEF TypeOK
<1>3. TypeOK'
  <2>1. completed \in Seq(Containers) /\ a \in Containers BY ContainerTypes DEF TypeOK
  <2>2. completed' \in Seq(Containers) BY <1>1, <2>1
  <2>3. am' \in [Tasks \cup AMs -> {"new", "queue", "run", "send", "returned",
                                   "launched", "cleaning", "ended", "dead"}]
    BY <1>1 DEF TypeOK
  <2> QED BY <1>1, <1>2, <2>2, <2>3 DEF TypeOK, timeVars, emulatorVars, rmVars
<1>4. LaunchInv' BY <1>1, <1>2, LaunchKept
<1> QED BY <1>1, <1>3, <1>4, WaitKept, IterationKept DEF timeVars

(* Steps of the heartbeat that only move its place in middleStep.           *)
LEMMA HeartbeatTypes ==
  ASSUME NodeInv,
         \/ \E x \in inbox : Receive(x)
         \/ NextThrows("notify") \/ NextThrows("scan")
         \/ Notified \/ ReceivedAll \/ Polled
  PROVE  NodeInv'
<1> USE DEF NodeInv
<1>1. UNCHANGED <<timeVars, open, listVars, amList, reportVars, done, callVars, stage, result,
                  reports, rmVars>>
  BY DEF Receive, NextThrows, Notified, ReceivedAll, Polled, loopVars, emulatorVars
<1>2. /\ nm' \in {"receive", "notify", "scan", "poll", "beat", "clean", "dead"}
      /\ cursor' \in Nat /\ stale' \in BOOLEAN /\ inbox' \subseteq Transfers
      /\ nm' = "notify" => message' \in Transfers
  <2>0. /\ nm \in {"receive", "notify", "scan", "poll", "beat", "clean", "dead"}
        /\ cursor \in Nat /\ stale \in BOOLEAN /\ inbox \subseteq Transfers
        /\ nm = "notify" => message \in Transfers
    BY DEF TypeOK
  <2>1. CASE \E x \in inbox : Receive(x)
    <3>1. PICK x \in inbox : Receive(x) BY <2>1
    <3>2. CASE result[x] = "SUCCESSFUL"
      <4>1. /\ nm' = "notify" /\ message' = x /\ cursor' = 1 /\ stale' = FALSE
            /\ inbox' = inbox \ {x}
        BY <3>1, <3>2 DEF Receive, StartIteration
      <4> QED BY <2>0, <4>1
    <3>3. CASE result[x] # "SUCCESSFUL"
      BY <2>0, <3>1, <3>3 DEF Receive
    <3> QED BY <3>2, <3>3
  <2>2. CASE NextThrows("notify") \/ NextThrows("scan")
    BY <2>0, <2>2 DEF NextThrows, loopVars, emulatorVars
  <2>3. CASE Notified \/ ReceivedAll \/ Polled
    <3>1. /\ nm' \in {"receive", "scan", "beat"} /\ inbox' = inbox
          /\ cursor' \in {1, cursor}
      BY <2>3 DEF Notified, ReceivedAll, Polled, StartIteration, EndIteration,
         loopVars, emulatorVars
    <3>2. stale' \in BOOLEAN
      <4>1. CASE Notified \/ ReceivedAll
        BY <4>1 DEF Notified, ReceivedAll, StartIteration, EndIteration
      <4>2. CASE Polled
        <5>1. stale' = stale BY <4>2 DEF Polled, loopVars
        <5> QED BY <2>0, <5>1
      <4> QED BY <2>3, <4>1, <4>2
    <3>3. cursor' \in Nat /\ inbox' \subseteq Transfers BY <2>0, <3>1
    <3>4. nm' # "notify" BY <3>1
    <3> QED BY <3>1, <3>2, <3>3, <3>4
  <2> QED BY <2>1, <2>2, <2>3
<1>3. TypeOK'
  BY <1>1, <1>2 DEF TypeOK, timeVars, listVars, reportVars, callVars, rmVars
<1>4. LaunchInv' BY <1>1, LaunchKept DEF listVars, callVars
<1>5. IterationInv'
  <2>1. waiting \in Seq(Tasks) BY DEF TypeOK
  <2>2. Len(waiting) \in Nat /\ waiting' = waiting BY <1>1, <2>1 DEF listVars
  <2>3. CASE \E x \in inbox : Receive(x)
    BY <2>2, <2>3 DEF IterationInv, Receive, StartIteration
  <2>4. CASE NextThrows("notify") \/ NextThrows("scan")
    BY <2>4 DEF IterationInv, NextThrows
  <2>5. CASE Notified \/ ReceivedAll \/ Polled
    BY <2>2, <2>5 DEF IterationInv, Notified, ReceivedAll, Polled, StartIteration, EndIteration
  <2> QED BY <2>3, <2>4, <2>5
<1> QED BY <1>1, <1>3, <1>4, <1>5, WaitKept DEF timeVars, listVars, callVars

LEMMA ScanTypes ==
  ASSUME NodeInv, Notify \/ Scan
  PROVE  NodeInv'
<1> USE DEF NodeInv
<1> DEFINE t == waiting[cursor]
<1>1. /\ nm \in {"notify", "scan"} /\ ~stale /\ HasNext /\ cursor' = cursor + 1
      /\ UNCHANGED <<age, listVars, amList, reportVars, nm, stale, message, callVars,
                     emulatorVars, rmVars>>
  BY DEF Notify, Scan, timeVars, loopVars
<1>2. /\ cursor \in 1..Len(waiting) /\ cursor' \in 1..Len(waiting) + 1
      /\ t \in Members(waiting) /\ t \in Tasks
  <2>1. waiting \in Seq(Tasks) BY DEF TypeOK
  <2>2. cursor \in 1..Len(waiting) + 1 /\ cursor # Len(waiting) + 1
    BY <1>1 DEF IterationInv, HasNext
  <2>3. Len(waiting) \in Nat BY <2>1
  <2>4. cursor \in 1..Len(waiting) BY <2>2, <2>3
  <2> QED BY <1>1, <2>1, <2>3, <2>4 DEF Members
<1>3. /\ open' \in [Tasks -> SUBSET Transfers] /\ left' \in [Tasks -> 0..Never]
      /\ done' \subseteq Tasks
      /\ left' \in {left, [left EXCEPT ![t] = LifeTime]}
  <2>1. /\ open \in [Tasks -> SUBSET Transfers] /\ left \in [Tasks -> 0..Never]
        /\ done \subseteq Tasks
    BY DEF TypeOK
  <2>2. CASE Notify BY <2>1, <2>2, <1>2 DEF Notify, timeVars
  <2>3. CASE Scan BY <2>1, <2>3, <1>2, Numbers DEF Scan
  <2> QED BY <2>2, <2>3
<1> HIDE DEF t
<1>4. TypeOK'
  <2>1. cursor' \in Nat BY <1>2
  <2> QED BY <1>1, <1>3, <2>1 DEF TypeOK, listVars, reportVars, callVars, emulatorVars, rmVars
<1>5. LaunchInv' BY <1>1, LaunchKept DEF listVars, callVars
<1>6. WaitInv'
  <2>1. launches[t] # 0 BY <1>2 DEF WaitInv
  <2> QED BY <1>1, <1>3, <2>1 DEF WaitInv, TypeOK, listVars, callVars
<1>7. IterationInv' BY <1>1, <1>2 DEF IterationInv, listVars
<1> QED BY <1>4, <1>5, <1>6, <1>7

LEMMA RemoveDoneTypes ==
  ASSUME NodeInv, RemoveDone
  PROVE  NodeInv'
<1> USE DEF NodeInv
<1>1. /\ waiting' = Without(waiting, done) /\ nm' = "poll" /\ done' = {}
      /\ cursor' = 1 /\ stale' = FALSE
      /\ UNCHANGED <<timeVars, open, queue, running, amList, reportVars, message, callVars,
                     emulatorVars, rmVars>>
  BY DEF RemoveDone, EndIteration, StartIteration
<1>2. waiting' \in Seq(Tasks) /\ Members(waiting') \subseteq Members(waiting)
  <2>1. waiting \in Seq(Tasks) BY DEF TypeOK
  <2> QED BY <1>1, <2>1, WithoutType
<1>3. TypeOK'
  BY <1>1, <1>2 DEF TypeOK, timeVars, reportVars, callVars, emulatorVars, rmVars
<1>4. LaunchInv' BY <1>1, LaunchKept DEF callVars
<1>5. WaitInv' BY <1>1, <1>2 DEF WaitInv, timeVars, callVars
<1>6. IterationInv' BY <1>1 DEF IterationInv
<1> QED BY <1>3, <1>4, <1>5, <1>6

(* What Poll takes out of the queue is a launched task.                     *)
LEMMA PollMeans ==
  ASSUME NodeInv, Poll
  PROVE  \E t \in Tasks :
            /\ t = queue[1] /\ t \in Members(queue) /\ left[t] = 0 /\ launches[t] \in 1..2
            /\ Assigned(t) \in TaskContainers /\ Assigned(t) \in Containers
            /\ queue' \in Seq(Tasks)
            /\ \A u : Copies(u, queue') = Copies(u, queue) - IF t = u THEN 1 ELSE 0
            /\ running' = running \ {Assigned(t)}
            /\ completed' = Append(completed, Assigned(t))
<1> USE DEF NodeInv
<1>1. queue # <<>> /\ left[queue[1]] = 0 /\ queue' = RemoveFirst(queue)
  BY DEF Poll, Expired
<1>2. queue \in Seq(Tasks) BY DEF TypeOK
<1>3. 1 \in DOMAIN queue BY <1>1, <1>2
<1>4. queue[1] \in Members(queue) /\ queue[1] \in Tasks BY <1>2, <1>3 DEF Members
<1>5. launches[queue[1]] \in 1..2 /\ Len(queue) <= 3 BY <1>4, QueueFacts
<1>6. Assigned(queue[1]) \in TaskContainers /\ Assigned(queue[1]) \in Containers
  BY <1>4, <1>5, AssignedType
<1>7. /\ queue' \in Seq(Tasks)
      /\ \A u : Copies(u, queue') = Copies(u, queue) - IF queue[1] = u THEN 1 ELSE 0
  BY <1>1, <1>2, <1>5, RemoveFirstCopies
<1>8. /\ running' = running \ {Assigned(queue[1])}
      /\ completed' = Append(completed, Assigned(queue[1]))
  BY DEF Poll
<1> QED BY <1>1, <1>4, <1>5, <1>6, <1>7, <1>8

(* Where a task may have lost entries of the queue and nothing else.        *)
LEMMA FewerEntries ==
  ASSUME TypeOK, LaunchInv, UNCHANGED <<am, launches>>, queue' \in Seq(Tasks),
         \A u \in Tasks : Copies(u, queue') <= Copies(u, queue)
  PROVE  LaunchInv'
<1>1. \A t \in Tasks : Copies(t, queue) \in Nat BY QueueFacts
<1>2. \A t \in Tasks : Copies(t, queue') \in Nat BY CopiesType
<1>3. launches \in [Tasks -> 0..2] BY DEF TypeOK
<1>4. \A t \in Tasks : Entries(t)' <= Entries(t) BY <1>1, <1>2 DEF Entries
<1>5. \A t \in Tasks : /\ launches[t] \in Nat /\ Entries(t) \in Nat /\ Entries(t)' \in Nat
                       /\ Entries(t) <= launches[t]
  BY <1>1, <1>2, <1>3 DEF Entries, LaunchInv
<1>6. \A t \in Tasks : Entries(t)' <= launches[t] BY <1>4, <1>5
<1> QED BY <1>6 DEF LaunchInv

LEMMA PollTypes ==
  ASSUME NodeInv, Poll
  PROVE  NodeInv'
<1> USE DEF NodeInv
<1>1. PICK t \in Tasks :
            /\ Assigned(t) \in Containers
            /\ queue' \in Seq(Tasks)
            /\ \A u : Copies(u, queue') = Copies(u, queue) - IF t = u THEN 1 ELSE 0
            /\ running' = running \ {Assigned(t)}
            /\ completed' = Append(completed, Assigned(t))
  BY PollMeans
<1>2. UNCHANGED <<timeVars, open, waiting, amList, released, reported, nm, loopVars, callVars,
                  emulatorVars, rmVars>>
  BY DEF Poll
<1>3. TypeOK'
  <2>1. completed \in Seq(Containers) BY DEF TypeOK
  <2>2. completed' \in Seq(Containers) BY <1>1, <2>1
  <2> QED BY <1>1, <1>2, <2>2 DEF TypeOK, timeVars, loopVars, callVars, emulatorVars, rmVars
<1>4. LaunchInv'
  <2>1. \A u \in Tasks : Copies(u, queue) \in Nat BY QueueFacts
  <2>2. \A u \in Tasks : Copies(u, queue') <= Copies(u, queue) BY <1>1, <2>1
  <2> QED BY <1>1, <1>2, <2>2, FewerEntries DEF callVars
<1> QED BY <1>2, <1>3, <1>4, WaitKept, IterationKept DEF timeVars, loopVars, callVars

(* What a heartbeat adds to the reports of a container.                     *)
LEMMA BeatReports ==
  ASSUME TypeOK, Beat, NEW c \in Containers
  PROVE  /\ reported'[c] \in Seq({"SUCCESS", "ABORTED"})
         /\ Copies("SUCCESS", reported'[c]) = Times(c, "SUCCESS") + Copies(c, completed)
         /\ Copies("ABORTED", reported'[c]) = Times(c, "ABORTED") + Copies(c, released)
<1> DEFINE T == {"SUCCESS", "ABORTED"}
           n == Copies(c, completed)
           m == Copies(c, released)
           s == [i \in 1..n |-> "SUCCESS"]
           a == [i \in 1..m |-> "ABORTED"]
           r == reported[c]
<1>1. completed \in Seq(Containers) /\ released \in Seq(Containers) BY DEF TypeOK
<1>2. n \in Nat /\ m \in Nat BY <1>1, CopiesType
<1>3. reported'[c] = r \o s \o a BY DEF Beat
<1>4. r \in Seq(T) BY DEF TypeOK
<1> HIDE DEF n, m
<1>5. /\ s \in Seq(T) /\ Copies("SUCCESS", s) = n /\ Copies("ABORTED", s) = 0
      /\ a \in Seq(T) /\ Copies("ABORTED", a) = m /\ Copies("SUCCESS", a) = 0
  <2>1. /\ s \in Seq({"SUCCESS"}) /\ a \in Seq({"ABORTED"})
        /\ Copies("SUCCESS", s) = n /\ Copies("ABORTED", s) = 0
        /\ Copies("ABORTED", a) = m /\ Copies("SUCCESS", a) = 0
    <3>1. /\ s \in Seq({"SUCCESS"}) /\ Len(s) = n
          /\ a \in Seq({"ABORTED"}) /\ Len(a) = m
      BY <1>2
    <3> HIDE DEF s, a
    <3>2. \A u : Copies(u, s) = IF "SUCCESS" = u THEN n ELSE 0 BY <3>1, CopiesSame
    <3>3. \A u : Copies(u, a) = IF "ABORTED" = u THEN m ELSE 0 BY <3>1, CopiesSame
    <3> QED BY <3>1, <3>2, <3>3
  <2> HIDE DEF s, a
  <2> QED BY <2>1, SeqMonotonic
<1> HIDE DEF s, a, T, r
<1>6. /\ r \o s \in Seq(T)
      /\ \A u : Copies(u, r \o s) = Copies(u, r) + Copies(u, s)
  BY <1>4, <1>5, ConcatProperties, CopiesConcat
<1> DEFINE w == r \o s
<1>7. w \o a \in Seq(T) /\ \A u : Copies(u, w \o a) = Copies(u, w) + Copies(u, a)
  <2>1. w \in Seq(T) BY <1>6
  <2> HIDE DEF w
  <2> QED BY <1>5, <2>1, ConcatProperties, CopiesConcat
<1>8. Copies("SUCCESS", r) \in Nat /\ Copies("ABORTED", r) \in Nat BY <1>4, CopiesType
<1>9. /\ Copies("SUCCESS", reported'[c]) = Copies("SUCCESS", r) + n
      /\ Copies("ABORTED", reported'[c]) = Copies("ABORTED", r) + m
  BY <1>2, <1>3, <1>5, <1>6, <1>7, <1>8
<1> QED BY <1>3, <1>7, <1>9 DEF T, r, n, m, Times

LEMMA BeatTypes ==
  ASSUME NodeInv, Beat
  PROVE  NodeInv'
<1> USE DEF NodeInv
<1>1. /\ completed' = <<>> /\ released' = <<>> /\ nm' \in {"receive", "clean"}
      /\ UNCHANGED <<timeVars, open, listVars, amList, loopVars, callVars, emulatorVars, rmVars>>
  BY DEF Beat
<1>2. reported' \in [Containers -> Seq({"SUCCESS", "ABORTED"})]
  <2>1. reported' = [c \in Containers |-> reported'[c]] BY DEF Beat
  <2>2. \A c \in Containers : reported'[c] \in Seq({"SUCCESS", "ABORTED"}) BY BeatReports
  <2> QED BY <2>1, <2>2
<1>3. TypeOK'
  <2>1. <<>> \in Seq(Containers) OBVIOUS
  <2> QED BY <1>1, <1>2, <2>1 DEF TypeOK, timeVars, listVars, loopVars, callVars,
             emulatorVars, rmVars
<1>4. LaunchInv' BY <1>1, LaunchKept DEF listVars, callVars
<1>5. IterationInv' BY <1>1 DEF IterationInv
<1> QED BY <1>1, <1>3, <1>4, <1>5, WaitKept DEF timeVars, listVars, callVars

(* A clean-up takes one entry of the task, if it has one.                   *)
LEMMA ReleaseMeans ==
  ASSUME NodeInv, NEW c \in commands, Release(c)
  PROVE  /\ queue' \in Seq(Tasks) /\ waiting' \in Seq(Tasks)
         /\ Members(waiting') \subseteq Members(waiting)
         /\ running' \subseteq running /\ c \notin running'
         /\ \A u \in Tasks : Copies(u, queue') =
               Copies(u, queue) - IF c \in running /\ u = c[1] /\ u \in Members(queue)
                                  THEN 1 ELSE 0
<1> USE DEF NodeInv
<1>1. queue \in Seq(Tasks) /\ waiting \in Seq(Tasks) BY DEF TypeOK
<1>2. Len(queue) <= 3 /\ \A u : Copies(u, queue) \in Nat BY QueueFacts
<1>3. CASE c \in running
  <2>1. /\ queue' = Remove(queue, c[1]) /\ running' = running \ {c}
        /\ waiting' = S!RemoveFirst(waiting, c[1])
    BY <1>3 DEF Release
  <2>2. /\ Remove(queue, c[1]) \in Seq(Tasks)
        /\ \A u : Copies(u, Remove(queue, c[1])) = Copies(u, queue) -
                     IF c[1] = u /\ c[1] \in Members(queue) THEN 1 ELSE 0
    BY <1>1, <1>2, RemoveCopies
  <2>3. /\ S!RemoveFirst(waiting, c[1]) \in Seq(Tasks)
        /\ Members(S!RemoveFirst(waiting, c[1])) \subseteq Members(waiting)
    BY <1>1, FirstRemoved
  <2> QED BY <1>3, <2>1, <2>2, <2>3
<1>4. CASE c \notin running
  <2>1. UNCHANGED <<waiting, queue, running>> BY <1>4 DEF Release, listVars
  <2> QED BY <1>1, <1>2, <1>4, <2>1
<1> QED BY <1>3, <1>4

LEMMA CleanTypes ==
  ASSUME NodeInv, NEW c \in commands, ReleaseAM(c) \/ Release(c)
  PROVE  NodeInv'
<1> USE DEF NodeInv
<1>1. /\ nm' \in {"receive", "clean"} /\ commands' = commands \ {c} /\ amList' \subseteq amList
      /\ released' \in {released, Append(released, c)}
      /\ UNCHANGED <<timeVars, open, completed, reported, loopVars, callVars, emulatorVars,
                     killed>>
  BY DEF ReleaseAM, Release, reportVars
<1>2. /\ queue' \in Seq(Tasks) /\ waiting' \in Seq(Tasks)
      /\ Members(waiting') \subseteq Members(waiting) /\ running' \subseteq running
      /\ \A u \in Tasks : Copies(u, queue') <= Copies(u, queue)
  <2>1. CASE ReleaseAM(c)
    <3>1. UNCHANGED <<waiting, queue, running>> BY <2>1 DEF ReleaseAM, listVars
    <3>2. \A u : Copies(u, queue) \in Nat BY QueueFacts
    <3> QED BY <3>1, <3>2 DEF TypeOK
  <2>2. CASE Release(c)
    <3>1. \A u : Copies(u, queue) \in Nat BY QueueFacts
    <3> QED BY <2>2, <3>1, ReleaseMeans
  <2> QED BY <2>1, <2>2
<1>3. TypeOK'
  <2>1. released \in Seq(Containers) /\ c \in Containers BY DEF TypeOK
  <2>2. released' \in Seq(Containers) BY <1>1, <2>1
  <2> QED BY <1>1, <1>2, <2>2 DEF TypeOK, timeVars, loopVars, callVars, emulatorVars
<1>4. LaunchInv' BY <1>1, <1>2, FewerEntries DEF callVars
<1>5. WaitInv' BY <1>1, <1>2 DEF WaitInv, timeVars, callVars
<1>6. IterationInv' BY <1>1 DEF IterationInv
<1> QED BY <1>3, <1>4, <1>5, <1>6

LEMMA EnvironmentTypes ==
  ASSUME NodeInv,
         \/ EmulatorStep
         \/ \E c \in Containers : Kill(c)
         \/ UNCHANGED vars
  PROVE  NodeInv'
<1> USE DEF NodeInv
<1>1. UNCHANGED <<timeVars, open, listVars, amList, reportVars, nm, loopVars, callVars>>
  BY DEF EmulatorStep, TransferEnds, Publish, Kill, vars
<1>2. /\ stage' \in [Transfers -> {"unsent", "sent", "over"}]
      /\ result' \in [Transfers -> Outcomes \cup {"none"}]
      /\ inbox' \subseteq Transfers
      /\ commands' \subseteq Containers /\ killed' \subseteq Containers
  <2>1. CASE \E x \in Transfers, o \in Outcomes : TransferEnds(x, o)
    BY <2>1 DEF TransferEnds, TypeOK, rmVars
  <2>2. CASE \E x \in Transfers : Publish(x)
    BY <2>2 DEF Publish, TypeOK, rmVars
  <2>3. CASE \E c \in Containers : Kill(c) BY <2>3 DEF Kill, TypeOK, emulatorVars
  <2>4. CASE UNCHANGED vars BY <2>4 DEF vars, TypeOK, emulatorVars, rmVars
  <2> QED BY <2>1, <2>2, <2>3, <2>4 DEF EmulatorStep
<1>3. TypeOK'
  BY <1>1, <1>2 DEF TypeOK, timeVars, listVars, reportVars, loopVars, callVars
<1>4. LaunchInv' BY <1>1, LaunchKept DEF listVars, callVars
<1> QED BY <1>1, <1>3, <1>4, WaitKept, IterationKept DEF timeVars, listVars, loopVars, callVars

LEMMA TickTypes ==
  ASSUME NodeInv, Tick
  PROVE  NodeInv'
<1> USE DEF NodeInv
<1>1. /\ left' = [t \in Tasks |-> IF left[t] \in {0, Never} THEN left[t] ELSE left[t] - 1]
      /\ age' = [t \in Tasks |-> IF am[t] = "new" \/ age[t] = MaxAge THEN age[t]
                                                                   ELSE age[t] + 1]
      /\ UNCHANGED <<open, listVars, amList, reportVars, nm, loopVars, callVars, emulatorVars,
                     rmVars>>
  BY DEF Tick
<1>2. left \in [Tasks -> 0..Never] /\ age \in [Tasks -> 0..MaxAge] BY DEF TypeOK
<1>3. left' \in [Tasks -> 0..Never] BY <1>1, <1>2, Numbers
<1>4. age' \in [Tasks -> 0..MaxAge] BY <1>1, <1>2, Numbers
<1>5. TypeOK'
  BY <1>1, <1>3, <1>4 DEF TypeOK, listVars, reportVars, loopVars, callVars, emulatorVars, rmVars
<1>6. LaunchInv' BY <1>1, LaunchKept DEF listVars, callVars
<1>7. WaitInv' BY <1>1 DEF WaitInv, listVars, callVars
<1> QED BY <1>1, <1>5, <1>6, <1>7, IterationKept DEF listVars, loopVars

LEMMA NodeStep ==
  ASSUME NodeInv, FetchInv, FetchInv', [Next]_vars
  PROVE  NodeInv'
<1>1. CASE \E t \in Tasks : LaunchStep(t)
  BY <1>1, AddWaitingTypes, AddQueueTypes, PutRunningTypes, FetchTypes, SetDeadlineTypes
     DEF LaunchStep
<1>2. CASE \E a \in AMs : AddAM(a) \/ RemoveAM(a) \/ CompleteAM(a) BY <1>2, AMTypes
<1>3. CASE NMStep
  BY <1>3, HeartbeatTypes, ScanTypes, RemoveDoneTypes, PollTypes, BeatTypes, CleanTypes
     DEF NMStep
<1>4. CASE EmulatorStep \/ (\E c \in Containers : Kill(c)) \/ UNCHANGED vars
  BY <1>4, EnvironmentTypes
<1>5. CASE Tick BY <1>5, TickTypes
<1> QED BY <1>1, <1>2, <1>3, <1>4, <1>5 DEF Next

(***************************************************************************)
(* What becomes of a container: how often it was put on each list          *)
(***************************************************************************)
Succeeded(c) == Times(c, "SUCCESS") + Copies(c, completed)
Aborted(c) == Times(c, "ABORTED") + Copies(c, released)

FirstDone(t) == Succeeded(<<t, 1>>) # 0
Gone(t) == Succeeded(Assigned(t)) # 0 \/ Aborted(Assigned(t)) # 0

(* A clean-up command is given once, and followed once.                     *)
KillInv ==
    /\ commands \subseteq killed
    /\ \A c \in Containers :
          /\ Aborted(c) <= 1
          /\ c \in commands \/ c \notin killed => Aborted(c) = 0

(* The first container of a task has not completed while its only entry is  *)
(* in the queue, nor an AM container before its AM cleaned it up.           *)
SuccessInv ==
    /\ \A t \in Tasks :
          /\ Succeeded(<<t, 1>>) <= 1
          /\ launches[t] = 0 => ~FirstDone(t)
          /\ launches[t] = 1 /\ Entries(t) = 1 => ~FirstDone(t)
    /\ \A a \in AMs :
          /\ Succeeded(a) <= 1
          /\ am[a] # "ended" => Succeeded(a) = 0

(* A task without an entry was completed or cleaned up.  What running still *)
(* holds of a container whose entry is gone was put there too late: then    *)
(* the container was completed, and a clean-up of it takes the entry of the *)
(* task's next launch.                                                      *)
EntryInv ==
    /\ \A c \in running : c[2] <= launches[c[1]]
    /\ \A t \in Tasks :
          /\ launches[t] = 1 =>
                /\ am[t] \in {"queue", "run"} => <<t, 1>> \notin running
                /\ Entries(t) = 0 => Gone(t)
                /\ Entries(t) = 0 /\ (am[t] = "run" \/ <<t, 1>> \in running) => FirstDone(t)
          /\ launches[t] = 2 =>
                /\ <<t, 1>> \in running /\ Entries(t) <= 1 => FirstDone(t) \/ Gone(t)
                /\ Entries(t) = 0 => Gone(t) \/ (FirstDone(t) /\ <<t, 1>> \in killed)

BookInv == KillInv /\ SuccessInv /\ EntryInv

LEMMA CountTypes ==
  ASSUME TypeOK
  PROVE  /\ \A c \in Containers : /\ Succeeded(c) \in Nat /\ Aborted(c) \in Nat
                                  /\ Times(c, "SUCCESS") \in Nat /\ Times(c, "ABORTED") \in Nat
         /\ \A c : Copies(c, completed) \in Nat /\ Copies(c, released) \in Nat
<1>1. \A c \in Containers : reported[c] \in Seq({"SUCCESS", "ABORTED"}) BY DEF TypeOK
<1>2. \A c \in Containers : Times(c, "SUCCESS") \in Nat /\ Times(c, "ABORTED") \in Nat
  BY <1>1, CopiesType DEF Times
<1>3. completed \in Seq(Containers) /\ released \in Seq(Containers) BY DEF TypeOK
<1>4. \A c : Copies(c, completed) \in Nat /\ Copies(c, released) \in Nat
  BY <1>3, CopiesType
<1> QED BY <1>2, <1>4 DEF Succeeded, Aborted

LEMMA EntryTypes ==
  ASSUME TypeOK, LaunchInv
  PROVE  /\ \A t \in Tasks : /\ Entries(t) \in Nat /\ launches[t] \in 0..2
                             /\ Entries(t) <= launches[t]
                             /\ launches[t] # 0 => Assigned(t) \in Containers
                             /\ <<t, 1>> \in Containers
<1>1. \A t \in Tasks : Copies(t, queue) \in Nat BY QueueFacts
<1>2. \A t \in Tasks : launches[t] \in 0..2 BY DEF TypeOK
<1> QED BY <1>1, <1>2, AssignedType, ContainerTypes DEF Entries, LaunchInv

LEMMA InitBook == ASSUME Init PROVE BookInv
<1>1. \A c \in Containers : Succeeded(c) = 0 /\ Aborted(c) = 0
  <2>1. completed = <<>> /\ released = <<>> /\ \A c \in Containers : reported[c] = <<>>
    BY DEF Init
  <2>2. \A c \in Containers : Times(c, "SUCCESS") = 0 /\ Times(c, "ABORTED") = 0
    BY <2>1, CopiesOne DEF Times
  <2>3. \A c \in Containers : Copies(c, completed) = 0 /\ Copies(c, released) = 0
    BY <2>1, CopiesOne
  <2> QED BY <2>2, <2>3 DEF Succeeded, Aborted
<1>2. KillInv BY <1>1 DEF Init, KillInv
<1>3. SuccessInv BY <1>1, ContainerTypes DEF Init, SuccessInv, FirstDone
<1>4. EntryInv BY DEF Init, EntryInv
<1> QED BY <1>2, <1>3, <1>4 DEF BookInv

(* Steps that put nothing on a list and take nothing from one.              *)
LEMMA BookKept ==
  ASSUME BookInv,
         UNCHANGED <<queue, running, completed, released, reported, launches>>,
         \A t \in Tasks : /\ am'[t] = "queue" <=> am[t] = "queue"
                          /\ am'[t] = "run" => am[t] = "run",
         \A a \in AMs : am'[a] # "ended" => am[a] # "ended",
         commands' \subseteq commands \cup (killed' \ killed),
         killed \subseteq killed', commands' \subseteq killed'
  PROVE  BookInv'
<1>1. \A c : Succeeded(c)' = Succeeded(c) /\ Aborted(c)' = Aborted(c)
  BY DEF Succeeded, Aborted, Times
<1>2. /\ \A t \in Tasks : /\ FirstDone(t)' = FirstDone(t) /\ Entries(t)' = Entries(t)
                          /\ Gone(t)' = Gone(t)
  BY <1>1 DEF FirstDone, Gone, Assigned, Entries
<1>3. KillInv' BY <1>1 DEF BookInv, KillInv
<1>4. SuccessInv' BY <1>1, <1>2 DEF BookInv, SuccessInv
<1>5. EntryInv' BY <1>2 DEF BookInv, EntryInv
<1> QED BY <1>3, <1>4, <1>5 DEF BookInv

LEMMA AddWaitingBook ==
  ASSUME NodeInv, BookInv, NEW t \in Tasks, AddWaiting(t)
  PROVE  BookInv'
<1> USE DEF NodeInv, BookInv
<1>1. /\ launches[t] \in 0..1 /\ launches' = [launches EXCEPT ![t] = @ + 1]
      /\ am[t] # "queue" /\ am' = [am EXCEPT ![t] = "queue"]
      /\ UNCHANGED <<queue, running, completed, released, reported, commands, killed>>
  BY DEF AddWaiting, MayLaunch, TypeOK, LaunchInv, reportVars, rmVars
<1>2. \A c : Succeeded(c)' = Succeeded(c) /\ Aborted(c)' = Aborted(c)
  BY <1>1 DEF Succeeded, Aborted, Times
<1>3. /\ launches'[t] = launches[t] + 1 /\ am'[t] = "queue"
      /\ \A u \in Tasks : u # t => launches'[u] = launches[u] /\ am'[u] = am[u]
      /\ \A a \in AMs : am'[a] = am[a]
  BY <1>1, ContainerTypes DEF TypeOK
<1>4. \A u \in Tasks : Entries(u) \in Nat /\ launches[u] \in 0..2 /\ Entries(u) <= launches[u]
  BY EntryTypes
<1>5. Entries(t)' = Entries(t) + 1
  <2>1. Copies(t, queue) \in Nat BY QueueFacts
  <2> QED BY <1>1, <1>3, <2>1 DEF Entries
<1>6. \A u \in Tasks : u # t => Entries(u)' = Entries(u) /\ Gone(u)' = Gone(u)
  BY <1>1, <1>2, <1>3 DEF Entries, Gone, Assigned
<1>7. \A u \in Tasks : FirstDone(u)' = FirstDone(u) BY <1>2 DEF FirstDone
<1>8. KillInv' BY <1>1, <1>2 DEF KillInv
<1>9. SuccessInv'
  <2>0. launches'[t] = 1 => launches[t] = 0 BY <1>1, <1>3
  <2>1. launches'[t] = 1 => ~FirstDone(t)' BY <1>7, <2>0 DEF SuccessInv
  <2>2. launches'[t] # 0 BY <1>1, <1>3
  <2> QED BY <1>2, <1>3, <1>6, <1>7, <2>1, <2>2 DEF SuccessInv
<1>10. EntryInv'
  <2>1. \A c \in running' : c[2] <= launches'[c[1]]
    <3> SUFFICES ASSUME NEW c \in running PROVE c[2] <= launches'[c[1]] BY <1>1
    <3>1. c[1] \in Tasks /\ c[2] \in 1..2 /\ c[2] <= launches[c[1]]
      BY ContainerTypes DEF TypeOK, EntryInv
    <3>2. launches[c[1]] \in 0..2 BY <1>4, <3>1
    <3> QED BY <1>1, <1>3, <3>1, <3>2
  <2>2. launches'[t] = 1 => <<t, 1>> \notin running'
    <3>1. launches'[t] = 1 => launches[t] = 0 BY <1>1, <1>3
    <3>2. <<t, 1>> \in running => 1 <= launches[t] BY DEF EntryInv
    <3> QED BY <1>1, <3>1, <3>2
  <2>3. Entries(t)' # 0 BY <1>4, <1>5
  <2>4. launches'[t] = 2 /\ <<t, 1>> \in running' /\ Entries(t)' <= 1 => FirstDone(t)'
    <3> SUFFICES ASSUME launches'[t] = 2, <<t, 1>> \in running', Entries(t)' <= 1
                 PROVE  FirstDone(t)
      BY <1>7
    <3>1. launches[t] = 1 /\ Entries(t) = 0 BY <1>1, <1>3, <1>4, <1>5
    <3> QED BY <1>1, <3>1 DEF EntryInv
  <2> QED BY <1>1, <1>3, <1>6, <1>7, <2>1, <2>2, <2>3, <2>4 DEF EntryInv
<1> QED BY <1>8, <1>9, <1>10

LEMMA AddQueueBook ==
  ASSUME NodeInv, BookInv, NEW t \in Tasks, AddQueue(t)
  PROVE  BookInv'
<1> USE DEF NodeInv, BookInv
<1>1. /\ am[t] = "queue" /\ am' = [am EXCEPT ![t] = "run"]
      /\ queue' = Add(queue, t)
      /\ UNCHANGED <<running, completed, released, reported, launches, commands, killed>>
  BY DEF AddQueue, reportVars, rmVars
<1>2. \A c : Succeeded(c)' = Succeeded(c) /\ Aborted(c)' = Aborted(c)
  BY <1>1 DEF Succeeded, Aborted, Times
<1>3. /\ am'[t] = "run"
      /\ \A u \in Tasks : u # t => am'[u] = am[u]
      /\ \A a \in AMs : am'[a] = am[a]
  BY <1>1, ContainerTypes DEF TypeOK
<1>4. \A u \in Tasks : Entries(u)' = Entries(u)
  <2>1. \A u : Copies(u, queue') = Copies(u, queue) + IF t = u THEN 1 ELSE 0
    BY <1>1, AddCopies DEF TypeOK
  <2>2. \A u : Copies(u, queue) \in Nat BY QueueFacts
  <2>3. Copies(t, queue') = Copies(t, queue) + 1
        /\ \A u \in Tasks : u # t => Copies(u, queue') = Copies(u, queue)
    BY <2>1, <2>2
  <2> QED BY <1>1, <1>3, <2>2, <2>3 DEF Entries
<1>5. \A u \in Tasks : FirstDone(u)' = FirstDone(u) /\ Gone(u)' = Gone(u)
  BY <1>1, <1>2 DEF FirstDone, Gone, Assigned
<1>6. KillInv' BY <1>1, <1>2 DEF KillInv
<1>7. SuccessInv' BY <1>1, <1>2, <1>3, <1>4, <1>5 DEF SuccessInv
<1>8. EntryInv'
  <2>1. launches[t] = 1 => Entries(t) # 0
    <3>1. Copies(t, queue) \in Nat BY QueueFacts
    <3> QED BY <1>1, <3>1 DEF Entries
  <2> QED BY <1>1, <1>3, <1>4, <1>5, <2>1 DEF EntryInv
<1> QED BY <1>6, <1>7, <1>8

LEMMA PutRunningBook ==
  ASSUME NodeInv, BookInv, NEW t \in Tasks, PutRunning(t)
  PROVE  BookInv'
<1> USE DEF NodeInv, BookInv
<1>1. /\ am[t] = "run" /\ am'[t] \in {"launched", "send"}
      /\ am' = [am EXCEPT ![t] = am'[t]]
      /\ running' = running \cup {Assigned(t)}
      /\ UNCHANGED <<queue, completed, released, reported, launches, commands, killed>>
  BY DEF PutRunning, TypeOK, reportVars, rmVars
<1>2. \A c : Succeeded(c)' = Succeeded(c) /\ Aborted(c)' = Aborted(c)
  BY <1>1 DEF Succeeded, Aborted, Times
<1>3. /\ \A u \in Tasks : u # t => am'[u] = am[u]
      /\ \A a \in AMs : am'[a] = am[a]
  BY <1>1, ContainerTypes DEF TypeOK
<1>4. \A u \in Tasks : Entries(u)' = Entries(u) BY <1>1, <1>3 DEF Entries
<1>5. \A u \in Tasks : FirstDone(u)' = FirstDone(u) /\ Gone(u)' = Gone(u)
  BY <1>1, <1>2 DEF FirstDone, Gone, Assigned
<1>6. KillInv' BY <1>1, <1>2 DEF KillInv
<1>7. SuccessInv' BY <1>1, <1>2, <1>3, <1>4, <1>5 DEF SuccessInv
<1>8. EntryInv'
  <2>1. \A c \in running' : c[2] <= launches'[c[1]]
    <3>1. launches[t] \in 0..2 BY EntryTypes
    <3>2. Assigned(t)[1] = t /\ Assigned(t)[2] = launches[t] BY DEF Assigned
    <3> QED BY <1>1, <3>1, <3>2 DEF EntryInv
  <2>2. \A u \in Tasks : <<u, 1>> \in running' =>
            <<u, 1>> \in running \/ (u = t /\ launches[u] = 1)
    BY <1>1 DEF Assigned
  <2>3. launches[t] = 1 /\ Entries(t) = 0 => FirstDone(t) BY <1>1 DEF EntryInv
  <2>4. am'[t] \notin {"queue", "run"} BY <1>1
  <2>5. ASSUME NEW u \in Tasks, launches'[u] = 1
        PROVE  /\ am'[u] \in {"queue", "run"} => <<u, 1>> \notin running'
               /\ Entries(u)' = 0 => Gone(u)'
               /\ Entries(u)' = 0 /\ (am'[u] = "run" \/ <<u, 1>> \in running') => FirstDone(u)'
    <3>1. CASE u = t BY <1>1, <1>4, <1>5, <2>3, <2>4, <2>5, <3>1 DEF EntryInv
    <3>2. CASE u # t
      <4>1. am'[u] = am[u] /\ (<<u, 1>> \in running' <=> <<u, 1>> \in running)
        BY <1>1, <1>3, <2>2, <3>2
      <4> QED BY <1>1, <1>4, <1>5, <2>5, <4>1 DEF EntryInv
    <3> QED BY <3>1, <3>2
  <2>6. ASSUME NEW u \in Tasks, launches'[u] = 2
        PROVE  /\ <<u, 1>> \in running' /\ Entries(u)' <= 1 => FirstDone(u)' \/ Gone(u)'
               /\ Entries(u)' = 0 => Gone(u)' \/ (FirstDone(u)' /\ <<u, 1>> \in killed')
    <3>1. launches[u] = 2 /\ (<<u, 1>> \in running' => <<u, 1>> \in running)
      BY <1>1, <2>2, <2>6
    <3> QED BY <1>1, <1>4, <1>5, <3>1 DEF EntryInv
  <2> QED BY <2>1, <2>5, <2>6 DEF EntryInv
<1> QED BY <1>6, <1>7, <1>8

LEMMA CompleteAMBook ==
  ASSUME NodeInv, BookInv, NEW a \in AMs, CompleteAM(a)
  PROVE  BookInv'
<1> USE DEF NodeInv, BookInv
<1>1. /\ am[a] = "cleaning" /\ am' = [am EXCEPT ![a] = "ended"]
      /\ completed' = Append(completed, a)
      /\ UNCHANGED <<queue, running, released, reported, launches, commands, killed>>
  BY DEF CompleteAM, listVars, rmVars
<1>2. /\ am'[a] = "ended" /\ \A u \in Tasks \cup AMs : u # a => am'[u] = am[u]
      /\ a \in Containers /\ a \notin Tasks
  BY <1>1, ContainerTypes DEF TypeOK
<1>3. \A c : Succeeded(c)' = Times(c, "SUCCESS") + (Copies(c, completed) + IF a = c THEN 1 ELSE 0)
  <2>1. completed \in Seq(Containers) BY DEF TypeOK
  <2>2. \A c : Copies(c, completed') = Copies(c, completed) + IF a = c THEN 1 ELSE 0
    BY <1>1, <1>2, <2>1, CopiesAppend
  <2> QED BY <1>1, <2>2 DEF Succeeded, Times
<1>4. \A c \in Containers : c # a => Succeeded(c)' = Succeeded(c)
  BY <1>3, CountTypes DEF Succeeded
<1>5. Succeeded(a)' = Succeeded(a) + 1
  BY <1>2, <1>3, CountTypes DEF Succeeded
<1>6. \A c : Aborted(c)' = Aborted(c) BY <1>1 DEF Aborted, Times
<1>7. \A t \in Tasks : /\ Succeeded(<<t, 1>>)' = Succeeded(<<t, 1>>)
                       /\ FirstDone(t)' = FirstDone(t) /\ Entries(t)' = Entries(t)
                       /\ am'[t] = am[t]
  BY <1>1, <1>2, <1>4, ContainerTypes DEF FirstDone, Entries
<1>8. \A t \in Tasks : launches[t] # 0 => Gone(t)' = Gone(t)
  <2>1. \A t \in Tasks : launches[t] # 0 => Assigned(t) \in TaskContainers BY AssignedType
  <2>2. \A t \in Tasks : Assigned(t)' = Assigned(t) BY <1>1 DEF Assigned
  <2> QED BY <1>4, <1>6, <2>1, <2>2, ContainerTypes DEF Gone
<1>9. KillInv' BY <1>1, <1>6 DEF KillInv
<1>10. SuccessInv'
  <2>1. Succeeded(a) = 0 BY <1>1 DEF SuccessInv
  <2>2. Succeeded(a)' = 1 BY <1>5, <2>1
  <2>3. \A b \in AMs : b # a => Succeeded(b)' = Succeeded(b) BY <1>4, ContainerTypes
  <2> QED BY <1>1, <1>2, <1>7, <2>2, <2>3 DEF SuccessInv
<1>11. EntryInv' BY <1>1, <1>7, <1>8 DEF EntryInv
<1> QED BY <1>9, <1>10, <1>11

LEMMA PollBook ==
  ASSUME NodeInv, BookInv, Poll
  PROVE  BookInv'
<1> USE DEF NodeInv, BookInv
<1>1. PICK t \in Tasks :
            /\ t \in Members(queue) /\ launches[t] \in 1..2
            /\ Assigned(t) \in TaskContainers /\ Assigned(t) \in Containers
            /\ \A u : Copies(u, queue') = Copies(u, queue) - IF t = u THEN 1 ELSE 0
            /\ running' = running \ {Assigned(t)}
            /\ completed' = Append(completed, Assigned(t))
  BY PollMeans
<1>2. UNCHANGED <<released, reported, am, launches, commands, killed>>
  BY DEF Poll, callVars, rmVars
<1>3. PICK d \in Containers : d = Assigned(t) BY <1>1
<1>4. \A c \in Containers : Succeeded(c)' = Succeeded(c) + IF c = d THEN 1 ELSE 0
  <2>1. completed \in Seq(Containers) BY DEF TypeOK
  <2>2. \A c : Copies(c, completed') = Copies(c, completed) + IF d = c THEN 1 ELSE 0
    BY <1>1, <1>3, <2>1, CopiesAppend
  <2>3. \A c : Succeeded(c)' = Times(c, "SUCCESS") + (Copies(c, completed) + IF d = c THEN 1 ELSE 0)
    BY <1>2, <2>2 DEF Succeeded, Times
  <2> QED BY <2>3, CountTypes DEF Succeeded
<1>5. \A c : Aborted(c)' = Aborted(c) BY <1>2 DEF Aborted, Times
<1>6. \A c \in Containers : Succeeded(c) \in Nat /\ Aborted(c) \in Nat BY CountTypes
<1>7. \A u \in Tasks : Entries(u) \in Nat /\ Entries(u) <= launches[u] /\ <<u, 1>> \in Containers
  BY EntryTypes
<1>8. /\ Entries(t)' = Entries(t) - 1 /\ Entries(t) # 0
      /\ \A u \in Tasks : u # t => Entries(u)' = Entries(u)
  <2>1. \A u : Copies(u, queue) \in Nat BY QueueFacts
  <2>2. Copies(t, queue) # 0 BY <1>1, QueueFacts
  <2>3. Copies(t, queue') = Copies(t, queue) - 1
        /\ \A u \in Tasks : u # t => Copies(u, queue') = Copies(u, queue)
    BY <1>1, <2>1
  <2> QED BY <1>2, <2>1, <2>2, <2>3 DEF Entries
<1>9. /\ d = <<t, launches[t]>>
      /\ \A u \in Tasks : Assigned(u)' = Assigned(u)
  BY <1>2, <1>3 DEF Assigned
<1>10. \A u \in Tasks : FirstDone(u) => FirstDone(u)'
  BY <1>4, <1>6, <1>7 DEF FirstDone
<1>11. \A u \in Tasks : launches[u] # 0 /\ Gone(u) => Gone(u)'
  <2>1. \A u \in Tasks : launches[u] # 0 => Assigned(u) \in Containers BY EntryTypes
  <2> QED BY <1>4, <1>5, <1>6, <1>9, <2>1 DEF Gone
<1>12. Gone(t)' /\ (launches[t] = 1 => FirstDone(t)')
  <2>1. Succeeded(d)' # 0 BY <1>4, <1>6
  <2> QED BY <1>3, <1>9, <2>1 DEF Gone, FirstDone
<1>13. /\ \A u \in Tasks : u # t => Succeeded(<<u, 1>>)' = Succeeded(<<u, 1>>)
       /\ \A a \in AMs : Succeeded(a)' = Succeeded(a)
  <2>1. \A u \in Tasks : u # t => <<u, 1>> # d BY <1>9
  <2>2. \A a \in AMs : a # d /\ a \in Containers BY <1>1, <1>3, ContainerTypes
  <2> QED BY <1>4, <1>6, <1>7, <2>1, <2>2
<1>14. KillInv' BY <1>2, <1>5 DEF KillInv
<1>15. SuccessInv'
  <2>1. CASE launches[t] = 1
    <3>1. Entries(t) = 1 /\ Entries(t)' = 0
      <4>1. Entries(t) \in Nat /\ Entries(t) <= 1 BY <1>7, <2>1
      <4>2. Entries(t) # 0 /\ Entries(t)' = Entries(t) - 1 BY <1>8
      <4>3. Entries(t) = 1 BY <4>1, <4>2
      <4> QED BY <4>2, <4>3
    <3>2. Succeeded(<<t, 1>>) = 0 BY <2>1, <3>1 DEF SuccessInv, FirstDone
    <3>3. Succeeded(<<t, 1>>)' = 1 BY <1>4, <1>7, <1>9, <2>1, <3>2
    <3> QED BY <1>2, <1>8, <1>13, <2>1, <3>1, <3>3 DEF SuccessInv, FirstDone
  <2>2. CASE launches[t] = 2
    <3>1. Succeeded(<<t, 1>>)' = Succeeded(<<t, 1>>) BY <1>4, <1>6, <1>7, <1>9, <2>2
    <3> QED BY <1>2, <1>8, <1>13, <2>2, <3>1 DEF SuccessInv, FirstDone
  <2> QED BY <1>1, <2>1, <2>2
<1>16. EntryInv'
  <2>1. \A c \in running' : c[2] <= launches'[c[1]] BY <1>1, <1>2 DEF EntryInv
  <2>2. running' \subseteq running BY <1>1
  <2>3. ASSUME NEW u \in Tasks, u # t, launches'[u] = 1
        PROVE  /\ am'[u] \in {"queue", "run"} => <<u, 1>> \notin running'
               /\ Entries(u)' = 0 => Gone(u)'
               /\ Entries(u)' = 0 /\ (am'[u] = "run" \/ <<u, 1>> \in running') => FirstDone(u)'
    BY <1>2, <1>8, <1>10, <1>11, <2>2, <2>3 DEF EntryInv
  <2>4. ASSUME NEW u \in Tasks, u # t, launches'[u] = 2
        PROVE  /\ <<u, 1>> \in running' /\ Entries(u)' <= 1 => FirstDone(u)' \/ Gone(u)'
               /\ Entries(u)' = 0 => Gone(u)' \/ (FirstDone(u)' /\ <<u, 1>> \in killed')
    BY <1>2, <1>8, <1>10, <1>11, <2>2, <2>4 DEF EntryInv
  <2>5. launches[t] = 1 /\ am[t] \in {"queue", "run"} => <<t, 1>> \notin running'
    BY <2>2 DEF EntryInv
  <2> QED BY <1>2, <1>12, <2>1, <2>3, <2>4, <2>5 DEF EntryInv
<1> QED BY <1>14, <1>15, <1>16

(* A heartbeat moves the lists into its report.                             *)
LEMMA BeatBook ==
  ASSUME NodeInv, BookInv, Beat
  PROVE  BookInv'
<1> USE DEF NodeInv, BookInv
<1>1. /\ completed' = <<>> /\ released' = <<>>
      /\ UNCHANGED <<queue, running, am, launches, commands, killed>>
  BY DEF Beat, listVars, callVars, rmVars
<1>2. \A c \in Containers : Succeeded(c)' = Succeeded(c) /\ Aborted(c)' = Aborted(c)
  <2> SUFFICES ASSUME NEW c \in Containers
               PROVE  Succeeded(c)' = Succeeded(c) /\ Aborted(c)' = Aborted(c)
    OBVIOUS
  <2>1. /\ Times(c, "SUCCESS")' = Succeeded(c) /\ Times(c, "ABORTED")' = Aborted(c)
    BY BeatReports DEF Times, Succeeded, Aborted
  <2>2. Copies(c, completed') = 0 /\ Copies(c, released') = 0 BY <1>1, CopiesOne
  <2>3. Succeeded(c) \in Nat /\ Aborted(c) \in Nat BY CountTypes
  <2> QED BY <2>1, <2>2, <2>3 DEF Succeeded, Aborted
<1>3. \A t \in Tasks : /\ Succeeded(<<t, 1>>)' = Succeeded(<<t, 1>>)
                       /\ FirstDone(t)' = FirstDone(t) /\ Entries(t)' = Entries(t)
                       /\ launches[t] # 0 => Gone(t)' = Gone(t)
  <2>1. \A t \in Tasks : /\ <<t, 1>> \in Containers
                         /\ launches[t] # 0 => Assigned(t) \in Containers
    BY EntryTypes
  <2> QED BY <1>1, <1>2, <2>1 DEF FirstDone, Gone, Assigned, Entries
<1>4. KillInv' BY <1>1, <1>2 DEF KillInv
<1>5. SuccessInv' BY <1>1, <1>2, <1>3, ContainerTypes DEF SuccessInv
<1>6. EntryInv' BY <1>1, <1>3 DEF EntryInv
<1> QED BY <1>4, <1>5, <1>6

LEMMA ReleaseBook ==
  ASSUME NodeInv, BookInv, NEW d \in commands, Release(d)
  PROVE  BookInv'
<1> USE DEF NodeInv, BookInv
<1>1. /\ released' = Append(released, d) /\ commands' = commands \ {d}
      /\ UNCHANGED <<completed, reported, am, launches, killed>>
  BY DEF Release, callVars
<1>2. /\ running' \subseteq running /\ d \notin running'
      /\ \A u \in Tasks : Copies(u, queue') =
            Copies(u, queue) - IF d \in running /\ u = d[1] /\ u \in Members(queue)
                               THEN 1 ELSE 0
  BY ReleaseMeans
<1>3. d \in Containers /\ d \in killed BY DEF TypeOK, KillInv
<1>4. \A c : Aborted(c)' = Times(c, "ABORTED") + (Copies(c, released) + IF d = c THEN 1 ELSE 0)
  <2>1. released \in Seq(Containers) BY DEF TypeOK
  <2>2. \A c : Copies(c, released') = Copies(c, released) + IF d = c THEN 1 ELSE 0
    BY <1>1, <1>3, <2>1, CopiesAppend
  <2> QED BY <1>1, <2>2 DEF Aborted, Times
<1>5. \A c \in Containers : Aborted(c)' = Aborted(c) + IF c = d THEN 1 ELSE 0
  BY <1>4, CountTypes DEF Aborted
<1>6. \A c \in Containers : Succeeded(c) \in Nat /\ Aborted(c) \in Nat BY CountTypes
<1>7. \A c : Succeeded(c)' = Succeeded(c) BY <1>1 DEF Succeeded, Times
<1>8. \A u \in Tasks : /\ FirstDone(u)' = FirstDone(u) /\ Assigned(u)' = Assigned(u)
                       /\ Entries(u) \in Nat /\ launches[u] \in 0..2
  BY <1>1, <1>7, EntryTypes DEF FirstDone, Assigned
<1>9. \A u \in Tasks : launches[u] # 0 /\ Gone(u) => Gone(u)'
  <2>1. \A u \in Tasks : launches[u] # 0 => Assigned(u) \in Containers BY EntryTypes
  <2> QED BY <1>5, <1>6, <1>7, <1>8, <2>1 DEF Gone
<1>10. \A u \in Tasks : Entries(u)' =
             Entries(u) - IF d \in running /\ u = d[1] /\ u \in Members(queue) THEN 1 ELSE 0
  <2>1. \A u : Copies(u, queue) \in Nat BY QueueFacts
  <2> QED BY <1>1, <1>2, <2>1 DEF Entries
<1>11. \A u \in Tasks : d # <<u, 1>> /\ d # <<u, 2>> => Entries(u)' = Entries(u)
  <2>1. d \in running => d = <<d[1], d[2]>> /\ d[2] \in 1..2 BY ContainerTypes DEF TypeOK
  <2>2. d \in running => d = <<d[1], 1>> \/ d = <<d[1], 2>> BY <2>1
  <2> QED BY <1>8, <1>10, <2>2
<1>12. \A u \in Tasks : d = Assigned(u) => Gone(u)'
  <2>1. Aborted(d)' # 0 BY <1>3, <1>5, <1>6
  <2> QED BY <1>8, <2>1 DEF Gone
<1>13. \A u \in Tasks : /\ Entries(u)' <= Entries(u) /\ Entries(u)' \in Nat
                        /\ d \notin running => Entries(u)' = Entries(u)
                        /\ Entries(u) <= Entries(u)' + 1
  <2>1. \A u \in Tasks : u \in Members(queue) => Copies(u, queue) # 0 BY QueueFacts
  <2>2. \A u \in Tasks : Copies(u, queue) \in Nat BY QueueFacts
  <2>3. \A u \in Tasks : u \in Members(queue) => Entries(u) # 0 BY <2>1, <2>2 DEF Entries
  <2> QED BY <1>8, <1>10, <2>3
<1>14. KillInv'
  <2>1. Aborted(d) = 0 BY <1>3 DEF KillInv
  <2>2. Aborted(d)' = 1 BY <1>3, <1>5, <2>1
  <2>3. \A c \in Containers : c # d => Aborted(c)' = Aborted(c) BY <1>5, <1>6
  <2> QED BY <1>1, <1>3, <2>2, <2>3 DEF KillInv
<1>15. SuccessInv'
  <2>1. ASSUME NEW u \in Tasks, launches[u] = 1, Entries(u)' = 1 PROVE ~FirstDone(u)
    <3>1. Entries(u) = 1
      <4>1. Entries(u) <= 1 BY <2>1, EntryTypes
      <4> QED BY <1>8, <1>13, <2>1, <4>1
    <3> QED BY <2>1, <3>1 DEF SuccessInv
  <2> QED BY <1>1, <1>7, <1>8, <2>1 DEF SuccessInv
<1>16. EntryInv'
  <2>1. \A c \in running' : c[2] <= launches'[c[1]] BY <1>1, <1>2 DEF EntryInv
  <2>2. ASSUME NEW u \in Tasks, launches'[u] = 1
        PROVE  /\ am'[u] \in {"queue", "run"} => <<u, 1>> \notin running'
               /\ Entries(u)' = 0 => Gone(u)'
               /\ Entries(u)' = 0 /\ (am'[u] = "run" \/ <<u, 1>> \in running') => FirstDone(u)'
    <3>1. launches[u] = 1 /\ Assigned(u) = <<u, 1>> BY <1>1, <2>2 DEF Assigned
    <3>2. d = <<u, 2>> => d \notin running BY <3>1 DEF EntryInv
    <3>3. CASE d # <<u, 1>>
      <4>1. Entries(u)' = Entries(u) BY <1>11, <1>13, <3>2, <3>3
      <4> QED BY <1>1, <1>2, <1>8, <1>9, <3>1, <4>1 DEF EntryInv
    <3>4. CASE d = <<u, 1>>
      <4>1. Gone(u)' /\ <<u, 1>> \notin running' BY <1>2, <1>12, <3>1, <3>4
      <4>2. am[u] = "run" => Entries(u)' = Entries(u)
        BY <1>13, <3>1, <3>4 DEF EntryInv
      <4> QED BY <1>1, <1>8, <3>1, <4>1, <4>2 DEF EntryInv
    <3> QED BY <3>3, <3>4
  <2>3. ASSUME NEW u \in Tasks, launches'[u] = 2
        PROVE  /\ <<u, 1>> \in running' /\ Entries(u)' <= 1 => FirstDone(u)' \/ Gone(u)'
               /\ Entries(u)' = 0 => Gone(u)' \/ (FirstDone(u)' /\ <<u, 1>> \in killed')
    <3>1. launches[u] = 2 /\ Assigned(u) = <<u, 2>> BY <1>1, <2>3 DEF Assigned
    <3>2. CASE d = <<u, 2>> BY <1>12, <3>1, <3>2
    <3>3. CASE d = <<u, 1>>
      <4>1. <<u, 1>> \notin running' BY <1>2, <3>3
      <4>2. ASSUME Entries(u)' = 0 PROVE Gone(u)' \/ (FirstDone(u)' /\ <<u, 1>> \in killed')
        <5>1. CASE d \in running
          <6>1. Entries(u) <= 1 BY <1>8, <1>13, <4>2
          <6>2. FirstDone(u) \/ Gone(u) BY <3>1, <3>3, <5>1, <6>1 DEF EntryInv
          <6> QED BY <1>1, <1>3, <1>8, <1>9, <3>1, <3>3, <6>2
        <5>2. CASE d \notin running
          <6>1. Entries(u) = 0 BY <1>13, <4>2, <5>2
          <6> QED BY <1>1, <1>8, <1>9, <3>1, <6>1 DEF EntryInv
        <5> QED BY <5>1, <5>2
      <4> QED BY <4>1, <4>2
    <3>4. CASE d # <<u, 1>> /\ d # <<u, 2>>
      <4>1. Entries(u)' = Entries(u) BY <1>11, <3>4
      <4> QED BY <1>1, <1>2, <1>8, <1>9, <3>1, <4>1 DEF EntryInv
    <3> QED BY <3>2, <3>3, <3>4
  <2> QED BY <2>1, <2>2, <2>3 DEF EntryInv
<1> QED BY <1>14, <1>15, <1>16

LEMMA BookStep ==
  ASSUME NodeInv, BookInv, [Next]_vars
  PROVE  BookInv'
<1>1. CASE \E t \in Tasks : AddWaiting(t) BY <1>1, AddWaitingBook
<1>2. CASE \E t \in Tasks : AddQueue(t) BY <1>2, AddQueueBook
<1>3. CASE \E t \in Tasks : PutRunning(t) BY <1>3, PutRunningBook
<1>4. CASE \E a \in AMs : CompleteAM(a) BY <1>4, CompleteAMBook
<1>5. CASE Poll BY <1>5, PollBook
<1>6. CASE Beat BY <1>6, BeatBook
<1>7. CASE \E d \in commands : Release(d) BY <1>7, ReleaseBook
<1> USE DEF listVars, reportVars, callVars, rmVars
<1>8. CASE \E t \in Tasks : \/ \E x \in Transfers : Transmit(t, x) \/ TransmitFails(t, x)
                            \/ AddTransmission(t) \/ SetDeadline(t)
  <2>1. PICK t \in Tasks : \/ \E x \in Transfers : Transmit(t, x) \/ TransmitFails(t, x)
                          \/ AddTransmission(t) \/ SetDeadline(t)
    BY <1>8
  <2>2. /\ UNCHANGED <<queue, running, completed, released, reported, launches, commands, killed>>
        /\ am[t] \in {"send", "returned"}
        /\ am'[t] \in {"send", "returned", "launched", "dead"}
        /\ am' = [am EXCEPT ![t] = am'[t]]
    BY <2>1 DEF Transmit, TransmitFails, AddTransmission, SetDeadline, NodeInv, TypeOK
  <2>3. \A u \in Tasks \cup AMs : u # t => am'[u] = am[u]
    BY <2>2 DEF NodeInv, TypeOK
  <2> QED BY <2>2, <2>3, BookKept, ContainerTypes DEF BookInv, KillInv
<1>9. CASE \E a \in AMs : AddAM(a) \/ RemoveAM(a)
  <2>1. PICK a \in AMs : AddAM(a) \/ RemoveAM(a) BY <1>9
  <2>2. /\ UNCHANGED <<queue, running, completed, released, reported, launches, commands, killed>>
        /\ am[a] \in {"new", "launched"} /\ am' = [am EXCEPT ![a] = am'[a]]
    BY <2>1 DEF AddAM, RemoveAM, NodeInv, TypeOK
  <2>3. \A u \in Tasks \cup AMs : u # a => am'[u] = am[u]
    BY <2>2 DEF NodeInv, TypeOK
  <2> QED BY <2>2, <2>3, BookKept, ContainerTypes DEF BookInv, KillInv
<1>10. CASE \/ \E x \in inbox : Receive(x)
            \/ NextThrows("notify") \/ Notify \/ Notified \/ ReceivedAll
            \/ NextThrows("scan") \/ Scan \/ RemoveDone \/ Polled
            \/ EmulatorStep \/ Tick \/ UNCHANGED vars
  <2>1. UNCHANGED <<queue, running, completed, released, reported, launches, am, commands, killed>>
    BY <1>10 DEF Receive, NextThrows, Notify, Notified, ReceivedAll, Scan, RemoveDone, Polled,
       EmulatorStep, TransferEnds, Publish, Tick, vars
  <2> QED BY <2>1, BookKept DEF BookInv, KillInv
<1>11. CASE (\E c \in Containers : Kill(c)) \/ (\E c \in commands : ReleaseAM(c))
  <2>1. /\ UNCHANGED <<queue, running, completed, released, reported, launches, am>>
        /\ killed \subseteq killed'
        /\ commands' \subseteq commands \cup (killed' \ killed)
    BY <1>11 DEF Kill, ReleaseAM
  <2> QED BY <2>1, BookKept DEF BookInv, KillInv
<1> QED BY <1>1, <1>2, <1>3, <1>4, <1>5, <1>6, <1>7, <1>8, <1>9, <1>10, <1>11
       DEF Next, LaunchStep, NMStep

(***************************************************************************)
(* The age of a container that completed                                   *)
(***************************************************************************)
(* The end of a container is never nearer than what is left of its work     *)
(* time, whichever of its transmissions and its deadline set it last.       *)
TimeInv ==
    \A t \in Tasks :
        /\ left[t] = Never \/ age[t] + left[t] >= LifeTime
        /\ FirstDone(t) => age[t] = LifeTime

LEMMA InitTime == ASSUME Init PROVE TimeInv
<1>1. BookInv /\ \A t \in Tasks : launches[t] = 0 BY InitBook DEF Init
<1>2. \A t \in Tasks : ~FirstDone(t) BY <1>1 DEF BookInv, SuccessInv
<1> QED BY <1>2 DEF Init, TimeInv

(* Who is counted as completed changes in a poll only.                      *)
LEMMA FirstDoneKept ==
  ASSUME NodeInv, NEW t \in Tasks, [Next]_vars, ~Poll, FirstDone(t)'
  PROVE  FirstDone(t)
<1> USE DEF NodeInv
<1> DEFINE c == <<t, 1>>
<1>1. c \in Containers /\ c \notin AMs BY ContainerTypes
<1> HIDE DEF c
<1>2. Succeeded(c)' = Succeeded(c)
  <2>1. CASE Beat
    <3>1. Times(c, "SUCCESS")' = Succeeded(c) BY <1>1, <2>1, BeatReports DEF Times, Succeeded
    <3>2. completed' = <<>> BY <2>1 DEF Beat
    <3>3. Copies(c, completed') = 0 BY <3>2, CopiesOne
    <3>4. Succeeded(c) \in Nat BY <1>1, CountTypes
    <3> QED BY <3>1, <3>3, <3>4 DEF Succeeded
  <2>2. CASE \E a \in AMs : CompleteAM(a)
    <3>1. PICK a \in AMs : CompleteAM(a) BY <2>2
    <3>2. completed' = Append(completed, a) /\ reported' = reported /\ a # c
      BY <1>1, <3>1 DEF CompleteAM
    <3>3. completed \in Seq(Containers) /\ a \in Containers BY ContainerTypes DEF TypeOK
    <3>4. Copies(c, completed') = Copies(c, completed) + 0 BY <3>2, <3>3, CopiesAppend
    <3>5. Copies(c, completed) \in Nat BY CountTypes
    <3> QED BY <3>2, <3>4, <3>5 DEF Succeeded, Times
  <2>3. CASE ~Beat /\ ~(\E a \in AMs : CompleteAM(a))
    <3>1. UNCHANGED <<completed, reported>>
      <4> USE DEF reportVars
      <4>1. CASE \E u \in Tasks : LaunchStep(u)
        BY <4>1 DEF LaunchStep, AddWaiting, AddQueue, PutRunning, Transmit, TransmitFails,
           AddTransmission, SetDeadline
      <4>2. CASE \E a \in AMs : AddAM(a) \/ RemoveAM(a) BY <4>2 DEF AddAM, RemoveAM
      <4>3. CASE NMStep
        BY <2>3, <4>3 DEF NMStep, Receive, NextThrows, Notify, Notified, ReceivedAll, Scan,
           RemoveDone, Polled, ReleaseAM, Release
      <4>4. CASE \/ EmulatorStep \/ (\E d \in Containers : Kill(d)) \/ Tick \/ UNCHANGED vars
        BY <4>4 DEF EmulatorStep, TransferEnds, Publish, Kill, Tick, vars
      <4> QED BY <2>3, <4>1, <4>2, <4>3, <4>4 DEF Next
    <3> QED BY <3>1 DEF Succeeded, Times
  <2> QED BY <2>1, <2>2, <2>3
<1> QED BY <1>2 DEF FirstDone, c

LEMMA TimeStep ==
  ASSUME NodeInv, TimeInv, [Next]_vars, MaxAge = LifeTime
  PROVE  TimeInv'
<1> USE DEF NodeInv
<1>1. left \in [Tasks -> 0..Never] /\ age \in [Tasks -> 0..LifeTime] BY DEF TypeOK
<1>2. CASE Tick
  <2>1. /\ left' = [t \in Tasks |-> IF left[t] \in {0, Never} THEN left[t] ELSE left[t] - 1]
        /\ age' = [t \in Tasks |-> IF am[t] = "new" \/ age[t] = LifeTime THEN age[t]
                                                                      ELSE age[t] + 1]
    BY <1>2 DEF Tick
  <2>2. ASSUME NEW t \in Tasks PROVE left'[t] = Never \/ age'[t] + left'[t] >= LifeTime
    <3>1. left[t] \in 0..Never /\ age[t] \in 0..LifeTime BY <1>1
    <3>2. left[t] = Never \/ age[t] + left[t] >= LifeTime BY DEF TimeInv
    <3>3. am[t] = "new" => left[t] = Never BY DEF LaunchInv, WaitInv
    <3>4. left'[t] = IF left[t] \in {0, Never} THEN left[t] ELSE left[t] - 1 BY <2>1
    <3>5. age'[t] = IF am[t] = "new" \/ age[t] = LifeTime THEN age[t] ELSE age[t] + 1 BY <2>1
    <3>6. CASE left[t] = Never BY <3>4, <3>6
    <3>7. CASE left[t] # Never
      <4>1. left'[t] = left[t] \/ left'[t] = left[t] - 1 BY <3>4
      <4>2. CASE age[t] = LifeTime
        <5>1. left'[t] \in Nat BY <3>1, <3>4, Numbers
        <5> QED BY <3>5, <4>2, <5>1, Numbers
      <4>3. CASE age[t] # LifeTime
        <5>1. age'[t] = age[t] + 1 BY <3>3, <3>5, <3>7, <4>3
        <5> QED BY <3>1, <3>2, <3>7, <4>1, <5>1, Numbers
      <4> QED BY <4>2, <4>3
    <3> QED BY <3>6, <3>7
  <2>3. ASSUME NEW t \in Tasks, FirstDone(t)' PROVE age'[t] = LifeTime
    <3>1. ~Poll
      <4>1. timeVars' # timeVars BY <1>2 DEF Tick
      <4> QED BY <4>1 DEF Poll
    <3>2. FirstDone(t) BY <2>3, <3>1, FirstDoneKept
    <3> QED BY <2>1, <3>2 DEF TimeInv
  <2> QED BY <2>2, <2>3 DEF TimeInv
<1>3. CASE Poll
  <2>1. PICK t \in Tasks : /\ left[t] = 0 /\ Assigned(t) \in Containers
                          /\ completed' = Append(completed, Assigned(t))
    BY <1>3, PollMeans
  <2>2. UNCHANGED <<left, age, reported>> BY <1>3 DEF Poll, timeVars
  <2>3. ASSUME NEW u \in Tasks, FirstDone(u)' PROVE FirstDone(u) \/ u = t
    <3> DEFINE c == <<u, 1>>
    <3>1. c \in Containers BY ContainerTypes
    <3>2. u # t => Assigned(t) # c BY DEF Assigned
    <3>3. completed \in Seq(Containers) BY DEF TypeOK
    <3> HIDE DEF c
    <3>4. u # t => Copies(c, completed') = Copies(c, completed) + 0
      BY <2>1, <3>2, <3>3, CopiesAppend
    <3>5. Copies(c, completed) \in Nat BY CountTypes
    <3>6. u # t => Succeeded(c)' = Succeeded(c) BY <2>2, <3>4, <3>5 DEF Succeeded, Times
    <3> QED BY <2>3, <3>6 DEF FirstDone, c
  <2>4. age[t] = LifeTime
    <3>1. age[t] \in 0..LifeTime /\ (left[t] = Never \/ age[t] + left[t] >= LifeTime)
      BY <1>1 DEF TimeInv
    <3>2. left[t] # Never BY <2>1, Numbers
    <3> QED BY <2>1, <3>1, <3>2, Numbers
  <2> QED BY <2>2, <2>3, <2>4 DEF TimeInv
<1>4. CASE ~Tick /\ ~Poll
  <2>1. \A t \in Tasks : FirstDone(t)' => FirstDone(t) BY <1>4, FirstDoneKept
  <2>2. age' = age /\ \A t \in Tasks : left'[t] \in {left[t], LifeTime, Patience}
    <3> USE DEF timeVars
    <3>1. CASE \E u \in Tasks : LaunchStep(u)
      <4>1. PICK u \in Tasks : LaunchStep(u) BY <3>1
      <4>2. age' = age /\ left' \in {left, [left EXCEPT ![u] = Patience]}
        BY <4>1 DEF LaunchStep, AddWaiting, AddQueue, PutRunning, Transmit, TransmitFails,
           AddTransmission, SetDeadline
      <4> QED BY <1>1, <4>2
    <3>2. CASE \E a \in AMs : AddAM(a) \/ RemoveAM(a) \/ CompleteAM(a)
      BY <3>2 DEF AddAM, RemoveAM, CompleteAM
    <3>3. CASE Scan
      <4>1. age' = age /\ left' \in {left, [left EXCEPT ![waiting[cursor]] = LifeTime]}
        BY <3>3 DEF Scan
      <4> QED BY <1>1, <4>1
    <3>4. CASE NMStep /\ ~Scan
      BY <1>4, <3>4 DEF NMStep, Receive, NextThrows, Notify, Notified, ReceivedAll,
         RemoveDone, Polled, Beat, ReleaseAM, Release
    <3>5. CASE \/ EmulatorStep \/ (\E d \in Containers : Kill(d)) \/ UNCHANGED vars
      BY <3>5 DEF EmulatorStep, TransferEnds, Publish, Kill, vars
    <3> QED BY <1>4, <3>1, <3>2, <3>3, <3>4, <3>5 DEF Next
  <2>3. ASSUME NEW t \in Tasks PROVE left'[t] = Never \/ age[t] + left'[t] >= LifeTime
    <3>1. age[t] \in Nat /\ LifeTime \in Nat /\ Patience \in Nat /\ Patience >= LifeTime
      BY <1>1, TimeAssumption
    <3>2. left[t] = Never \/ age[t] + left[t] >= LifeTime BY DEF TimeInv
    <3>3. left'[t] \in {left[t], LifeTime, Patience} BY <2>2
    <3> QED BY <3>1, <3>2, <3>3
  <2> QED BY <2>1, <2>2, <2>3 DEF TimeInv
<1> QED BY <1>2, <1>3, <1>4

(***************************************************************************)
(* The invariants of the specification                                     *)
(***************************************************************************)
LEMMA NodeInvariant == Spec => [](FetchInv /\ NodeInv /\ BookInv)
<1>1. Init => FetchInv /\ NodeInv /\ BookInv BY InitFetch, InitNode, InitBook
<1>2. FetchInv /\ NodeInv /\ BookInv /\ [Next]_vars => (FetchInv /\ NodeInv /\ BookInv)'
  BY FetchStep, NodeStep, BookStep
<1> QED BY <1>1, <1>2, PTL DEF Spec

(* The lists, iterators and threads of a node always have the values their  *)
(* types allow: no iterator reads past its list unless the list changed     *)
(* under it, and every entry names a container of this node.                *)
THEOREM NodeTypeCorrect == Spec => []TypeOK
<1>1. NodeInv => TypeOK BY DEF NodeInv
<1> QED BY <1>1, NodeInvariant, PTL

(* No AM container and no first container of a task is reported completed   *)
(* twice or released twice, however polls, clean-ups, relaunches and        *)
(* heartbeats interleave.                                                   *)
THEOREM ReportsComeOnce == Spec => []ReportedOnce
<1>1. ASSUME NodeInv, BookInv PROVE ReportedOnce
  <2>1. \A c \in AMs \cup {<<t, 1>> : t \in Tasks} : c \in Containers /\ Succeeded(c) <= 1
    BY <1>1, ContainerTypes DEF BookInv, SuccessInv
  <2>2. \A c \in Containers : Aborted(c) <= 1 BY <1>1 DEF BookInv, KillInv
  <2> QED BY <2>1, <2>2 DEF ReportedOnce, Succeeded, Aborted
<1> QED BY <1>1, NodeInvariant, PTL

(* No container is lost between the lists of its node: it is in the queue,  *)
(* on its way to a heartbeat, or reported, or its entry was taken by the    *)
(* late clean-up of a container that had completed.                         *)
THEOREM NoContainerIsLost == Spec => []Accounted
<1>1. ASSUME NodeInv, BookInv PROVE Accounted
  <2> USE <1>1 DEF NodeInv, BookInv
  <2> SUFFICES ASSUME NEW t \in Tasks
               PROVE  /\ Copies(t, queue) <= launches[t]
                      /\ am[t] \notin {"new", "queue"} /\ t \notin Members(queue) =>
                            \/ Assigned(t) \in Members(completed) \cup Members(released)
                            \/ reported[Assigned(t)] # <<>>
                            \/ CompletedAndKilled(t)
    BY DEF Accounted
  <2>1. /\ Copies(t, queue) \in Nat /\ launches[t] \in 0..2 /\ Entries(t) <= launches[t]
        /\ t \notin Members(queue) => Copies(t, queue) = 0
    BY QueueFacts, EntryTypes
  <2>2. Copies(t, queue) <= launches[t] BY <2>1 DEF Entries
  <2>3. ASSUME am[t] \notin {"new", "queue"}, t \notin Members(queue)
        PROVE  \/ Assigned(t) \in Members(completed) \cup Members(released)
               \/ reported[Assigned(t)] # <<>>
               \/ CompletedAndKilled(t)
    <3>1. Entries(t) = 0 /\ launches[t] # 0 BY <2>1, <2>3 DEF Entries, LaunchInv
    <3>2. Gone(t) \/ (FirstDone(t) /\ <<t, 1>> \in killed)
      <4>1. launches[t] = 1 \/ launches[t] = 2 BY <2>1, <3>1
      <4> QED BY <3>1, <4>1 DEF EntryInv
    <3>3. completed \in Seq(Containers) /\ released \in Seq(Containers) BY DEF TypeOK
    <3>4. CASE Gone(t)
      <4>1. PICK c \in Containers : c = Assigned(t) BY <3>1, EntryTypes
      <4>2. /\ Times(c, "SUCCESS") \in Nat /\ Times(c, "ABORTED") \in Nat
            /\ Copies(c, completed) \in Nat /\ Copies(c, released) \in Nat
        BY <4>1, CountTypes
      <4>3. \/ Times(c, "SUCCESS") # 0 \/ Times(c, "ABORTED") # 0
            \/ Copies(c, completed) # 0 \/ Copies(c, released) # 0
        BY <3>4, <4>1, <4>2 DEF Gone, Succeeded, Aborted
      <4>4. Times(c, "SUCCESS") # 0 \/ Times(c, "ABORTED") # 0 => reported[c] # <<>>
        BY CopiesOne DEF Times
      <4>5. /\ Copies(c, completed) # 0 => c \in Members(completed)
            /\ Copies(c, released) # 0 => c \in Members(released)
        BY <3>3, CopiesType
      <4> QED BY <4>1, <4>3, <4>4, <4>5
    <3>5. CASE FirstDone(t) /\ <<t, 1>> \in killed
      <4> DEFINE c == <<t, 1>>
      <4>1. c \in Containers BY ContainerTypes
      <4>2. reported[c] \in Seq({"SUCCESS", "ABORTED"}) BY <4>1 DEF TypeOK
      <4> HIDE DEF c
      <4>3. Times(c, "SUCCESS") \in Nat /\ Copies(c, completed) \in Nat BY <4>1, CountTypes
      <4>4. Times(c, "SUCCESS") # 0 \/ Copies(c, completed) # 0
        BY <3>5, <4>3 DEF FirstDone, Succeeded, c
      <4>5. Times(c, "SUCCESS") # 0 => "SUCCESS" \in Members(reported[c])
        BY <4>2, CopiesType DEF Times
      <4>6. Copies(c, completed) # 0 => c \in Members(completed) BY <3>3, CopiesType
      <4> QED BY <3>5, <4>4, <4>5, <4>6 DEF CompletedAndKilled, c
    <3> QED BY <3>2, <3>4, <3>5
  <2> QED BY <2>2, <2>3
<1> QED BY <1>1, NodeInvariant, PTL

(* Where ages are counted up to the work time, no first container is        *)
(* reported completed before it was on the node for its work time.          *)
THEOREM NothingIsTooEarly ==
  ASSUME MaxAge = LifeTime
  PROVE  Spec => []NotTooEarly
<1>1. NodeInv /\ TimeInv /\ [Next]_vars => TimeInv' BY TimeStep
<1>2. Spec => []TimeInv BY <1>1, InitTime, NodeInvariant, PTL DEF Spec
<1>3. ASSUME NodeInv, TimeInv PROVE NotTooEarly
  <2> USE <1>3 DEF NodeInv
  <2> SUFFICES ASSUME NEW t \in Tasks,
                      \/ <<t, 1>> \in Members(completed)
                      \/ "SUCCESS" \in Members(reported[<<t, 1>>])
               PROVE  age[t] = LifeTime
    BY DEF NotTooEarly
  <2> DEFINE c == <<t, 1>>
  <2>1. c \in Containers BY ContainerTypes
  <2>2. completed \in Seq(Containers) /\ reported[c] \in Seq({"SUCCESS", "ABORTED"})
    BY <2>1 DEF TypeOK
  <2>3. c \in Members(completed) \/ "SUCCESS" \in Members(reported[c]) OBVIOUS
  <2> HIDE DEF c
  <2>4. Times(c, "SUCCESS") # 0 \/ Copies(c, completed) # 0
    BY <2>2, <2>3, CopiesType DEF Times
  <2>5. Times(c, "SUCCESS") \in Nat /\ Copies(c, completed) \in Nat BY <2>1, CountTypes
  <2>6. FirstDone(t) BY <2>4, <2>5 DEF FirstDone, Succeeded, c
  <2> QED BY <2>6 DEF TimeInv
<1> QED BY <1>2, <1>3, NodeInvariant, PTL
=============================================================================
