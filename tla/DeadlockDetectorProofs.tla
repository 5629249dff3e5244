----------------------- MODULE DeadlockDetectorProofs -----------------------
(***************************************************************************)
(* detectDeadlock returns a victim if and only if there is a deadlock, for *)
(* every set of transactions and every wait-for graph.                     *)
(*                                                                         *)
(* The argument is that of depth-first search. Until the first victim, the *)
(* active calls are a path of the graph, the transactions whose calls have *)
(* returned wait only for each other and have no deadlock among them, and  *)
(* a call has dealt with each successor that is no longer left. From then  *)
(* on, the marks that a search cut short has left on are on transactions   *)
(* that wait for a cycle, so that a search that meets one waits for it too.*)
(***************************************************************************)
EXTENDS DeadlockDetector, SequenceTheorems, TLAPS

Returned == visited \ inStack

\* The active calls are a path whose nodes are the marked ones.
Path ==
  /\ \A i \in 1 .. Len(stack) : stack[i] \in inStack
  /\ \A t \in inStack : \E i \in 1 .. Len(stack) : stack[i] = t
  /\ \A i, j \in 1 .. Len(stack) : stack[i] = stack[j] => i = j
  /\ \A i \in 1 .. Len(stack) - 1 : stack[i + 1] \in waitFor[stack[i]]
  /\ \A t \in inStack : left[t] \subseteq waitFor[t]
  /\ inStack \subseteq visited

\* A successor no longer left has returned, or is the next active call.
DealtWith ==
  \A i \in 1 .. Len(stack) : \A u \in waitFor[stack[i]] \ left[stack[i]] :
    u \in Returned \/ (i < Len(stack) /\ u = stack[i + 1])

\* The calls that have returned are closed under waiting, and free of deadlock.
Settled ==
  /\ \A t \in Returned : waitFor[t] \subseteq Returned
  /\ \A S \in SUBSET Returned : ~Deadlocked(S)

Inv ==
  /\ TypeOK
  /\ victims = {} => Path /\ DealtWith /\ Settled

\* With or without a victim: the active calls lead from one to the next, and a
\* mark is that of an active call or, left on, of a transaction that is doomed.
Trail ==
  /\ \A i \in 1 .. Len(stack) - 1 : stack[i + 1] \in waitFor[stack[i]]
  /\ \A i \in 1 .. Len(stack) : left[stack[i]] \subseteq waitFor[stack[i]]
  /\ \A t \in inStack : Doomed(t) \/ \E i \in 1 .. Len(stack) : stack[i] = t

-----------------------------------------------------------------------------

LEMMA InitInv == Init => Inv
BY DEF Init, Inv, TypeOK, Path, DealtWith, Settled, Returned, Deadlocked

LEMMA RootInv == ASSUME Inv, NEW t \in Txns, DfsRoot(t) PROVE Inv'
<1>1. TypeOK'
  BY DEF Inv, TypeOK, DfsRoot
<1>3. SUFFICES ASSUME victims = {}
               PROVE  Path' /\ DealtWith' /\ Settled'
  BY <1>1 DEF Inv, DfsRoot
<1>4. TypeOK /\ Path /\ Settled
  BY <1>3 DEF Inv
<1>5. inStack = {}
  BY <1>4 DEF Path, DfsRoot
<1>6. Len(stack') = 1 /\ stack'[1] = t /\ left'[t] = waitFor[t]
  BY <1>4 DEF DfsRoot, TypeOK
<1>7. Path'
  BY <1>4, <1>5, <1>6 DEF Path, DfsRoot
<1>8. DealtWith'
  BY <1>6 DEF DealtWith, DfsRoot
<1>9. Returned' = Returned
  BY <1>5 DEF DfsRoot, Returned
<1>10. Settled'
  BY <1>4, <1>9 DEF Settled, Deadlocked, DfsRoot
<1> QED BY <1>7, <1>8, <1>10

LEMMA CallInv == ASSUME Inv, NEW u \in Txns, DfsCall(u) PROVE Inv'
<1>1. TypeOK /\ stack # <<>> /\ stack \in Seq(Txns) /\ Top \in Txns
  BY DEF Inv, TypeOK, DfsCall, Top
<1>2. TypeOK'
  <2>1. left' \in [Txns -> SUBSET Txns]
    BY <1>1 DEF TypeOK, DfsCall
  <2>2. stack' \in Seq(Txns)
    BY <1>1 DEF DfsCall
  <2> QED BY <1>1, <2>1, <2>2 DEF TypeOK, DfsCall
<1>4. SUFFICES ASSUME victims = {}
               PROVE  Path' /\ DealtWith' /\ Settled'
  BY <1>2 DEF Inv, DfsCall
<1>5. Path /\ DealtWith /\ Settled
  BY <1>4 DEF Inv
<1>6. /\ Len(stack) \in Nat /\ Len(stack) >= 1
      /\ Len(stack') = Len(stack) + 1
      /\ stack'[Len(stack) + 1] = u
      /\ \A i \in 1 .. Len(stack) : stack'[i] = stack[i]
  BY <1>1 DEF DfsCall
<1>7. u \notin inStack /\ Top \in inStack /\ Top # u
  BY <1>5, <1>6 DEF DfsCall, Path, Top
<1>8. left' = [t \in Txns |-> IF t = u THEN waitFor[u] ELSE IF t = Top THEN left[t] \ {u}
                              ELSE left[t]]
  BY <1>1, <1>7 DEF DfsCall, TypeOK
<1>9. Path'
  <2>1. \A i \in 1 .. Len(stack') : stack'[i] \in inStack'
    BY <1>5, <1>6 DEF Path, DfsCall
  <2>2. \A t \in inStack' : \E i \in 1 .. Len(stack') : stack'[i] = t
    <3> SUFFICES ASSUME NEW t \in inStack'
                 PROVE  \E i \in 1 .. Len(stack) + 1 : stack'[i] = t
      BY <1>6
    <3>1. CASE t = u
      BY <3>1, <1>6
    <3>2. CASE t # u
      <4>1. PICK i \in 1 .. Len(stack) : stack[i] = t
        BY <3>2, <1>5 DEF Path, DfsCall
      <4> QED BY <4>1, <1>6
    <3> QED BY <3>1, <3>2
  <2>3. \A i, j \in 1 .. Len(stack') : stack'[i] = stack'[j] => i = j
    BY <1>5, <1>6, <1>7 DEF Path
  <2>4. \A i \in 1 .. Len(stack') - 1 : stack'[i + 1] \in waitFor'[stack'[i]]
    BY <1>5, <1>6, <1>7 DEF Path, DfsCall, Top
  <2>5. \A t \in inStack' : left'[t] \subseteq waitFor'[t]
    BY <1>1, <1>5, <1>8 DEF Path, DfsCall, TypeOK
  <2>6. inStack' \subseteq visited'
    BY <1>5 DEF Path, DfsCall
  <2> QED BY <2>1, <2>2, <2>3, <2>4, <2>5, <2>6 DEF Path
<1>10. Returned' = Returned
  BY DEF DfsCall, Returned
<1>11. DealtWith'
  <2> SUFFICES ASSUME NEW i \in 1 .. Len(stack) + 1,
                      NEW w \in waitFor[stack'[i]], w \notin left'[stack'[i]]
               PROVE  w \in Returned \/ (i < Len(stack) + 1 /\ w = stack'[i + 1])
    BY <1>6, <1>10 DEF DealtWith, DfsCall
  <2>1. CASE i < Len(stack)
    <3>1. stack[i] # Top /\ stack[i] # u /\ stack'[i] = stack[i] /\ stack'[i + 1] = stack[i + 1]
          /\ stack[i] \in Txns
      BY <2>1, <1>1, <1>5, <1>6, <1>7 DEF Path, Top
    <3> QED BY <2>1, <3>1, <1>5, <1>8 DEF DealtWith
  <2>2. CASE i = Len(stack)
    <3>1. stack[i] = Top /\ stack'[i] = Top /\ stack'[i + 1] = u
      BY <2>2, <1>6 DEF Top
    <3>2. w = u \/ w \notin left[Top]
      BY <3>1, <1>1, <1>7, <1>8
    <3> QED BY <2>2, <3>1, <3>2, <1>5, <1>6 DEF DealtWith
  <2>3. CASE i = Len(stack) + 1
    BY <2>3, <1>6, <1>8
  <2> QED BY <2>1, <2>2, <2>3, <1>6
<1>12. Settled'
  BY <1>5, <1>10 DEF Settled, Deadlocked, DfsCall
<1> QED BY <1>9, <1>11, <1>12

LEMMA CycleInv == ASSUME Inv, NEW u \in Txns, DfsCycle(u) PROVE Inv'
<1>1. TypeOK /\ Top \in Txns
  BY DEF Inv, TypeOK, DfsCycle, Top
<1>2. TypeOK'
  BY <1>1 DEF TypeOK, DfsCycle
<1>3. victims' # {}
  BY DEF DfsCycle
<1> QED BY <1>2, <1>3 DEF Inv

LEMMA SkipInv == ASSUME Inv, NEW u \in Txns, DfsSkip(u) PROVE Inv'
<1>1. TypeOK /\ stack # <<>> /\ stack \in Seq(Txns) /\ Top \in Txns
  BY DEF Inv, TypeOK, DfsSkip, Top
<1>2. TypeOK'
  BY <1>1 DEF TypeOK, DfsSkip
<1>4. SUFFICES ASSUME victims = {}
               PROVE  Path' /\ DealtWith' /\ Settled'
  BY <1>2 DEF Inv, DfsSkip
<1>5. Path /\ DealtWith /\ Settled
  BY <1>4 DEF Inv
<1>6. left' = [t \in Txns |-> IF t = Top THEN left[t] \ {u} ELSE left[t]]
  BY <1>1 DEF DfsSkip, TypeOK
<1>7. u \in Returned /\ Returned' = Returned
  BY DEF DfsSkip, Returned
<1>8. Path'
  BY <1>1, <1>5, <1>6 DEF Path, DfsSkip, TypeOK
<1>9. DealtWith'
  BY <1>1, <1>5, <1>6, <1>7 DEF DealtWith, DfsSkip
<1>10. Settled'
  BY <1>5, <1>7 DEF Settled, Deadlocked, DfsSkip
<1> QED BY <1>8, <1>9, <1>10

\* What is left of a path when its last call returns.
LEMMA PopStack ==
  ASSUME stack \in Seq(Txns), stack # <<>>
  PROVE  /\ Len(stack) \in Nat /\ Len(stack) >= 1
         /\ Pop \in Seq(Txns)
         /\ Len(Pop) = Len(stack) - 1
         /\ \A i \in 1 .. Len(stack) - 1 : Pop[i] = stack[i]
<1>1. Len(stack) \in Nat /\ Len(stack) >= 1
  OBVIOUS
<1> DEFINE n == Len(stack) - 1
<1>2. 1 \in Int /\ n \in Int /\ n \in Nat /\ \A i \in 1 .. n : stack[i] \in Txns
  BY <1>1
<1> HIDE DEF n
<1>3. /\ SubSeq(stack, 1, n) \in Seq(Txns)
      /\ Len(SubSeq(stack, 1, n)) = IF 1 <= n THEN n - 1 + 1 ELSE 0
      /\ \A i \in 1 .. n - 1 + 1 : SubSeq(stack, 1, n)[i] = stack[1 + i - 1]
  BY <1>2, SubSeqProperties
<1>4. /\ Len(SubSeq(stack, 1, n)) = n
      /\ \A i \in 1 .. n : SubSeq(stack, 1, n)[i] = stack[i]
  BY <1>2, <1>3
<1> QED BY <1>1, <1>3, <1>4 DEF Pop, n

\* A call that returns waits only for calls that have returned, and none of
\* these waits for it: no deadlock among them is new.
LEMMA ReturnInv == ASSUME Inv, DfsReturn PROVE Inv'
<1>1. TypeOK /\ stack # <<>> /\ stack \in Seq(Txns) /\ Top \in Txns
  BY DEF Inv, TypeOK, DfsReturn, Top
<1>2. /\ Len(stack) \in Nat /\ Len(stack) >= 1
      /\ stack' \in Seq(Txns)
      /\ Len(stack') = Len(stack) - 1
      /\ \A i \in 1 .. Len(stack) - 1 : stack'[i] = stack[i]
  BY <1>1, PopStack DEF DfsReturn
<1>3. TypeOK'
  BY <1>1, <1>2 DEF TypeOK, DfsReturn
<1>5. SUFFICES ASSUME victims = {}
               PROVE  Path' /\ DealtWith' /\ Settled'
  BY <1>3 DEF Inv, DfsReturn
<1>6. Path /\ DealtWith /\ Settled
  BY <1>5 DEF Inv
<1>7. Top = stack[Len(stack)] /\ Top \in inStack /\ Top \in visited
  BY <1>2, <1>6 DEF Top, Path
<1>8. Returned' = Returned \cup {Top} /\ Top \notin Returned
  BY <1>7 DEF DfsReturn, Returned
<1>9. waitFor[Top] \subseteq Returned
  BY <1>2, <1>6, <1>7 DEF DealtWith, DfsReturn
<1>10. Path'
  <2>1. \A i \in 1 .. Len(stack) - 1 : stack[i] # Top
    BY <1>2, <1>6, <1>7 DEF Path
  <2>2. \A t \in inStack' : \E i \in 1 .. Len(stack') : stack'[i] = t
    <3> SUFFICES ASSUME NEW t \in inStack, t # Top
                 PROVE  \E i \in 1 .. Len(stack) - 1 : stack'[i] = t
      BY <1>2 DEF DfsReturn
    <3>1. PICK i \in 1 .. Len(stack) : stack[i] = t
      BY <1>6 DEF Path
    <3> QED BY <3>1, <1>2, <1>7
  <2>3. \A i \in 1 .. Len(stack') : stack'[i] \in inStack'
    BY <2>1, <1>2, <1>6 DEF Path, DfsReturn
  <2>4. \A i, j \in 1 .. Len(stack') : stack'[i] = stack'[j] => i = j
    BY <1>2, <1>6 DEF Path
  <2>5. \A i \in 1 .. Len(stack') - 1 : stack'[i + 1] \in waitFor'[stack'[i]]
    BY <1>2, <1>6 DEF Path, DfsReturn
  <2>6. inStack' \subseteq visited' /\ \A t \in inStack' : left'[t] \subseteq waitFor'[t]
    BY <1>6 DEF Path, DfsReturn
  <2> QED BY <2>2, <2>3, <2>4, <2>5, <2>6 DEF Path
<1>11. DealtWith'
  <2> SUFFICES ASSUME NEW i \in 1 .. Len(stack) - 1,
                      NEW w \in waitFor[stack[i]], w \notin left[stack[i]]
               PROVE  w \in Returned \cup {Top} \/ (i < Len(stack) - 1 /\ w = stack'[i + 1])
    BY <1>2, <1>8 DEF DealtWith, DfsReturn
  <2>1. w \in Returned \/ w = stack[i + 1]
    BY <1>2, <1>6 DEF DealtWith
  <2> QED BY <2>1, <1>2, <1>7
<1>12. Settled'
  <2>1. \A t \in Returned' : waitFor'[t] \subseteq Returned'
    BY <1>6, <1>8, <1>9 DEF Settled, DfsReturn
  <2>2. ASSUME NEW S \in SUBSET Returned', Deadlocked(S)
        PROVE  FALSE
    <3> DEFINE R == S \ {Top}
    <3>1. R \in SUBSET Returned
      BY <1>8
    <3>2. \A t \in R : waitFor[t] \cap R # {}
      BY <3>1, <2>2, <1>6, <1>8 DEF Settled, Deadlocked
    <3>3. R # {}
      BY <2>2, <1>8, <1>9 DEF Deadlocked
    <3> QED BY <3>1, <3>2, <3>3, <1>6 DEF Settled, Deadlocked
  <2>3. \A S \in SUBSET Returned' : ~Deadlocked(S)'
    BY <2>2 DEF Deadlocked, DfsReturn
  <2> QED BY <2>1, <2>3 DEF Settled
<1> QED BY <1>10, <1>11, <1>12

LEMMA NextInv == Inv /\ [Next]_vars => Inv'
<1> SUFFICES ASSUME Inv, [Next]_vars PROVE Inv'
  OBVIOUS
<1>1. CASE UNCHANGED vars
  BY <1>1 DEF vars, Inv, TypeOK, Path, DealtWith, Settled, Returned, Deadlocked
<1>2. ASSUME NEW u \in Txns, DfsRoot(u) PROVE Inv'
  BY <1>2, RootInv
<1>3. ASSUME NEW u \in Txns, DfsCall(u) PROVE Inv'
  BY <1>3, CallInv
<1>4. ASSUME NEW u \in Txns, DfsCycle(u) PROVE Inv'
  BY <1>4, CycleInv
<1>5. ASSUME NEW u \in Txns, DfsSkip(u) PROVE Inv'
  BY <1>5, SkipInv
<1>6. CASE DfsReturn
  BY <1>6, ReturnInv
<1> QED BY <1>1, <1>2, <1>3, <1>4, <1>5, <1>6 DEF Next

\* The search state is what depth-first search makes of it at every step.
THEOREM SearchInvariant == Spec => []Inv
<1>1. Init => Inv
  BY InitInv
<1>2. Inv /\ [Next]_vars => Inv'
  BY NextInv
<1> QED BY <1>1, <1>2, PTL DEF Spec

\* All variables keep their types.
THEOREM DetectorTyped == Spec => []TypeOK
<1>1. Inv => TypeOK
  BY DEF Inv
<1> QED BY <1>1, SearchInvariant, PTL

\* Who waits for a doomed transaction, or for one on the path to it, is doomed:
\* the path joins the deadlocked set.
LEMMA PathDoomed ==
  ASSUME TypeOK, Trail, NEW u \in Txns, DfsCycle(u)
  PROVE  \A i \in 1 .. Len(stack) : Doomed(stack[i])
<1>1. /\ Len(stack) \in Nat /\ Len(stack) >= 1
      /\ \A i \in 1 .. Len(stack) : stack[i] \in Txns
  BY DEF TypeOK, DfsCycle
<1> DEFINE path == {stack[i] : i \in 1 .. Len(stack)}
<1>2. u \in path \/ Doomed(u)
  BY DEF Trail, DfsCycle
<1>3. PICK D \in SUBSET Txns : (\A t \in D : waitFor[t] \cap D # {}) /\ u \in path \cup D
  <2>1. CASE u \in path
    <3>1. {} \in SUBSET Txns /\ (\A t \in {} : waitFor[t] \cap {} # {}) /\ u \in path \cup {}
      BY <2>1
    <3> QED BY <3>1
  <2>2. CASE Doomed(u)
    BY <2>2 DEF Doomed, Deadlocked
  <2> QED BY <1>2, <2>1, <2>2
<1> DEFINE S == path \cup D
<1>4. S \in SUBSET Txns /\ S # {}
  BY <1>1
<1>5. ASSUME NEW t \in S PROVE waitFor[t] \cap S # {}
  <2>1. CASE t \in D
    BY <2>1, <1>3
  <2>2. ASSUME NEW i \in 1 .. Len(stack), t = stack[i] PROVE waitFor[t] \cap S # {}
    <3>1. CASE i = Len(stack)
      <4>1. u \in waitFor[t]
        BY <2>2, <3>1, <1>1 DEF Trail, DfsCycle, Top
      <4> QED BY <4>1, <1>3
    <3>2. CASE i # Len(stack)
      <4>1. i \in 1 .. Len(stack) - 1 /\ i + 1 \in 1 .. Len(stack)
        BY <3>2, <1>1
      <4>2. stack[i + 1] \in waitFor[t] /\ stack[i + 1] \in S
        BY <2>2, <4>1 DEF Trail
      <4> QED BY <4>2
    <3> QED BY <3>1, <3>2
  <2> QED BY <2>1, <2>2
<1>6. Deadlocked(S)
  BY <1>4, <1>5 DEF Deadlocked
<1> QED BY <1>4, <1>6 DEF Doomed

LEMMA TrailStep == ASSUME TypeOK, Trail, NoFalseAlarm, [Next]_vars PROVE Trail' /\ NoFalseAlarm'
<1>1. \A t : Doomed(t)' <=> Doomed(t)
  BY DEF Doomed, Deadlocked, Next, vars, DfsRoot, DfsCall, DfsCycle, DfsSkip, DfsReturn
<1>2. CASE UNCHANGED vars
  BY <1>1, <1>2 DEF vars, Trail, NoFalseAlarm
<1>3. ASSUME NEW u \in Txns, DfsRoot(u) PROVE Trail' /\ NoFalseAlarm'
  <2>1. NoFalseAlarm'
    BY <1>1, <1>3 DEF NoFalseAlarm, DfsRoot
  <2>2. Len(stack') = 1 /\ stack'[1] = u /\ left'[u] = waitFor[u]
    BY <1>3 DEF DfsRoot, TypeOK
  <2>3. \A t \in inStack' : Doomed(t) \/ t = u
    BY <1>3 DEF Trail, DfsRoot
  <2> QED BY <1>1, <1>3, <2>1, <2>2, <2>3 DEF Trail, DfsRoot
<1>4. ASSUME NEW u \in Txns, DfsCall(u) PROVE Trail' /\ NoFalseAlarm'
  <2>1. NoFalseAlarm'
    BY <1>1, <1>4 DEF NoFalseAlarm, DfsCall
  <2>2. /\ Len(stack) \in Nat /\ Len(stack) >= 1 /\ Top \in Txns /\ Top = stack[Len(stack)]
        /\ Len(stack') = Len(stack) + 1
        /\ stack'[Len(stack) + 1] = u
        /\ \A i \in 1 .. Len(stack) : stack'[i] = stack[i] /\ stack[i] \in Txns
    BY <1>4 DEF DfsCall, TypeOK, Top
  <2>3. \A t \in Txns : left'[t] \in {waitFor[t], left[t], left[t] \ {u}}
    BY <1>4, <2>2 DEF DfsCall, TypeOK
  <2>4. \A i \in 1 .. Len(stack') - 1 : stack'[i + 1] \in waitFor'[stack'[i]]
    BY <1>4, <2>2 DEF Trail, DfsCall
  <2>5. \A i \in 1 .. Len(stack') : left'[stack'[i]] \subseteq waitFor'[stack'[i]]
    <3>1. left'[u] = waitFor[u] /\ waitFor' = waitFor
      BY <1>4 DEF DfsCall, TypeOK
    <3>2. ASSUME NEW i \in 1 .. Len(stack) PROVE left'[stack[i]] \subseteq waitFor[stack[i]]
      <4>1. left[stack[i]] \subseteq waitFor[stack[i]] /\ stack[i] \in Txns
        BY <2>2 DEF Trail
      <4> QED BY <4>1, <2>3
    <3>3. ASSUME NEW i \in 1 .. Len(stack') PROVE left'[stack'[i]] \subseteq waitFor[stack'[i]]
      <4>1. i \in 1 .. Len(stack) \/ stack'[i] = u
        BY <2>2
      <4> QED BY <4>1, <2>2, <3>1, <3>2
    <3> QED BY <3>1, <3>3
  <2>6. \A t \in inStack' : Doomed(t) \/ \E i \in 1 .. Len(stack') : stack'[i] = t
    <3> SUFFICES ASSUME NEW t \in inStack', ~Doomed(t)
                 PROVE  \E i \in 1 .. Len(stack) + 1 : stack'[i] = t
      BY <2>2
    <3>1. CASE t = u
      BY <3>1, <2>2
    <3>2. CASE t # u
      <4>1. PICK i \in 1 .. Len(stack) : stack[i] = t
        BY <3>2, <1>4 DEF Trail, DfsCall
      <4> QED BY <4>1, <2>2
    <3> QED BY <3>1, <3>2
  <2> QED BY <1>1, <2>1, <2>4, <2>5, <2>6 DEF Trail
<1>5. ASSUME NEW u \in Txns, DfsCycle(u) PROVE Trail' /\ NoFalseAlarm'
  <2>1. \A i \in 1 .. Len(stack) : Doomed(stack[i])
    BY <1>5, PathDoomed
  <2>2. Doomed(Top) /\ \A t \in inStack : Doomed(t)
    BY <1>5, <2>1 DEF Trail, Top, TypeOK, DfsCycle
  <2>3. Len(stack') = 0
    BY <1>5 DEF DfsCycle
  <2> QED BY <1>1, <1>5, <2>2, <2>3 DEF Trail, NoFalseAlarm, DfsCycle
<1>6. ASSUME NEW u \in Txns, DfsSkip(u) PROVE Trail' /\ NoFalseAlarm'
  <2>1. NoFalseAlarm'
    BY <1>1, <1>6 DEF NoFalseAlarm, DfsSkip
  <2>2. \A i \in 1 .. Len(stack) : left'[stack[i]] \subseteq left[stack[i]]
    BY <1>6 DEF DfsSkip, TypeOK, Top
  <2> QED BY <1>1, <1>6, <2>1, <2>2 DEF Trail, DfsSkip
<1>7. CASE DfsReturn
  <2>1. NoFalseAlarm'
    BY <1>1, <1>7 DEF NoFalseAlarm, DfsReturn
  <2>2. /\ Len(stack) \in Nat /\ Len(stack) >= 1
        /\ Len(stack') = Len(stack) - 1
        /\ \A i \in 1 .. Len(stack) - 1 : stack'[i] = stack[i]
    BY <1>7, PopStack DEF DfsReturn, TypeOK
  <2>3. \A t \in inStack' : Doomed(t) \/ \E i \in 1 .. Len(stack') : stack'[i] = t
    <3> SUFFICES ASSUME NEW t \in inStack, t # Top, ~Doomed(t)
                 PROVE  \E i \in 1 .. Len(stack) - 1 : stack'[i] = t
      BY <1>7, <2>2 DEF DfsReturn
    <3>1. PICK i \in 1 .. Len(stack) : stack[i] = t
      BY DEF Trail
    <3> QED BY <3>1, <2>2 DEF Top
  <2>4. waitFor' = waitFor /\ left' = left
    BY <1>7 DEF DfsReturn
  <2>5. \A i \in 1 .. Len(stack') - 1 : stack'[i + 1] \in waitFor[stack'[i]]
    BY <2>2 DEF Trail
  <2>6. \A i \in 1 .. Len(stack') : left[stack'[i]] \subseteq waitFor[stack'[i]]
    BY <2>2 DEF Trail
  <2> QED BY <1>1, <2>1, <2>3, <2>4, <2>5, <2>6 DEF Trail
<1> QED BY <1>2, <1>3, <1>4, <1>5, <1>6, <1>7 DEF Next

\* Every victim is doomed to wait for ever, for any number of transactions: no
\* transaction that could go on by itself is rolled back (detectDeadlock, line 156).
THEOREM DetectorSound == Spec => []NoFalseAlarm
<1>1. Init => Trail /\ NoFalseAlarm
  BY DEF Init, Trail, NoFalseAlarm
<1>2. TypeOK /\ Trail /\ NoFalseAlarm /\ [Next]_vars => Trail' /\ NoFalseAlarm'
  BY TrailStep
<1> QED BY <1>1, <1>2, DetectorTyped, PTL DEF Spec

\* When the search ends without a victim there is no deadlock, for any number
\* of transactions.
THEOREM DetectorComplete == Spec => []NoMissedDeadlock
<1>1. Inv => NoMissedDeadlock
  <2> SUFFICES ASSUME Inv, Done, victims = {}, NEW S \in SUBSET Txns, Deadlocked(S)
               PROVE  FALSE
    BY DEF NoMissedDeadlock
  <2>1. Path /\ Settled
    BY DEF Inv
  <2>2. inStack = {}
    BY <2>1 DEF Path, Done
  <2>3. S \subseteq Returned
    BY <2>2 DEF Done, Deadlocked, Returned
  <2> QED BY <2>1, <2>3 DEF Settled
<1> QED BY <1>1, SearchInvariant, PTL
=============================================================================
