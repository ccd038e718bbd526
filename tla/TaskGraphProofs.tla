-------------------------- MODULE TaskGraphProofs --------------------------
(***************************************************************************)
(* The board of tasks: what an acyclic graph promises, which edits keep it *)
(* acyclic, that numbers stay apart, that the work of others is kept and   *)
(* that an import is faithful.                                             *)
(*                                                                         *)
(* That on cannot be reached from t is witnessed by a set that is closed   *)
(* under dependencies, holds t and not on; the proofs build such sets.     *)
(* What the folds of an import leave is shown along their trace: a state   *)
(* after each row, or edge, and an invariant of it.                        *)
(***************************************************************************)
EXTENDS TaskGraph, FiniteSetTheorems, NaturalsInduction, WellFoundedInduction, TLAPS

ClosedIn(b, S) == \A s \in S : Deps(b, s) \subseteq S

LEMMA Witness ==
  ASSUME NEW b, NEW s, NEW t
  PROVE  ~DepReaches(b, s, t) <=> \E S \in SUBSET Task : s \in S /\ t \notin S /\ ClosedIn(b, S)
BY DEF DepReaches, ClosedIn

(***************************************************************************)
(* The frontier.                                                           *)
(***************************************************************************)
Reach(b, t) == {u \in Task : DepReaches(b, t, u)}

\* Along a dependency of an acyclic graph there is less to reach.
LEMMA ReachShrinks ==
  ASSUME NEW b, Acyclic(b), NEW t \in Task, NEW d \in Deps(b, t)
  PROVE  /\ Reach(b, d) \subseteq Reach(b, t)
         /\ t \in Reach(b, t) \ Reach(b, d)
<1>1. Reach(b, d) \subseteq Reach(b, t)
  <2> SUFFICES ASSUME NEW u \in Task, DepReaches(b, d, u), NEW S \in SUBSET Task,
                      t \in S, \A s \in S : Deps(b, s) \subseteq S
               PROVE  u \in S
    BY DEF Reach, DepReaches
  <2>1. d \in S
    OBVIOUS
  <2> QED BY <2>1 DEF DepReaches
<1>2. t \in Reach(b, t)
  BY DEF Reach, DepReaches
<1>3. t \notin Reach(b, d)
  BY DEF Acyclic, Reach
<1> QED BY <1>1, <1>2, <1>3

\* A nonempty set of tasks has a member from which no other member of the set reaches
\* fewer tasks.
LEMMA LeastReach ==
  ASSUME NEW b, NEW O \in SUBSET Task, O # {}
  PROVE  \E t \in O : \A u \in O : ~(Cardinality(Reach(b, u)) < Cardinality(Reach(b, t)))
<1> DEFINE C == {Cardinality(Reach(b, t)) : t \in O}
<1>1. \A t \in O : Cardinality(Reach(b, t)) \in Nat
  <2> TAKE t \in O
  <2>1. Reach(b, t) \in SUBSET Task
    BY DEF Reach
  <2>2. IsFiniteSet(Reach(b, t))
    BY <2>1, RowAssumption, FS_Subset
  <2> QED BY <2>2, FS_CardinalityType
<1>2. C \subseteq Nat /\ C # {}
  BY <1>1
<1> HIDE DEF C
<1>3. \E x \in C : \A y \in C : ~(<<y, x>> \in OpToRel(<, Nat))
  BY <1>2, NatLessThanWellFounded, WFMin
<1>4. PICK x \in C : \A y \in C : ~(y < x)
  BY <1>2, <1>3 DEF OpToRel
<1>5. PICK t \in O : x = Cardinality(Reach(b, t))
  BY <1>4 DEF C
<1> QED BY <1>4, <1>5 DEF C

\* An acyclic board with an open task has one that can be worked on.
LEMMA SomeReady ==
  ASSUME NEW b, Acyclic(b), NEW o \in On(b), b[o].status # "done"
  PROVE  \E t \in On(b) : IsReadyNode(b, t)
<1> DEFINE O == {t \in On(b) : b[t].status # "done"}
<1>1. O \in SUBSET Task /\ O # {}
  BY DEF On
<1> HIDE DEF O
<1>2. PICK t \in O : \A u \in O : ~(Cardinality(Reach(b, u)) < Cardinality(Reach(b, t)))
  BY <1>1, LeastReach
<1>3. t \in On(b) /\ b[t].status # "done" /\ t \in Task /\ b[t] # None
  BY <1>2 DEF O, On
<1>4. Blocking(b, t) = {}
  <2> SUFFICES ASSUME NEW d \in Blocking(b, t) PROVE FALSE
    OBVIOUS
  <2>1. d \in Deps(b, t) /\ d \in O
    BY <1>3 DEF Blocking, Deps, O
  <2>2. Reach(b, d) \subseteq Reach(b, t) /\ Reach(b, d) # Reach(b, t)
    BY <1>3, <2>1, ReachShrinks
  <2>3. IsFiniteSet(Reach(b, t)) /\ Reach(b, t) \in SUBSET Task
    <3>1. Reach(b, t) \in SUBSET Task
      BY DEF Reach
    <3> QED BY <3>1, RowAssumption, FS_Subset
  <2>4. /\ IsFiniteSet(Reach(b, d))
        /\ Cardinality(Reach(b, d)) <= Cardinality(Reach(b, t))
        /\ Cardinality(Reach(b, t)) # Cardinality(Reach(b, d))
    BY <2>2, <2>3, FS_Subset
  <2>5. Cardinality(Reach(b, d)) \in Nat /\ Cardinality(Reach(b, t)) \in Nat
    BY <2>3, <2>4, FS_CardinalityType
  <2> QED BY <1>2, <2>1, <2>4, <2>5
<1> QED BY <1>3, <1>4 DEF IsReadyNode

\* While a task is open and no cycle was made there is a task to work on, however many
\* tasks there are and whichever were deleted (isReadyNode, scripts/cli/board/todos.mjs:
\* a prerequisite that is gone does not block).
THEOREM FrontierNeverEmpty == Spec => []Frontier
<1>1. Frontier
  BY SomeReady DEF Frontier
<1> QED BY <1>1, PTL

(***************************************************************************)
(* Edits.                                                                  *)
(***************************************************************************)
Boards == [Task -> Row \cup {None}]

\* Fewer dependencies make no cycle.
LEMMA FewerKeepAcyclic ==
  ASSUME NEW b, NEW c, Acyclic(b), \A t \in Task : Deps(c, t) \subseteq Deps(b, t)
  PROVE  Acyclic(c)
<1> SUFFICES ASSUME NEW t \in Task, NEW d \in Deps(c, t)
             PROVE  ~DepReaches(c, d, t)
  BY DEF Acyclic
<1>1. ~DepReaches(b, d, t)
  BY DEF Acyclic
<1>2. PICK S \in SUBSET Task : d \in S /\ t \notin S /\ ClosedIn(b, S)
  BY <1>1, Witness
<1>3. ClosedIn(c, S)
  BY <1>2 DEF ClosedIn
<1> QED BY <1>2, <1>3, Witness

\* An edge from one task to another from which it cannot be reached makes no cycle.
LEMMA OneMoreKeepsAcyclic ==
  ASSUME NEW b, NEW c, NEW from \in Task, NEW on \in Task,
         Acyclic(b), ~DepReaches(b, on, from),
         \A t \in Task : Deps(c, t) \subseteq
                         IF t = from THEN Deps(b, t) \cup {on} ELSE Deps(b, t)
  PROVE  Acyclic(c)
<1> SUFFICES ASSUME NEW t \in Task, NEW d \in Deps(c, t)
             PROVE  ~DepReaches(c, d, t)
  BY DEF Acyclic
<1>1. PICK S2 \in SUBSET Task : on \in S2 /\ from \notin S2 /\ ClosedIn(b, S2)
  BY Witness
<1>2. ClosedIn(c, S2)
  BY <1>1 DEF ClosedIn
<1>3. CASE t = from /\ d = on
  BY <1>1, <1>2, <1>3, Witness
<1>4. CASE ~(t = from /\ d = on)
  <2>1. d \in Deps(b, t)
    BY <1>4
  <2>2. ~DepReaches(b, d, t)
    BY <2>1 DEF Acyclic
  <2>3. PICK S1 \in SUBSET Task : d \in S1 /\ t \notin S1 /\ ClosedIn(b, S1)
    BY <2>2, Witness
  <2>4. CASE t \in S2
    <3>1. d \in S1 \cap S2
      BY <1>1, <2>1, <2>3, <2>4 DEF ClosedIn
    <3>2. ClosedIn(c, S1 \cap S2)
      BY <1>1, <2>3 DEF ClosedIn
    <3>3. S1 \cap S2 \in SUBSET Task /\ t \notin S1 \cap S2
      BY <2>3
    <3> QED BY <3>1, <3>2, <3>3, Witness
  <2>5. CASE t \notin S2
    <3>1. ClosedIn(c, S1 \cup S2)
      BY <1>1, <2>3 DEF ClosedIn
    <3>2. S1 \cup S2 \in SUBSET Task /\ d \in S1 \cup S2 /\ t \notin S1 \cup S2
      BY <2>3, <2>5
    <3> QED BY <3>1, <3>2, Witness
  <2> QED BY <2>4, <2>5
<1> QED BY <1>3, <1>4

\* What add_dep and the CLI's dep add store (todos.rs, the search from the new
\* prerequisite) is acyclic if the board was.
THEOREM AddEdgeKeepsAcyclic ==
  ASSUME NEW b \in Boards, NEW from \in Task, NEW on \in Task, Acyclic(b)
  PROVE  Acyclic(AddEdge(b, from, on))
<1> DEFINE c == [b EXCEPT ![from].deps = @ \cup {on}, ![from].stamp = Local]
<1>1. CASE DepAllowed(b, from, on) /\ on \notin b[from].deps
  <2>1. b[from] \in Row /\ b[from] # None
    BY <1>1 DEF DepAllowed, On, Boards
  <2>2. \A t \in Task : t # from => c[t] = b[t]
    BY DEF Boards
  <2>3. c[from].deps = b[from].deps \cup {on}
    BY <2>1 DEF Boards, Row
  <2>4. \A t \in Task : Deps(c, t) \subseteq
                        IF t = from THEN Deps(b, t) \cup {on} ELSE Deps(b, t)
    BY <2>1, <2>2, <2>3 DEF Deps
  <2> HIDE DEF c
  <2>5. Acyclic(c)
    BY <1>1, <2>4, OneMoreKeepsAcyclic DEF DepAllowed
  <2> QED BY <1>1, <2>5 DEF AddEdge, c
<1>2. CASE ~(DepAllowed(b, from, on) /\ on \notin b[from].deps)
  BY <1>2 DEF AddEdge
<1> QED BY <1>1, <1>2

LEMMA RemoveEdgeKeepsAcyclic ==
  ASSUME NEW b \in Boards, NEW from \in Task, NEW on \in Task, Acyclic(b)
  PROVE  Acyclic(RemoveEdge(b, from, on))
<1> DEFINE c == [b EXCEPT ![from].deps = @ \ {on}, ![from].stamp = Local]
<1>1. CASE on \in Deps(b, from)
  <2>1. b[from] \in Row /\ b[from] # None
    BY <1>1 DEF Deps, Boards
  <2>2. \A t \in Task : t # from => c[t] = b[t]
    BY DEF Boards
  <2>3. c[from].deps = b[from].deps \ {on}
    BY <2>1 DEF Boards, Row
  <2>4. \A t \in Task : Deps(c, t) \subseteq Deps(b, t)
    BY <2>1, <2>2, <2>3 DEF Deps
  <2> HIDE DEF c
  <2>5. Acyclic(c)
    BY <2>4, FewerKeepAcyclic
  <2> QED BY <1>1, <2>5 DEF RemoveEdge, c
<1>2. CASE on \notin Deps(b, from)
  BY <1>2 DEF RemoveEdge
<1> QED BY <1>1, <1>2

CliEdit(t, u, st, force) ==
  \/ CliAddDep(t, u) \/ CliRemoveDep(t, u) \/ CliRemove(t) \/ CliSetStatus(t, st, force)

\* The CLI keeps an acyclic board acyclic: it adds an edge after the same search, rm
\* takes edges away and leaves none that points at nothing (cmdRemove,
\* scripts/cli/board/todos.mjs).
THEOREM CliKeepsAcyclic ==
  ASSUME board \in Boards, Acyclic(board), NEW t \in Task, NEW u \in Task,
         NEW st \in Status, NEW force \in BOOLEAN, CliEdit(t, u, st, force)
  PROVE  Acyclic(board')
<1>1. CASE CliAddDep(t, u)
  BY <1>1, AddEdgeKeepsAcyclic DEF CliAddDep, Store
<1>2. CASE CliRemoveDep(t, u)
  BY <1>2, RemoveEdgeKeepsAcyclic DEF CliRemoveDep, Store
<1>3. CASE CliRemove(t)
  <2>1. \A v \in Task : Deps(board', v) \subseteq Deps(board, v)
    <3> TAKE v \in Task
    <3>1. CASE v = t
      BY <1>3, <3>1 DEF CliRemove, Store, Deps
    <3>2. CASE v # t /\ (board[v] = None \/ t \notin board[v].deps)
      BY <1>3, <3>2 DEF CliRemove, Store, Deps
    <3>3. CASE v # t /\ board[v] # None /\ t \in board[v].deps
      <4>1. board[v] \in Row
        BY <3>3 DEF Boards
      <4>2. board'[v] = [board[v] EXCEPT !.deps = @ \ {t}, !.stamp = Local]
        BY <1>3, <3>3 DEF CliRemove, Store
      <4>3. board'[v].deps = board[v].deps \ {t}
        BY <4>1, <4>2 DEF Row
      <4> QED BY <3>3, <4>3 DEF Deps
    <3> QED BY <3>1, <3>2, <3>3
  <2> QED BY <2>1, FewerKeepAcyclic
<1>4. CASE CliSetStatus(t, st, force)
  <2>1. board[t] \in Row /\ board[t] # None
    BY <1>4 DEF CliSetStatus, Boards
  <2>2. board' = [board EXCEPT ![t] = Moved(@, st)]
    BY <1>4 DEF CliSetStatus, Store
  <2>3. Moved(board[t], st).deps = board[t].deps
    BY <2>1 DEF Moved, Row
  <2>4. \A v \in Task : Deps(board', v) \subseteq Deps(board, v)
    BY <2>1, <2>2, <2>3 DEF Deps, Boards
  <2> QED BY <2>4, FewerKeepAcyclic
<1> QED BY <1>1, <1>2, <1>3, <1>4 DEF CliEdit

(***************************************************************************)
(* Finite sets, intervals and folds.  A fold over a sequence is a function *)
(* that is chosen for its equation: that one with this equation exists is  *)
(* shown by the least size at which it would not, which FoldExists says of *)
(* any step.                                                               *)
(***************************************************************************)
LEMMA MinMember ==
  ASSUME NEW S \in SUBSET Nat, S # {}
  PROVE  Min(S) \in S /\ \A y \in S : Min(S) <= y
<1>1. \E x \in S : \A y \in S : ~(<<y, x>> \in OpToRel(<, Nat))
  BY NatLessThanWellFounded, WFMin
<1>2. PICK x \in S : \A y \in S : ~(y < x)
  BY <1>1 DEF OpToRel
<1>3. \A y \in S : x =< y
  BY <1>2
<1> QED BY <1>3 DEF Min

LEMMA MaxMember ==
  ASSUME NEW n \in Nat, NEW S \in SUBSET (0..n), S # {}
  PROVE  Max(S) \in S /\ \A y \in S : Max(S) >= y
<1> DEFINE T == {n - x : x \in S}
<1>1. T \in SUBSET Nat /\ T # {}
  <2>1. \A x \in S : n - x \in Nat
    OBVIOUS
  <2>2. PICK x \in S : TRUE
    OBVIOUS
  <2>3. n - x \in T
    OBVIOUS
  <2> QED BY <2>1, <2>3
<1>2. Min(T) \in T /\ \A y \in T : Min(T) <= y
  <2> HIDE DEF T
  <2> QED BY <1>1, MinMember
<1>3. PICK x \in S : Min(T) = n - x
  BY <1>2
<1>4. \A y \in S : x >= y
  <2> TAKE y \in S
  <2>1. n - x <= n - y
    BY <1>2, <1>3
  <2> QED BY <2>1
<1> QED BY <1>4 DEF Max

LEMMA IntervalInduction ==
  ASSUME NEW n \in Nat, NEW S, 0 \in S, \A k \in 1..n : k - 1 \in S => k \in S
  PROVE  0..n \subseteq S
<1> DEFINE B == {k \in 0..n : k \notin S}
<1>1. ASSUME B # {} PROVE FALSE
  <2>1. B \in SUBSET Nat
    OBVIOUS
  <2>2. PICK k \in B : \A m \in B : k <= m
    <3> HIDE DEF B
    <3> QED BY <1>1, <2>1, MinMember
  <2>3. k \in 1..n /\ k \notin S
    OBVIOUS
  <2>4. k - 1 \in 0..n /\ ~(k <= k - 1)
    BY <2>3
  <2>5. k - 1 \in S
    BY <2>2, <2>4
  <2> QED BY <2>3, <2>5
<1> QED BY <1>1

\* Finitely many numbers have a bound.
LEMMA PrefixBound ==
  ASSUME NEW n \in Nat, NEW g \in [1..n -> Nat]
  PROVE  \E b \in Nat : \A i \in 1..n : g[i] <= b
<1> DEFINE Bounded(k) == \E b \in Nat : \A i \in 1..k : g[i] <= b
           S == {k \in 0..n : ~Bounded(k)}
<1>1. Bounded(0)
  <2>1. \A i \in 1..0 : g[i] <= 0
    OBVIOUS
  <2> QED BY <2>1
<1>2. ASSUME NEW k \in 1..n, Bounded(k - 1) PROVE Bounded(k)
  <2>1. PICK b \in Nat : \A i \in 1..(k - 1) : g[i] <= b
    BY <1>2
  <2>2. g[k] \in Nat /\ b + g[k] \in Nat
    OBVIOUS
  <2>3. ASSUME NEW i \in 1..k PROVE g[i] <= b + g[k]
    <3>1. g[i] \in Nat /\ (i = k \/ i \in 1..(k - 1))
      OBVIOUS
    <3> QED BY <2>1, <2>2, <3>1
  <2> QED BY <2>2, <2>3
<1> HIDE DEF Bounded
<1>3. ASSUME S # {} PROVE FALSE
  <2>1. S \in SUBSET Nat
    OBVIOUS
  <2>2. PICK k \in S : \A m \in S : k <= m
    <3> HIDE DEF S
    <3> QED BY <1>3, <2>1, MinMember
  <2>3. k \in 1..n /\ ~Bounded(k)
    BY <1>1
  <2>4. k - 1 \in 0..n /\ ~(k <= k - 1)
    BY <2>3
  <2>5. Bounded(k - 1)
    BY <2>2, <2>4
  <2> QED BY <1>2, <2>3, <2>5
<1>4. Bounded(n)
  BY <1>3
<1> QED BY <1>4 DEF Bounded

LEMMA FamilyBound ==
  ASSUME NEW I, IsFiniteSet(I), NEW g \in [I -> Nat]
  PROVE  \E b \in Nat : \A i \in I : g[i] <= b
<1>1. PICK n \in Nat : ExistsSurjection(1..n, I)
  BY FS_NatSurjection
<1>2. PICK s \in [1..n -> I] : \A i \in I : \E k \in 1..n : s[k] = i
  BY <1>1 DEF ExistsSurjection, Surjection
<1> DEFINE h == [k \in 1..n |-> g[s[k]]]
<1>3. h \in [1..n -> Nat]
  BY <1>2
<1>4. PICK b \in Nat : \A k \in 1..n : h[k] <= b
  <2> HIDE DEF h
  <2> QED BY <1>3, PrefixBound
<1> QED BY <1>2, <1>4

\* A finite set of numbers has a greatest member.
LEMMA FiniteMax ==
  ASSUME NEW S \in SUBSET Nat, IsFiniteSet(S), S # {}
  PROVE  Max(S) \in S /\ \A y \in S : Max(S) >= y
<1> DEFINE g == [x \in S |-> x]
<1>1. g \in [S -> Nat]
  OBVIOUS
<1>2. PICK b \in Nat : \A x \in S : g[x] <= b
  <2> HIDE DEF g
  <2> QED BY <1>1, FamilyBound
<1>3. S \in SUBSET (0..b)
  BY <1>2
<1> QED BY <1>3, MaxMember

\* What a fold over a finite set chooses exists.
Chooser(c, S) == \A T \in SUBSET S : T # {} => c[T] \in T
Within(F, A, S) == \A a \in A, x \in S : F[<<a, x>>] \in A
Folded(g, S, a0, c, F) ==
  \A T \in SUBSET S : g[T] = IF T = {} THEN a0 ELSE F[<<g[T \ {c[T]}], c[T]>>]

LEMMA FoldExists ==
  ASSUME NEW S, IsFiniteSet(S), NEW A, NEW a0 \in A, NEW c, Chooser(c, S),
         NEW F, Within(F, A, S)
  PROVE  \E g \in [SUBSET S -> A] : Folded(g, S, a0, c, F)
<1> USE DEF Chooser, Within, Folded
<1> DEFINE n == Cardinality(S)
           Size(T) == Cardinality(T)
           Eq(g, T) == g[T] = IF T = {} THEN a0 ELSE F[<<g[T \ {c[T]}], c[T]>>]
           Upto(k) == \E g \in [SUBSET S -> A] : \A T \in SUBSET S : Size(T) <= k => Eq(g, T)
           K == {k \in 0..n : Upto(k)}
<1>1. n \in Nat
  BY FS_CardinalityType
<1>2. ASSUME NEW T \in SUBSET S
      PROVE  /\ Size(T) \in 0..n
             /\ Size(T) = 0 <=> T = {}
             /\ T # {} => T \ {c[T]} \in SUBSET S /\ Size(T \ {c[T]}) = Size(T) - 1
  <2>1. IsFiniteSet(T) /\ Size(T) <= n
    BY FS_Subset
  <2>2. Size(T) \in Nat
    BY <2>1, FS_CardinalityType
  <2>3. Size(T) = 0 <=> T = {}
    BY <2>1, FS_EmptySet
  <2>4. T # {} => Size(T \ {c[T]}) = Size(T) - 1
    BY <2>1, FS_RemoveElement
  <2> QED BY <1>1, <2>1, <2>2, <2>3, <2>4
<1> HIDE DEF Size
<1>3. 0 \in K
  <2> DEFINE g == [T \in SUBSET S |-> a0]
  <2>1. g \in [SUBSET S -> A]
    OBVIOUS
  <2>2. ASSUME NEW T \in SUBSET S, Size(T) <= 0 PROVE Eq(g, T)
    <3>1. Size(T) = 0
      <4>1. Size(T) \in 0..n
        BY <1>2
      <4> HIDE DEF n
      <4> QED BY <1>1, <2>2, <4>1
    <3>2. T = {}
      BY <1>2, <3>1
    <3> QED BY <3>2
  <2> HIDE DEF g, Eq
  <2> QED BY <2>1, <2>2, <1>1
<1>4. ASSUME NEW k \in 1..n, k - 1 \in K PROVE k \in K
  <2>1. PICK g \in [SUBSET S -> A] : \A T \in SUBSET S : Size(T) <= k - 1 => Eq(g, T)
    <3> HIDE DEF Eq
    <3> QED BY <1>4
  <2> DEFINE h == [T \in SUBSET S |-> IF T = {} THEN a0 ELSE F[<<g[T \ {c[T]}], c[T]>>]]
  <2>2. h \in [SUBSET S -> A]
    <3> SUFFICES ASSUME NEW T \in SUBSET S, T # {} PROVE F[<<g[T \ {c[T]}], c[T]>>] \in A
      OBVIOUS
    <3>1. c[T] \in S /\ g[T \ {c[T]}] \in A
      BY <1>2
    <3> QED BY <3>1
  <2>3. \A T \in SUBSET S : Size(T) <= k - 1 => h[T] = g[T]
    BY <2>1
  <2>4. ASSUME NEW T \in SUBSET S, Size(T) <= k PROVE Eq(h, T)
    <3>1. CASE T = {}
      BY <3>1
    <3>2. CASE T # {}
      <4> DEFINE U == T \ {c[T]}
      <4>1. U \in SUBSET S /\ Size(U) <= k - 1
        BY <1>1, <1>2, <2>4, <3>2
      <4>2. h[U] = g[U]
        BY <2>3, <4>1
      <4>3. h[T] = F[<<g[U], c[T]>>]
        BY <3>2
      <4> HIDE DEF h
      <4> QED BY <4>2, <4>3, <3>2
    <3> QED BY <3>1, <3>2
  <2> HIDE DEF h, Eq
  <2> QED BY <2>2, <2>4
<1>5. n \in K
  <2> HIDE DEF K
  <2>1. 0..n \subseteq K
    BY <1>1, <1>3, <1>4, IntervalInduction
  <2> QED BY <2>1, <1>1
<1>6. PICK g \in [SUBSET S -> A] : \A T \in SUBSET S : Size(T) <= n => Eq(g, T)
  <2> HIDE DEF Eq
  <2> QED BY <1>5
<1>7. \A T \in SUBSET S : Eq(g, T)
  <2> TAKE T \in SUBSET S
  <2>1. Size(T) \in 0..n
    BY <1>2
  <2> HIDE DEF Eq, n
  <2>2. Size(T) <= n
    BY <1>1, <2>1
  <2> QED BY <1>6, <2>2
<1> QED BY <1>7

\* The chooser of FoldLeft.
LEMMA LastChosen ==
  ASSUME NEW n \in Nat
  PROVE  /\ \A T \in SUBSET (1..n) : T # {} => Max(T) \in T
         /\ \A k \in 1..n : 1..k \in SUBSET (1..n) /\ 1..k # {} /\ Max(1..k) = k /\ (1..k) \ {k} = 1..(k - 1)
<1>1. ASSUME NEW T \in SUBSET (1..n), T # {}
      PROVE  Max(T) \in T /\ \A y \in T : Max(T) >= y
  <2>1. T \in SUBSET (0..n)
    OBVIOUS
  <2> QED BY <1>1, <2>1, MaxMember
<1>2. ASSUME NEW k \in 1..n
      PROVE  1..k \in SUBSET (1..n) /\ 1..k # {} /\ Max(1..k) = k /\ (1..k) \ {k} = 1..(k - 1)
  <2>1. 1..k \in SUBSET (1..n) /\ 1..k # {} /\ k \in 1..k /\ (1..k) \ {k} = 1..(k - 1)
    OBVIOUS
  <2>2. Max(1..k) \in 1..k /\ Max(1..k) >= k
    BY <1>1, <2>1
  <2>3. Max(1..k) = k
    BY <2>2
  <2> QED BY <2>1, <2>3
<1> QED BY <1>1, <1>2

(***************************************************************************)
(* Numbers.                                                                *)
(***************************************************************************)
LEMMA MaxNumberType ==
  ASSUME NEW b \in Boards
  PROVE  /\ MaxNumber(b) \in Nat
         /\ \A t \in Task : b[t] # None => b[t] \in Row /\ b[t].number \in Nat
                                          /\ b[t].number <= MaxNumber(b)
         /\ NumbersOf(b) \in SUBSET Nat
<1> DEFINE S == NumbersOf(b) \cup {0}
           f == [t \in On(b) |-> b[t].number]
<1>1. \A t \in Task : b[t] # None => b[t] \in Row /\ b[t].number \in Nat
  BY DEF Boards, Row
<1>2. IsFiniteSet(On(b)) /\ On(b) \in SUBSET Task
  BY RowAssumption, FS_Subset DEF On
<1> DEFINE N == {b[t].number : t \in On(b)}
<1>3. f \in Surjection(On(b), N)
  BY DEF Surjection
<1>4. IsFiniteSet(N)
  <2> HIDE DEF f, N
  <2> QED BY <1>2, <1>3, FS_Surjection
<1>5. S = N \cup {0} /\ N \in SUBSET Nat /\ NumbersOf(b) \in SUBSET Nat
  BY <1>1 DEF NumbersOf, On
<1>6. \A t \in Task : b[t] # None => b[t].number \in N
  BY DEF On
<1> HIDE DEF N, S
<1>7. IsFiniteSet(S) /\ S \in SUBSET Nat /\ S # {}
  BY <1>4, <1>5, FS_AddElement
<1>8. Max(S) \in S /\ \A y \in S : Max(S) >= y
  BY <1>7, FiniteMax
<1>9. MaxNumber(b) = Max(S)
  BY DEF MaxNumber, S
<1>10. \A t \in Task : b[t] # None => b[t].number <= MaxNumber(b)
  <2> TAKE t \in Task
  <2> HAVE b[t] # None
  <2>1. b[t].number \in S /\ b[t].number \in Nat
    BY <1>1, <1>5, <1>6
  <2>2. Max(S) >= b[t].number /\ Max(S) \in Nat
    BY <1>7, <1>8, <2>1
  <2> QED BY <1>9, <2>1, <2>2
<1> QED BY <1>1, <1>5, <1>7, <1>8, <1>9, <1>10

(***************************************************************************)
(* What an edit keeps.                                                     *)
(***************************************************************************)
KeepsDag(b, c) == Acyclic(b) => Acyclic(c)
KeepsNumbers(b, c) == UniqueNumbers(b) => UniqueNumbers(c)

Longer(s, t) == t = s \/ IsPrefix(s, t)

\* Row r has the number and the history of row q, and no dependency that q has not.
KeepsRow(q, r) == r.number = q.number /\ r.deps \subseteq q.deps /\ Longer(q.log, r.log)
Tame(b, c) == \A t \in Task : c[t] # None => b[t] # None /\ KeepsRow(b[t], c[t])
KeepsLog(b, c) == \A t \in Task : b[t] # None /\ c[t] # None => Longer(b[t].log, c[t].log)
KeepsDeclared(b, c) == \A t \in Task : b[t] # None /\ c[t] # None => c[t].declared = b[t].declared
KeepsComments(b, c) == \A t \in Task : b[t] # None /\ c[t] # None => b[t].comments \subseteq c[t].comments

\* An edit that adds no dependency and renumbers nothing is safe.
LEMMA TameKeeps ==
  ASSUME NEW b, NEW c, Tame(b, c)
  PROVE  KeepsDag(b, c) /\ KeepsNumbers(b, c) /\ KeepsLog(b, c)
<1>1. \A t \in Task : Deps(c, t) \subseteq Deps(b, t)
  BY DEF Tame, KeepsRow, Deps
<1>2. KeepsDag(b, c)
  BY <1>1, FewerKeepAcyclic DEF KeepsDag
<1>3. KeepsNumbers(b, c)
  BY DEF Tame, KeepsRow, KeepsNumbers, UniqueNumbers, On
<1>4. KeepsLog(b, c)
  BY DEF Tame, KeepsRow, KeepsLog
<1> QED BY <1>2, <1>3, <1>4

\* One row is changed.
LEMMA SetRow ==
  ASSUME NEW b \in Boards, NEW t \in Task, NEW row \in Row \cup {None}, NEW c,
         c = [b EXCEPT ![t] = row]
  PROVE  c \in Boards /\ c[t] = row /\ \A u \in Task : u # t => c[u] = b[u]
BY DEF Boards

LEMMA SetRowTame ==
  ASSUME NEW b \in Boards, NEW t \in Task, b[t] # None, NEW row \in Row, NEW c,
         c = [b EXCEPT ![t] = row], KeepsRow(b[t], row)
  PROVE  c \in Boards /\ Tame(b, c)
<1>1. c \in Boards /\ c[t] = row /\ \A u \in Task : u # t => c[u] = b[u]
  BY DEF Boards
<1>2. \A u \in Task : c[u] # None => b[u] # None /\ KeepsRow(b[u], c[u])
  BY <1>1 DEF KeepsRow, Longer
<1> QED BY <1>1, <1>2 DEF Tame

(***************************************************************************)
(* Numbering.                                                              *)
(***************************************************************************)
SameButNumber(q, r) == q.number = 0 /\ [r EXCEPT !.number = 0] = q

\* ensure_numbers gives numbers and changes nothing else.
LEMMA EnsureKeeps ==
  ASSUME NEW b \in Boards, NEW c \in EnsureNumbers(b)
  PROVE  /\ c \in Boards
         /\ \A t \in Task : /\ c[t] = None <=> b[t] = None
                            /\ c[t] = b[t] \/ SameButNumber(b[t], c[t])
                            /\ c[t] # None => /\ c[t].number > 0 /\ c[t].deps = b[t].deps
                                              /\ c[t].comments = b[t].comments
                                              /\ c[t].declared = b[t].declared
                                              /\ c[t].log = b[t].log
         /\ UniqueNumbers(b) => UniqueNumbers(c)
<1> DEFINE bare == {t \in On(b) : b[t].number = 0}
           m == MaxNumber(b)
<1>1. PICK n \in [bare -> 1..Cardinality(bare)] :
        /\ \A s, t \in bare : s # t => n[s] # n[t]
        /\ c = [t \in Task |-> IF t \in bare THEN [b[t] EXCEPT !.number = m + n[t]] ELSE b[t]]
  BY DEF EnsureNumbers
<1>2. m \in Nat /\ \A t \in Task : b[t] # None => b[t] \in Row /\ b[t].number \in Nat
                                          /\ b[t].number <= MaxNumber(b)
  BY MaxNumberType
<1>3. \A t \in bare : n[t] \in Nat /\ n[t] > 0 /\ t \in Task /\ b[t] # None /\ b[t].number = 0
  <2>1. IsFiniteSet(bare)
    BY RowAssumption, FS_Subset DEF On
  <2>2. Cardinality(bare) \in Nat
    BY <2>1, FS_CardinalityType
  <2> QED BY <2>2 DEF On
<1>4. \A t \in Task : t \notin bare => c[t] = b[t] /\ (b[t] # None => b[t].number > 0)
  <2>1. \A t \in Task : t \notin bare /\ b[t] # None => b[t].number # 0
    BY DEF On
  <2> QED BY <1>1, <1>2, <2>1
<1>5. ASSUME NEW t \in bare
      PROVE  /\ c[t] \in Row /\ c[t].number = m + n[t] /\ SameButNumber(b[t], c[t])
             /\ c[t].deps = b[t].deps /\ c[t].comments = b[t].comments
             /\ c[t].declared = b[t].declared /\ c[t].log = b[t].log
  <2>1. b[t] \in Row /\ m + n[t] \in Nat /\ b[t].number = 0 /\ t \in Task
    BY <1>2, <1>3
  <2>2. PICK r \in Row : r = b[t] /\ r.number = 0
    BY <2>1
  <2>3. c[t] = [r EXCEPT !.number = m + n[t]]
    BY <1>1, <2>1, <2>2
  <2>4. c[t] \in Row
    BY <2>1, <2>3 DEF Row
  <2>5. /\ c[t].number = m + n[t]
        /\ c[t].deps = r.deps /\ c[t].comments = r.comments /\ c[t].declared = r.declared
        /\ c[t].log = r.log
    BY <2>3 DEF Row
  <2>6. [c[t] EXCEPT !.number = 0] = r
    BY <2>2, <2>3 DEF Row
  <2> QED BY <2>2, <2>4, <2>5, <2>6 DEF SameButNumber
<1>6. c \in Boards
  <2>1. \A t \in Task : c[t] \in Row \cup {None}
    BY <1>2, <1>4, <1>5
  <2>2. c = [t \in Task |-> c[t]]
    BY <1>1
  <2> QED BY <2>1, <2>2 DEF Boards
<1>7. \A t \in Task : c[t] = None <=> b[t] = None
  BY <1>3, <1>4, <1>5, RowAssumption
<1> HIDE DEF bare, m
<1>8. ASSUME UniqueNumbers(b), NEW s \in On(c), NEW t \in On(c), s # t
      PROVE  c[s].number # c[t].number
  <2>5. s \in Task /\ t \in Task /\ b[s] # None /\ b[t] # None
    BY <1>7 DEF On
  <2>1. CASE s \in bare /\ t \in bare
    <3>1. /\ c[s].number = m + n[s] /\ c[t].number = m + n[t] /\ n[s] # n[t]
          /\ m \in Nat /\ n[s] \in Nat /\ n[t] \in Nat
      BY <1>1, <1>2, <1>3, <1>5, <1>8, <2>1
    <3> QED BY <3>1
  <2>2. CASE s \in bare /\ t \notin bare
    BY <1>2, <1>3, <1>4, <1>5, <2>5, <2>2 DEF m
  <2>3. CASE s \notin bare /\ t \in bare
    BY <1>2, <1>3, <1>4, <1>5, <2>5, <2>3 DEF m
  <2>4. CASE s \notin bare /\ t \notin bare
    BY <1>4, <1>8, <2>5, <2>4 DEF UniqueNumbers, On
  <2> QED BY <2>1, <2>2, <2>3, <2>4
<1>9. UniqueNumbers(b) => UniqueNumbers(c)
  BY <1>8 DEF UniqueNumbers
<1>10. \A t \in bare : c[t].number > 0
  BY <1>2, <1>3, <1>5
<1> QED BY <1>3, <1>4, <1>5, <1>6, <1>7, <1>9, <1>10

\* So an edit of the numbered board is judged like one of the board itself.
LEMMA EnsureThen ==
  ASSUME NEW b \in Boards, NEW m \in EnsureNumbers(b), NEW c
  PROVE  /\ KeepsDag(m, c) => KeepsDag(b, c)
         /\ KeepsNumbers(m, c) => KeepsNumbers(b, c)
         /\ KeepsDeclared(m, c) => KeepsDeclared(b, c)
         /\ KeepsLog(m, c) => KeepsLog(b, c)
         /\ KeepsComments(m, c) => KeepsComments(b, c)
<1>1. /\ \A t \in Task : /\ m[t] = None <=> b[t] = None
                         /\ m[t] # None => /\ m[t].deps = b[t].deps
                                           /\ m[t].comments = b[t].comments
                                           /\ m[t].declared = b[t].declared
                                           /\ m[t].log = b[t].log
      /\ UniqueNumbers(b) => UniqueNumbers(m)
  BY EnsureKeeps
<1>2. Acyclic(b) => Acyclic(m)
  <2>1. \A t \in Task : Deps(m, t) \subseteq Deps(b, t)
    BY <1>1 DEF Deps
  <2> QED BY <2>1, FewerKeepAcyclic
<1> QED BY <1>1, <1>2 DEF KeepsDag, KeepsNumbers, KeepsLog, KeepsDeclared, KeepsComments

(***************************************************************************)
(* The edits.                                                              *)
(***************************************************************************)
\* All but what a comment that is removed, or a declaration, changes.
Keeps(b, c) ==
  c \in Boards /\ KeepsDag(b, c) /\ KeepsNumbers(b, c) /\ KeepsLog(b, c)

\* An edit of one task that is there.
LEMMA EditRow ==
  ASSUME NEW b \in Boards, NEW t \in Task, b[t] # None, NEW row \in Row, NEW c,
         c = [b EXCEPT ![t] = row], KeepsRow(b[t], row)
  PROVE  /\ Keeps(b, c)
         /\ b[t].comments \subseteq row.comments => KeepsComments(b, c)
         /\ row.declared = b[t].declared => KeepsDeclared(b, c)
<1>1. c \in Boards /\ Tame(b, c)
  BY SetRowTame
<1>2. c[t] = row /\ \A u \in Task : u # t => c[u] = b[u]
  BY DEF Boards
<1>3. b[t].comments \subseteq row.comments => KeepsComments(b, c)
  BY <1>2 DEF KeepsComments
<1>4. row.declared = b[t].declared => KeepsDeclared(b, c)
  BY <1>2 DEF KeepsDeclared
<1> QED BY <1>1, <1>3, <1>4, TameKeeps DEF Keeps

\* A task that is new takes the next number and depends on nothing.
LEMMA NewRow ==
  ASSUME NEW b \in Boards, NEW t \in Task, b[t] = None, NEW row \in Row, NEW c,
         c = [b EXCEPT ![t] = row], row.number = MaxNumber(b) + 1, row.deps = {}
  PROVE  Keeps(b, c) /\ KeepsComments(b, c) /\ KeepsDeclared(b, c)
<1>1. c \in Boards /\ c[t] = row /\ \A u \in Task : u # t => c[u] = b[u]
  BY DEF Boards
<1>2. KeepsDag(b, c)
  <2>1. \A u \in Task : Deps(c, u) \subseteq Deps(b, u)
    BY <1>1 DEF Deps
  <2> QED BY <2>1, FewerKeepAcyclic DEF KeepsDag
<1>3. KeepsLog(b, c) /\ KeepsDeclared(b, c) /\ KeepsComments(b, c)
  BY <1>1 DEF KeepsLog, KeepsDeclared, KeepsComments, Longer
<1>4. KeepsNumbers(b, c)
  <2> SUFFICES ASSUME UniqueNumbers(b), NEW u \in On(c), NEW v \in On(c), u # v, c[u].number > 0
               PROVE  c[u].number # c[v].number
    BY DEF KeepsNumbers, UniqueNumbers
  <2>1. u \in Task /\ v \in Task
    BY DEF On
  <2>2. MaxNumber(b) \in Nat /\ \A w \in Task : w # t /\ c[w] # None =>
          c[w].number \in Nat /\ c[w].number <= MaxNumber(b)
    BY <1>1, MaxNumberType
  <2>3. c[t].number = MaxNumber(b) + 1
    BY <1>1
  <2>4. CASE u = t \/ v = t
    <3>1. \A w \in On(c) : w # t => c[w].number # c[t].number
      <4> TAKE w \in On(c)
      <4> HAVE w # t
      <4>1. c[w].number \in Nat /\ c[w].number <= MaxNumber(b)
        BY <2>2 DEF On
      <4> QED BY <2>2, <2>3, <4>1
    <3> QED BY <2>4, <3>1
  <2>5. CASE u # t /\ v # t
    BY <1>1, <2>1, <2>5 DEF UniqueNumbers, On
  <2> QED BY <2>4, <2>5
<1> QED BY <1>1, <1>2, <1>3, <1>4 DEF Keeps

LEMMA EnteredType ==
  ASSUME NEW log \in Seq(Status), NEW old, NEW new \in Status
  PROVE  Entered(log, old, new) \in Seq(Status) /\ Longer(log, Entered(log, old, new))
<1>1. Append(log, new) \in Seq(Status) /\ IsPrefix(log, Append(log, new))
  BY DEF IsPrefix
<1> QED BY <1>1 DEF Entered, Longer

\* A history is a beginning of every longer one, and of itself.
LEMMA LongerIs ==
  ASSUME NEW s \in Seq(Status), NEW t, Longer(s, t)
  PROVE  IsPrefix(s, t)
BY DEF Longer, IsPrefix

LEMMA MovedRow ==
  ASSUME NEW row \in Row, NEW st \in Status
  PROVE  /\ Moved(row, st) \in Row /\ KeepsRow(row, Moved(row, st))
         /\ Moved(row, st).comments = row.comments /\ Moved(row, st).declared = row.declared
<1>1. PICK log \in Seq(Status) :
        log = Entered(row.log, row.status, st) /\ Longer(row.log, log)
  BY EnteredType DEF Row
<1>2. Moved(row, st) = [row EXCEPT !.status = st, !.stamp = Local, !.log = log]
  BY <1>1 DEF Moved
<1>3. /\ Moved(row, st) \in Row /\ Moved(row, st).log = log
      /\ Moved(row, st).number = row.number /\ Moved(row, st).deps = row.deps
      /\ Moved(row, st).comments = row.comments /\ Moved(row, st).declared = row.declared
  BY <1>2 DEF Row
<1> QED BY <1>1, <1>3 DEF KeepsRow

\* What the window sends over a stored row.
LEMMA MergedRow ==
  ASSUME NEW old \in Row, NEW sent \in Row
  PROVE  /\ Merged(old, sent) \in Row
         /\ Merged(old, sent).comments = old.comments
         /\ sent.declared = None => Merged(old, sent).declared = old.declared
         /\ sent.log \in {<<>>, old.log} => Longer(old.log, Merged(old, sent).log)
<1>1. /\ sent.log \in Seq(Status) /\ old.log \in Seq(Status) /\ sent.status \in Status
      /\ sent.declared \in Declaration \cup {None} /\ old.declared \in Declaration \cup {None}
      /\ sent.number \in Nat /\ old.number \in Nat /\ old.comments \in SUBSET Comment
  BY DEF Row
<1> DEFINE number == IF sent.number = 0 THEN old.number ELSE sent.number
           declared == IF sent.declared = None THEN old.declared ELSE sent.declared
           base == IF sent.log = <<>> THEN old.log ELSE sent.log
           log == Entered(base, old.status, sent.status)
<1>2. /\ number \in Nat /\ declared \in Declaration \cup {None}
      /\ sent.declared = None => declared = old.declared
  BY <1>1
<1>3. base \in Seq(Status) /\ (sent.log \in {<<>>, old.log} => base = old.log)
  BY <1>1
<1>4. Merged(old, sent) = [sent EXCEPT !.number = number, !.declared = declared, !.log = log,
                                       !.comments = old.comments, !.stamp = Local]
  BY DEF Merged
<1> HIDE DEF number, declared, base
<1>5. log \in Seq(Status) /\ Longer(base, log)
  BY <1>1, <1>3, EnteredType
<1> HIDE DEF log
<1>6. /\ Merged(old, sent) \in Row /\ Merged(old, sent).comments = old.comments
      /\ Merged(old, sent).declared = declared /\ Merged(old, sent).log = log
  BY <1>1, <1>2, <1>4, <1>5 DEF Row
<1> QED BY <1>2, <1>3, <1>5, <1>6

\* What the window sends of a task that the board does not have.
LEMMA UpsertNew ==
  ASSUME NEW b \in Boards, NEW t \in Task, b[t] = None, NEW sent \in Row
  PROVE  \E row \in Row : /\ Upsert(b, t, sent) = [b EXCEPT ![t] = row]
                          /\ row.deps = sent.deps
                          /\ sent.number = 0 => row.number = MaxNumber(b) + 1
<1> DEFINE number == IF sent.number = 0 THEN MaxNumber(b) + 1 ELSE sent.number
           row == [sent EXCEPT !.number = number, !.stamp = Local]
<1>1. number \in Nat
  BY MaxNumberType DEF Row
<1>2. Upsert(b, t, sent) = [b EXCEPT ![t] = row]
  BY DEF Upsert, Boards
<1>3. sent.number = 0 => number = MaxNumber(b) + 1
  OBVIOUS
<1> HIDE DEF number
<1>4. row \in Row /\ row.deps = sent.deps /\ row.number = number
  BY <1>1 DEF Row
<1> QED BY <1>2, <1>3, <1>4

LEMMA UpsertOver ==
  ASSUME NEW b \in Boards, NEW t \in Task, b[t] # None, NEW sent \in Row
  PROVE  /\ b[t] \in Row /\ Merged(b[t], sent) \in Row
         /\ Upsert(b, t, sent) = [b EXCEPT ![t] = Merged(b[t], sent)]
<1>1. b[t] \in Row
  BY DEF Boards
<1> QED BY <1>1, MergedRow DEF Upsert, Boards

\* add_dep changes nothing but the edges of one task.
LEMMA AddEdgeRows ==
  ASSUME NEW b \in Boards, NEW from \in Task, NEW on \in Task
  PROVE  /\ AddEdge(b, from, on) \in Boards
         /\ \A t \in Task : t # from => AddEdge(b, from, on)[t] = b[t]
         /\ AddEdge(b, from, on)[from] = None <=> b[from] = None
         /\ b[from] # None =>
              /\ AddEdge(b, from, on)[from].number = b[from].number
              /\ AddEdge(b, from, on)[from].cites = b[from].cites
              /\ AddEdge(b, from, on)[from].comments = b[from].comments
              /\ AddEdge(b, from, on)[from].declared = b[from].declared
              /\ AddEdge(b, from, on)[from].log = b[from].log
              /\ \/ AddEdge(b, from, on)[from] = b[from]
                 \/ AddEdge(b, from, on)[from].deps # {}
<1> DEFINE c == [b EXCEPT ![from].deps = @ \cup {on}, ![from].stamp = Local]
<1>1. CASE DepAllowed(b, from, on) /\ on \notin b[from].deps
  <2>1. b[from] \in Row /\ b[from] # None
    BY <1>1 DEF DepAllowed, On, Boards
  <2> DEFINE row == [b[from] EXCEPT !.deps = @ \cup {on}, !.stamp = Local]
  <2>2. /\ row \in Row /\ row.number = b[from].number /\ row.cites = b[from].cites
        /\ row.comments = b[from].comments /\ row.declared = b[from].declared
        /\ row.log = b[from].log /\ row.deps # {}
    BY <2>1 DEF Row
  <2>3. c = [b EXCEPT ![from] = row]
    BY DEF Boards
  <2>4. AddEdge(b, from, on) = c
    BY <1>1 DEF AddEdge
  <2> HIDE DEF row, c
  <2> QED BY <2>1, <2>2, <2>3, <2>4, RowAssumption DEF Boards
<1>2. CASE ~(DepAllowed(b, from, on) /\ on \notin b[from].deps)
  BY <1>2 DEF AddEdge
<1> QED BY <1>1, <1>2

LEMMA AddEdgeKeeps ==
  ASSUME NEW b \in Boards, NEW from \in Task, NEW on \in Task
  PROVE  /\ Keeps(b, AddEdge(b, from, on))
         /\ KeepsComments(b, AddEdge(b, from, on)) /\ KeepsDeclared(b, AddEdge(b, from, on))
<1>1. PICK c \in Boards : c = AddEdge(b, from, on)
  BY AddEdgeRows
<1>2. \A t \in Task : /\ c[t] = None <=> b[t] = None
                      /\ c[t] # None => /\ c[t].number = b[t].number
                                        /\ c[t].comments = b[t].comments
                                        /\ c[t].declared = b[t].declared
                                        /\ c[t].log = b[t].log
  <2>1. \A t \in Task : t # from => c[t] = b[t]
    <3>1. \A t \in Task : t # from => AddEdge(b, from, on)[t] = b[t]
      BY AddEdgeRows
    <3> QED BY <1>1, <3>1
  <2>2. c[from] = None <=> b[from] = None
    BY <1>1, AddEdgeRows
  <2>3. b[from] # None => /\ c[from].number = b[from].number
                          /\ c[from].comments = b[from].comments
                          /\ c[from].declared = b[from].declared
                          /\ c[from].log = b[from].log
    BY <1>1, AddEdgeRows
  <2> QED BY <2>1, <2>2, <2>3
<1>3. KeepsDag(b, c)
  BY <1>1, AddEdgeKeepsAcyclic DEF KeepsDag
<1>4. KeepsNumbers(b, c)
  BY <1>2 DEF KeepsNumbers, UniqueNumbers, On
<1>5. KeepsLog(b, c) /\ KeepsDeclared(b, c) /\ KeepsComments(b, c)
  BY <1>2 DEF KeepsLog, KeepsDeclared, KeepsComments, Longer
<1> QED BY <1>1, <1>3, <1>4, <1>5 DEF Keeps

LEMMA RemoveEdgeKeeps ==
  ASSUME NEW b \in Boards, NEW from \in Task, NEW on \in Task
  PROVE  /\ Keeps(b, RemoveEdge(b, from, on))
         /\ KeepsComments(b, RemoveEdge(b, from, on)) /\ KeepsDeclared(b, RemoveEdge(b, from, on))
<1> DEFINE c == [b EXCEPT ![from].deps = @ \ {on}, ![from].stamp = Local]
           row == [b[from] EXCEPT !.deps = @ \ {on}, !.stamp = Local]
<1>1. CASE on \in Deps(b, from)
  <2>1. b[from] \in Row /\ b[from] # None
    BY <1>1 DEF Deps, Boards
  <2>2. /\ row \in Row /\ KeepsRow(b[from], row)
        /\ row.comments = b[from].comments /\ row.declared = b[from].declared
    BY <2>1 DEF Row, KeepsRow, Longer
  <2>3. RemoveEdge(b, from, on) = c
    BY <1>1 DEF RemoveEdge
  <2>4. c = [b EXCEPT ![from] = row]
    BY DEF Boards
  <2> HIDE DEF row, c
  <2>5. Keeps(b, c) /\ KeepsComments(b, c) /\ KeepsDeclared(b, c)
    BY <2>1, <2>2, <2>4, EditRow
  <2> QED BY <2>3, <2>5
<1>2. CASE on \notin Deps(b, from)
  <2>1. RemoveEdge(b, from, on) = b
    BY <1>2 DEF RemoveEdge
  <2> QED BY <2>1 DEF Keeps, KeepsDag, KeepsNumbers, KeepsLog, Longer, KeepsDeclared,
                      KeepsComments
<1> QED BY <1>1, <1>2

(***************************************************************************)
(* The actions, one by one: what each leaves of the board, its type and    *)
(* what it keeps.                                                          *)
(***************************************************************************)
Kept(b, c) == Keeps(b, c) /\ KeepsComments(b, c) /\ KeepsDeclared(b, c)

LEMMA KeptItself ==
  ASSUME NEW b \in Boards
  PROVE  Kept(b, b)
BY DEF Kept, Keeps, KeepsDag, KeepsNumbers, KeepsLog, Longer, KeepsDeclared, KeepsComments

\* An edit of the numbered board is one of the board.
LEMMA EditLoaded ==
  ASSUME board \in Boards, NEW b \in Loaded, NEW c
  PROVE  /\ b \in Boards
         /\ \A t \in Task : b[t] = None <=> board[t] = None
         /\ Keeps(b, c) => Keeps(board, c)
         /\ KeepsDeclared(b, c) => KeepsDeclared(board, c)
         /\ KeepsComments(b, c) => KeepsComments(board, c)
         /\ Kept(b, c) => Kept(board, c)
<1>1. b \in EnsureNumbers(board)
  BY DEF Loaded
<1>2. b \in Boards /\ \A t \in Task : b[t] = None <=> board[t] = None
  BY <1>1, EnsureKeeps
<1>3. /\ KeepsDag(b, c) => KeepsDag(board, c)
      /\ KeepsNumbers(b, c) => KeepsNumbers(board, c)
      /\ KeepsLog(b, c) => KeepsLog(board, c)
      /\ KeepsDeclared(b, c) => KeepsDeclared(board, c)
      /\ KeepsComments(b, c) => KeepsComments(board, c)
  BY <1>1, EnsureThen
<1> QED BY <1>2, <1>3 DEF Kept, Keeps

DetailOK(d) == d = None \/ d \in [task : Task, row : Row]

\* Only the new board and the detail view are left to check after a transaction.
LEMMA StoreTypes ==
  ASSUME TypeOK, NEW c \in Boards, Store(c), backup' = backup, DetailOK(detail')
  PROVE  TypeOK' /\ board' = c
<1>1. ops' = ops - 1 /\ ops > 0 /\ board' = c /\ report' = None
  BY DEF Store
<1>2. ops' \in 0..MaxOps
  BY <1>1, OpsAssumption DEF TypeOK
<1> QED BY <1>1, <1>2 DEF TypeOK, IsBoard, Boards, DetailOK

LEMMA RefreshedType ==
  ASSUME TypeOK, NEW t \in Task, NEW c \in Boards
  PROVE  DetailOK(Refreshed(t, c))
<1>1. DetailOK(detail)
  BY DEF TypeOK, DetailOK
<1>2. CASE detail # None /\ detail.task = t /\ c[t] # None
  <2>1. detail \in [task : Task, row : Row] /\ c[t] \in Row
    BY <1>1, <1>2 DEF DetailOK, Boards
  <2>2. [detail EXCEPT !.row = c[t]] \in [task : Task, row : Row]
    BY <2>1
  <2> QED BY <1>2, <2>2 DEF Refreshed, DetailOK
<1>3. CASE ~(detail # None /\ detail.task = t /\ c[t] # None)
  BY <1>1, <1>3 DEF Refreshed
<1> QED BY <1>2, <1>3

LEMMA TypeFacts ==
  ASSUME TypeOK
  PROVE  board \in Boards /\ DetailOK(detail)
BY DEF TypeOK, IsBoard, Boards, DetailOK

LEMMA OpenDetailKeeps ==
  ASSUME TypeOK, NEW t \in Task, OpenDetail(t)
  PROVE  TypeOK' /\ Kept(board, board')
<1>1. board' = board /\ board \in Boards
  BY TypeFacts DEF OpenDetail
<1>2. board[t] \in Row
  BY <1>1 DEF OpenDetail, Boards
<1>3. TypeOK'
  BY <1>1, <1>2 DEF TypeOK, OpenDetail, IsBoard
<1> QED BY <1>1, <1>3, KeptItself

LEMMA AppAddKeeps ==
  ASSUME TypeOK, NEW t \in Task, NEW p \in Project, AppAdd(t, p)
  PROVE  TypeOK' /\ Kept(board, board')
<1>1. PICK b \in Loaded, s \in Status :
        Store(Upsert(b, t,
         [number |-> 0, status |-> s, log |-> <<>>, project |-> p, deps |-> {},
          comments |-> {}, declared |-> None, cites |-> {}, stamp |-> Local]))
  BY DEF AppAdd
<1>2. PICK sent : sent = [number |-> 0, status |-> s, log |-> <<>>, project |-> p, deps |-> {},
          comments |-> {}, declared |-> None, cites |-> {}, stamp |-> Local]
  OBVIOUS
<1>3. sent \in Row /\ sent.number = 0 /\ sent.deps = {}
  BY <1>2 DEF Row
<1>4. board \in Boards /\ b \in Boards /\ b[t] = None
  BY TypeFacts, EditLoaded DEF AppAdd
<1>5. PICK row \in Row : /\ Upsert(b, t, sent) = [b EXCEPT ![t] = row]
                         /\ row.deps = {} /\ row.number = MaxNumber(b) + 1
  BY <1>3, <1>4, UpsertNew
<1>6. PICK c : c = [b EXCEPT ![t] = row]
  OBVIOUS
<1>7. Kept(b, c)
  BY <1>4, <1>5, <1>6, NewRow DEF Kept
<1>8. Kept(board, c)
  BY <1>4, <1>7, EditLoaded
<1>9. Store(c)
  BY <1>1, <1>2, <1>5, <1>6
<1>10. TypeOK' /\ board' = c
  BY <1>8, <1>9, StoreTypes, TypeFacts DEF AppAdd, Kept, Keeps
<1> QED BY <1>8, <1>10

LEMMA CliAddKeeps ==
  ASSUME TypeOK, NEW t \in Task, NEW p \in Project, CliAdd(t, p)
  PROVE  TypeOK' /\ Kept(board, board')
<1>1. PICK s \in Status :
        Store([board EXCEPT ![t] =
         [number |-> MaxNumber(board) + 1, status |-> s, log |-> <<s>>,
          project |-> p, deps |-> {}, comments |-> {}, declared |-> None,
          cites |-> {}, stamp |-> Local]])
  BY DEF CliAdd
<1>2. board \in Boards /\ board[t] = None /\ MaxNumber(board) \in Nat
  BY TypeFacts, MaxNumberType DEF CliAdd
<1>3. PICK row : row = [number |-> MaxNumber(board) + 1, status |-> s, log |-> <<s>>,
          project |-> p, deps |-> {}, comments |-> {}, declared |-> None,
          cites |-> {}, stamp |-> Local]
  OBVIOUS
<1>4. row \in Row /\ row.number = MaxNumber(board) + 1 /\ row.deps = {}
  BY <1>2, <1>3 DEF Row
<1>5. PICK c : c = [board EXCEPT ![t] = row]
  OBVIOUS
<1>6. Kept(board, c)
  BY <1>2, <1>4, <1>5, NewRow DEF Kept
<1>7. Store(c)
  BY <1>1, <1>3, <1>5
<1>8. TypeOK' /\ board' = c
  BY <1>6, <1>7, StoreTypes, TypeFacts DEF CliAdd, Kept, Keeps
<1> QED BY <1>6, <1>8

\* One row is edited, on the board or on the numbered one.
LEMMA EditOne ==
  ASSUME TypeOK, NEW b \in Loaded \cup {board}, NEW t \in Task, board[t] # None,
         NEW row \in Row, KeepsRow(b[t], row), NEW c, c = [b EXCEPT ![t] = row]
  PROVE  /\ Keeps(board, c)
         /\ b[t].comments \subseteq row.comments => KeepsComments(board, c)
         /\ row.declared = b[t].declared => KeepsDeclared(board, c)
<1>1. board \in Boards /\ b \in Boards /\ b[t] # None
  BY TypeFacts, EditLoaded
<1>2. /\ Keeps(b, c)
      /\ b[t].comments \subseteq row.comments => KeepsComments(b, c)
      /\ row.declared = b[t].declared => KeepsDeclared(b, c)
  BY <1>1, EditRow
<1>3. CASE b \in Loaded
  BY <1>1, <1>2, <1>3, EditLoaded
<1>4. CASE b = board
  BY <1>2, <1>4
<1> QED BY <1>3, <1>4

LEMMA LoadedRow ==
  ASSUME TypeOK, NEW b \in Loaded, NEW t \in Task, board[t] # None
  PROVE  b \in Boards /\ b[t] # None /\ b[t] \in Row
<1>1. b \in Boards /\ b[t] # None
  BY TypeFacts, EditLoaded
<1> QED BY <1>1 DEF Boards

LEMMA AppSetStatusKeeps ==
  ASSUME TypeOK, NEW t \in Task, NEW s \in Status, AppSetStatus(t, s)
  PROVE  TypeOK' /\ Kept(board, board')
<1>1. PICK b \in Loaded :
        Store([b EXCEPT ![t] = Moved(@, s)]) /\ detail' = Refreshed(t, [b EXCEPT ![t] = Moved(@, s)])
  BY DEF AppSetStatus
<1>2. b \in Boards /\ b[t] \in Row /\ board[t] # None
  BY LoadedRow DEF AppSetStatus
<1>3. PICK row \in Row : row = Moved(b[t], s)
  BY <1>2, MovedRow
<1>4. KeepsRow(b[t], row) /\ row.comments = b[t].comments /\ row.declared = b[t].declared
  BY <1>2, <1>3, MovedRow
<1>5. PICK c : c = [b EXCEPT ![t] = row]
  OBVIOUS
<1>6. [b EXCEPT ![t] = Moved(@, s)] = c
  BY <1>2, <1>3, <1>5 DEF Boards
<1>7. Kept(board, c)
  BY <1>2, <1>4, <1>5, EditOne DEF Kept
<1>8. Store(c) /\ detail' = Refreshed(t, c)
  BY <1>1, <1>6
<1>9. TypeOK' /\ board' = c
  BY <1>7, <1>8, StoreTypes, RefreshedType DEF AppSetStatus, Kept, Keeps
<1> QED BY <1>7, <1>9

LEMMA CliSetStatusKeeps ==
  ASSUME TypeOK, NEW t \in Task, NEW s \in Status, NEW force \in BOOLEAN, CliSetStatus(t, s, force)
  PROVE  TypeOK' /\ Kept(board, board')
<1>1. board \in Boards /\ board[t] # None /\ Store([board EXCEPT ![t] = Moved(@, s)])
  BY TypeFacts DEF CliSetStatus
<1>2. board[t] \in Row
  BY <1>1 DEF Boards
<1>3. PICK row \in Row : row = Moved(board[t], s)
  BY <1>2, MovedRow
<1>4. KeepsRow(board[t], row) /\ row.comments = board[t].comments /\ row.declared = board[t].declared
  BY <1>2, <1>3, MovedRow
<1>5. PICK c : c = [board EXCEPT ![t] = row]
  OBVIOUS
<1>6. [board EXCEPT ![t] = Moved(@, s)] = c
  BY <1>1, <1>3, <1>5 DEF Boards
<1>7. Kept(board, c)
  BY <1>1, <1>4, <1>5, EditOne DEF Kept
<1>8. Store(c)
  BY <1>1, <1>6
<1>9. TypeOK' /\ board' = c
  BY <1>7, <1>8, StoreTypes, TypeFacts DEF CliSetStatus, Kept, Keeps
<1> QED BY <1>7, <1>9

LEMMA CliSetProjectKeeps ==
  ASSUME TypeOK, NEW t \in Task, NEW p \in Project, CliSetProject(t, p)
  PROVE  TypeOK' /\ Kept(board, board')
<1>1. /\ board \in Boards /\ board[t] # None
      /\ Store([board EXCEPT ![t].project = p, ![t].stamp = Local])
  BY TypeFacts DEF CliSetProject
<1>2. board[t] \in Row
  BY <1>1 DEF Boards
<1>3. PICK row : row = [board[t] EXCEPT !.project = p, !.stamp = Local]
  OBVIOUS
<1>4. /\ row \in Row /\ KeepsRow(board[t], row)
      /\ row.comments = board[t].comments /\ row.declared = board[t].declared
  BY <1>2, <1>3 DEF KeepsRow, Longer, Row
<1>5. PICK c : c = [board EXCEPT ![t] = row]
  OBVIOUS
<1>6. [board EXCEPT ![t].project = p, ![t].stamp = Local] = c
  BY <1>1, <1>3, <1>5 DEF Boards
<1>7. Kept(board, c)
  BY <1>1, <1>4, <1>5, EditOne DEF Kept
<1>8. Store(c)
  BY <1>1, <1>6
<1>9. TypeOK' /\ board' = c
  BY <1>7, <1>8, StoreTypes, TypeFacts DEF CliSetProject, Kept, Keeps
<1> QED BY <1>7, <1>9

LEMMA CliDeclareKeeps ==
  ASSUME TypeOK, NEW t \in Task, NEW d \in Declaration \cup {None}, CliDeclare(t, d)
  PROVE  TypeOK' /\ Keeps(board, board') /\ KeepsComments(board, board')
<1>1. /\ board \in Boards /\ board[t] # None
      /\ Store([board EXCEPT ![t].declared = d, ![t].stamp = Local])
  BY TypeFacts DEF CliDeclare
<1>2. board[t] \in Row
  BY <1>1 DEF Boards
<1>3. PICK row : row = [board[t] EXCEPT !.declared = d, !.stamp = Local]
  OBVIOUS
<1>4. row \in Row /\ KeepsRow(board[t], row) /\ row.comments = board[t].comments
  BY <1>2, <1>3 DEF KeepsRow, Longer, Row
<1>5. PICK c : c = [board EXCEPT ![t] = row]
  OBVIOUS
<1>6. [board EXCEPT ![t].declared = d, ![t].stamp = Local] = c
  BY <1>1, <1>3, <1>5 DEF Boards
<1>7. Keeps(board, c) /\ KeepsComments(board, c)
  BY <1>1, <1>4, <1>5, EditOne
<1>8. Store(c)
  BY <1>1, <1>6
<1>9. TypeOK' /\ board' = c
  BY <1>7, <1>8, StoreTypes, TypeFacts DEF CliDeclare, Keeps
<1> QED BY <1>7, <1>9

LEMMA CliCommentKeeps ==
  ASSUME TypeOK, NEW t \in Task, NEW x \in Comment, CliComment(t, x)
  PROVE  TypeOK' /\ Kept(board, board')
<1>1. /\ board \in Boards /\ board[t] # None
      /\ Store([board EXCEPT ![t].comments = @ \cup {x}, ![t].stamp = Local])
  BY TypeFacts DEF CliComment
<1>2. board[t] \in Row
  BY <1>1 DEF Boards
<1>3. PICK row : row = [board[t] EXCEPT !.comments = @ \cup {x}, !.stamp = Local]
  OBVIOUS
<1>4. /\ row \in Row /\ KeepsRow(board[t], row)
      /\ board[t].comments \subseteq row.comments /\ row.declared = board[t].declared
  BY <1>2, <1>3 DEF KeepsRow, Longer, Row
<1>5. PICK c : c = [board EXCEPT ![t] = row]
  OBVIOUS
<1>6. [board EXCEPT ![t].comments = @ \cup {x}, ![t].stamp = Local] = c
  BY <1>1, <1>3, <1>5 DEF Boards
<1>7. Kept(board, c)
  BY <1>1, <1>4, <1>5, EditOne DEF Kept
<1>8. Store(c)
  BY <1>1, <1>6
<1>9. TypeOK' /\ board' = c
  BY <1>7, <1>8, StoreTypes, TypeFacts DEF CliComment, Kept, Keeps
<1> QED BY <1>7, <1>9

LEMMA AppCommentKeeps ==
  ASSUME TypeOK, NEW t \in Task, NEW x \in Comment, AppComment(t, x)
  PROVE  TypeOK' /\ Kept(board, board')
<1>1. PICK b \in Loaded :
        /\ Store([b EXCEPT ![t].comments = @ \cup {x}, ![t].stamp = Local])
        /\ detail' = Refreshed(t, [b EXCEPT ![t].comments = @ \cup {x}, ![t].stamp = Local])
  BY DEF AppComment
<1>2. b \in Boards /\ b[t] \in Row /\ board[t] # None
  BY LoadedRow DEF AppComment
<1>3. PICK row : row = [b[t] EXCEPT !.comments = @ \cup {x}, !.stamp = Local]
  OBVIOUS
<1>4. /\ row \in Row /\ KeepsRow(b[t], row)
      /\ b[t].comments \subseteq row.comments /\ row.declared = b[t].declared
  BY <1>2, <1>3 DEF KeepsRow, Longer, Row
<1>5. PICK c : c = [b EXCEPT ![t] = row]
  OBVIOUS
<1>6. [b EXCEPT ![t].comments = @ \cup {x}, ![t].stamp = Local] = c
  BY <1>2, <1>3, <1>5 DEF Boards
<1>7. Kept(board, c)
  BY <1>2, <1>4, <1>5, EditOne DEF Kept
<1>8. Store(c) /\ detail' = Refreshed(t, c)
  BY <1>1, <1>6
<1>9. TypeOK' /\ board' = c
  BY <1>7, <1>8, StoreTypes, RefreshedType DEF AppComment, Kept, Keeps
<1> QED BY <1>7, <1>9

LEMMA RemoveCommentKeeps ==
  ASSUME TypeOK, NEW t \in Task, NEW x \in Comment, RemoveComment(t, x)
  PROVE  TypeOK' /\ Keeps(board, board') /\ KeepsDeclared(board, board')
<1>1. PICK b \in Loaded :
        /\ Store([b EXCEPT ![t].comments = @ \ {x}, ![t].stamp = Local])
        /\ detail' = Refreshed(t, [b EXCEPT ![t].comments = @ \ {x}, ![t].stamp = Local])
  BY DEF RemoveComment
<1>2. b \in Boards /\ b[t] \in Row /\ board[t] # None
  BY LoadedRow DEF RemoveComment
<1>3. PICK row : row = [b[t] EXCEPT !.comments = @ \ {x}, !.stamp = Local]
  OBVIOUS
<1>4. row \in Row /\ KeepsRow(b[t], row) /\ row.declared = b[t].declared
  BY <1>2, <1>3 DEF KeepsRow, Longer, Row
<1>5. PICK c : c = [b EXCEPT ![t] = row]
  OBVIOUS
<1>6. [b EXCEPT ![t].comments = @ \ {x}, ![t].stamp = Local] = c
  BY <1>2, <1>3, <1>5 DEF Boards
<1>7. Keeps(board, c) /\ KeepsDeclared(board, c)
  BY <1>2, <1>4, <1>5, EditOne
<1>8. Store(c) /\ detail' = Refreshed(t, c)
  BY <1>1, <1>6
<1>9. TypeOK' /\ board' = c
  BY <1>7, <1>8, StoreTypes, RefreshedType DEF RemoveComment, Keeps
<1> QED BY <1>7, <1>9

LEMMA DepsKeep ==
  ASSUME TypeOK, NEW s \in Task, NEW t \in Task,
         \/ AppAddDep(s, t) \/ AppRemoveDep(s, t) \/ CliAddDep(s, t) \/ CliRemoveDep(s, t)
  PROVE  TypeOK' /\ Kept(board, board')
<1>1. UNCHANGED <<backup, detail>> /\ board \in Boards /\ DetailOK(detail)
  BY TypeFacts DEF AppAddDep, AppRemoveDep, CliAddDep, CliRemoveDep
<1>2. PICK b \in Loaded \cup {board} : Store(AddEdge(b, s, t)) \/ Store(RemoveEdge(b, s, t))
  <2>1. CASE AppAddDep(s, t)
    BY <2>1 DEF AppAddDep
  <2>2. CASE AppRemoveDep(s, t)
    BY <2>2 DEF AppRemoveDep
  <2>3. CASE CliAddDep(s, t)
    BY <2>3 DEF CliAddDep
  <2>4. CASE CliRemoveDep(s, t)
    BY <2>4 DEF CliRemoveDep
  <2> QED BY <2>1, <2>2, <2>3, <2>4
<1>3. b \in Boards
  BY <1>1, EditLoaded
<1>4. Kept(b, AddEdge(b, s, t)) /\ Kept(b, RemoveEdge(b, s, t))
  BY <1>3, AddEdgeKeeps, RemoveEdgeKeeps DEF Kept
<1> PICK c : Store(c) /\ Kept(b, c)
  BY <1>2, <1>4
<1>5. Kept(board, c)
  BY <1>1, EditLoaded
<1>6. TypeOK' /\ board' = c
  BY <1>1, <1>5, StoreTypes DEF Kept, Keeps
<1> QED BY <1>5, <1>6

\* Tasks go, the others lose no more than dependencies.
LEMMA TameKept ==
  ASSUME NEW b, NEW c \in Boards, Tame(b, c),
         \A t \in Task : c[t] # None => /\ b[t].comments \subseteq c[t].comments
                                        /\ c[t].declared = b[t].declared
  PROVE  Kept(b, c)
BY TameKeeps DEF Kept, Keeps, KeepsComments, KeepsDeclared

LEMMA AppDeleteKeeps ==
  ASSUME TypeOK, NEW t \in Task, AppDelete(t)
  PROVE  TypeOK' /\ Kept(board, board')
<1>1. PICK b \in Loaded : Store(Without(b, t))
  BY DEF AppDelete
<1>2. board \in Boards /\ b \in Boards /\ DetailOK(detail')
  BY TypeFacts, EditLoaded DEF AppDelete, DetailOK
<1>3. PICK c : c = Without(b, t)
  OBVIOUS
<1>4. c \in Boards /\ \A u \in Task : c[u] # None => c[u] = b[u]
  BY <1>2, <1>3 DEF Without, Boards
<1>5. Kept(b, c)
  BY <1>4, TameKept DEF Tame, KeepsRow, Longer
<1>6. Kept(board, c)
  BY <1>2, <1>5, EditLoaded
<1>7. TypeOK' /\ board' = c
  BY <1>1, <1>2, <1>3, <1>4, StoreTypes DEF AppDelete
<1> QED BY <1>6, <1>7

LEMMA CliRemoveKeeps ==
  ASSUME TypeOK, NEW t \in Task, CliRemove(t)
  PROVE  TypeOK' /\ Kept(board, board')
<1> DEFINE Unlinked(row) == IF row = None \/ t \notin row.deps THEN row
                            ELSE [row EXCEPT !.deps = @ \ {t}, !.stamp = Local]
<1>1. board \in Boards /\ DetailOK(detail)
  BY TypeFacts
<1>2. PICK c : c = [u \in Task |-> IF u = t THEN None ELSE Unlinked(board[u])]
  OBVIOUS
<1>3. Store(c) /\ UNCHANGED <<backup, detail>>
  BY <1>2 DEF CliRemove
<1>4. ASSUME NEW u \in Task
      PROVE  /\ c[u] \in Row \cup {None}
             /\ c[u] # None => /\ board[u] # None /\ KeepsRow(board[u], c[u])
                               /\ board[u].comments \subseteq c[u].comments
                               /\ c[u].declared = board[u].declared
  <2>1. CASE u = t
    BY <1>2, <2>1
  <2>2. CASE u # t /\ (board[u] = None \/ t \notin board[u].deps)
    BY <1>1, <1>2, <2>2 DEF Boards, KeepsRow, Longer
  <2>3. CASE u # t /\ board[u] # None /\ t \in board[u].deps
    <3>1. board[u] \in Row
      BY <1>1, <2>3 DEF Boards
    <3>2. c[u] = [board[u] EXCEPT !.deps = @ \ {t}, !.stamp = Local]
      BY <1>2, <2>3
    <3> QED BY <2>3, <3>1, <3>2 DEF Row, KeepsRow, Longer
  <2> QED BY <2>1, <2>2, <2>3
<1>5. c \in Boards
  BY <1>2, <1>4 DEF Boards
<1>6. Kept(board, c)
  BY <1>4, <1>5, TameKept DEF Tame
<1>7. TypeOK' /\ board' = c
  BY <1>1, <1>3, <1>5, StoreTypes
<1> QED BY <1>6, <1>7

LEMMA RestoreTypes ==
  ASSUME TypeOK, Restore
  PROVE  TypeOK'
<1>1. PICK b \in EnsureNumbers(backup) : Store(b)
  BY DEF Restore
<1>2. backup \in Boards
  BY DEF Restore, TypeOK, IsBoard, Boards
<1>3. b \in Boards
  BY <1>1, <1>2, EnsureKeeps
<1> QED BY <1>1, <1>3, StoreTypes, TypeFacts DEF Restore

\* What a save of the detail view leaves of the work of others.
SaveKeeps(d, b, c) ==
  /\ KeepsComments(b, c)
  /\ \A t \in Task : b[t] # None /\ c[t] # None =>
       /\ c[t].declared = b[t].declared \/ (d.task = t /\ d.row.declared # None)
       /\ Longer(b[t].log, c[t].log) \/ (d.task = t /\ d.row.log # <<>>)

\* What the window sends has the shape of a row; the stored comments survive it, the
\* declarations and the history where the view had none.
LEMMA SaveDetailKeeps ==
  ASSUME TypeOK, NEW s \in Status, NEW p \in Project, SaveDetail(s, p)
  PROVE  TypeOK' /\ SaveKeeps(detail, board, board')
<1>1. PICK b \in Loaded, list \in {board[detail.task], detail.row} \ {None} :
        /\ Store(Upsert(b, detail.task, Sent(list, s, p)))
        /\ detail' = [detail EXCEPT !.row = Sent(list, s, p)]
  BY DEF SaveDetail
<1>2. /\ detail \in [task : Task, row : Row] /\ board \in Boards /\ b \in Boards
      /\ backup' = backup
  BY TypeFacts, EditLoaded DEF SaveDetail, DetailOK
<1>3. PICK t \in Task : t = detail.task
  BY <1>2
<1>4. list \in Row /\ detail.row \in Row
  BY <1>2, <1>3 DEF Boards
<1>5. PICK sent : sent = Sent(list, s, p)
  OBVIOUS
<1>6. /\ sent \in Row /\ sent.declared = detail.row.declared
      /\ sent.log = IF detail.row.log = <<>> THEN list.log ELSE detail.row.log
  <2>1. PICK row \in Row : row = detail.row
    BY <1>4
  <2>2. PICK deps, log : /\ deps = IF row.deps = {} THEN list.deps ELSE row.deps
                         /\ log = IF row.log = <<>> THEN list.log ELSE row.log
    OBVIOUS
  <2>3. deps \in SUBSET Task /\ log \in Seq(Status)
    BY <1>4, <2>1, <2>2 DEF Row
  <2>4. sent = [row EXCEPT !.status = s, !.project = p, !.deps = deps, !.log = log]
    BY <1>5, <2>1, <2>2 DEF Sent
  <2> QED BY <2>1, <2>2, <2>3, <2>4 DEF Row
<1>15. /\ b[t] = None <=> board[t] = None
       /\ \A u \in Task : b[u] # None => /\ b[u].comments = board[u].comments
                                         /\ b[u].declared = board[u].declared
                                         /\ b[u].log = board[u].log
       /\ \A u \in Task : b[u] = None <=> board[u] = None
  BY <1>2, EnsureKeeps DEF Loaded
<1>16. b[t] # None /\ detail.row.log = <<>> => sent.log \in {<<>>, b[t].log}
  BY <1>1, <1>3, <1>6, <1>15
<1>7. PICK c : c = Upsert(b, t, sent)
  OBVIOUS
<1> DEFINE Work(q, r) ==
             /\ r.comments = q.comments
             /\ detail.row.declared = None => r.declared = q.declared
             /\ detail.row.log = <<>> => Longer(q.log, r.log)
<1>8. PICK row \in Row : /\ c = [b EXCEPT ![t] = row]
                         /\ b[t] # None => Work(b[t], row)
  <2>1. CASE b[t] = None
    <3>1. PICK row \in Row : Upsert(b, t, sent) = [b EXCEPT ![t] = row]
      BY <1>2, <1>6, <2>1, UpsertNew
    <3> QED BY <1>7, <2>1, <3>1
  <2>2. CASE b[t] # None
    <3>1. PICK row \in Row : row = Merged(b[t], sent)
      BY <1>2, <1>6, <2>2, UpsertOver
    <3>2. Upsert(b, t, sent) = [b EXCEPT ![t] = row]
      BY <1>2, <1>6, <2>2, <3>1, UpsertOver
    <3>3. Work(b[t], row)
      <4>1. b[t] \in Row
        BY <1>2, <1>6, <2>2, UpsertOver
      <4>2. /\ row.comments = b[t].comments
            /\ sent.declared = None => row.declared = b[t].declared
            /\ sent.log \in {<<>>, b[t].log} => Longer(b[t].log, row.log)
        BY <1>6, <3>1, <4>1, MergedRow
      <4> QED BY <1>6, <1>16, <2>2, <4>2
    <3> HIDE DEF Work
    <3> QED BY <1>7, <3>2, <3>3
  <2> QED BY <2>1, <2>2
<1>9. c \in Boards /\ c[t] = row /\ \A u \in Task : u # t => c[u] = b[u]
  BY <1>2, <1>8 DEF Boards
<1>11. SaveKeeps(detail, board, c)
  <2>1. KeepsComments(board, c)
    BY <1>8, <1>9, <1>15 DEF KeepsComments
  <2>2. ASSUME NEW u \in Task, board[u] # None, c[u] # None
        PROVE  /\ c[u].declared = board[u].declared \/ (t = u /\ detail.row.declared # None)
               /\ Longer(board[u].log, c[u].log) \/ (t = u /\ detail.row.log # <<>>)
    <3>1. CASE u = t
      BY <1>8, <1>9, <1>15, <2>2, <3>1
    <3>2. CASE u # t
      BY <1>9, <1>15, <2>2, <3>2 DEF Longer
    <3> QED BY <3>1, <3>2
  <2> QED BY <1>3, <2>1, <2>2 DEF SaveKeeps
<1>12. Store(c) /\ detail' = [detail EXCEPT !.row = sent]
  BY <1>1, <1>3, <1>5, <1>7
<1>13. DetailOK(detail')
  BY <1>2, <1>6, <1>12 DEF DetailOK
<1>14. TypeOK' /\ board' = c
  BY <1>2, <1>9, <1>12, <1>13, StoreTypes
<1> QED BY <1>11, <1>14

(***************************************************************************)
(* The two folds of an import: numbers, row by row, and edges.             *)
(***************************************************************************)
IsFile(file) ==
  /\ DOMAIN file \subseteq Task
  /\ \A t \in DOMAIN file : file[t] \in Row /\ file[t].stamp # Local

Tally(file) == [of : [DOMAIN file -> Nat], taken : SUBSET Nat, next : Nat]
Start(b, file) == [of    |-> [t \in DOMAIN file |-> IF b[t] = None THEN 0 ELSE b[t].number],
                   taken |-> NumbersOf(b),
                   next  |-> MaxNumber(b) + 1]

LEMMA StartType ==
  ASSUME NEW b \in Boards, NEW file, IsFile(file)
  PROVE  Start(b, file) \in Tally(file)
<1>1. \A t \in DOMAIN file : t \in Task /\ (b[t] # None => b[t].number \in Nat)
  BY MaxNumberType DEF IsFile
<1>2. MaxNumber(b) \in Nat /\ NumbersOf(b) \in SUBSET Nat
  BY MaxNumberType
<1>3. [t \in DOMAIN file |-> IF b[t] = None THEN 0 ELSE b[t].number] \in [DOMAIN file -> Nat]
  BY <1>1
<1> QED BY <1>2, <1>3 DEF Start, Tally

LEMMA PlaceType ==
  ASSUME NEW file, IsFile(file), NEW acc \in Tally(file), NEW t \in DOMAIN file
  PROVE  Place(file, acc, t) \in Tally(file)
<1>1. file[t].number \in Nat /\ acc.next \in Nat /\ acc.of \in [DOMAIN file -> Nat] /\ acc.taken \in SUBSET Nat
  BY DEF IsFile, Row, Tally
<1> DEFINE collides == file[t].number \in acc.taken \cup {0}
           n == IF collides THEN acc.next ELSE file[t].number
           next == IF collides THEN acc.next + 1 ELSE acc.next
<1>2. n \in Nat /\ next \in Nat
  BY <1>1
<1>3. Place(file, acc, t) =
        [of |-> [acc.of EXCEPT ![t] = n], taken |-> acc.taken \cup {n}, next |-> next]
  BY DEF Place
<1> HIDE DEF n, next
<1> QED BY <1>1, <1>2, <1>3 DEF Tally

PlaceOver(file, a0, q, g) ==
  g = [T \in SUBSET DOMAIN q |->
         IF T = {} THEN a0 ELSE Place(file, g[T \ {Max(T)}], q[Max(T)])]

LEMMA PlaceChosen ==
  ASSUME NEW b, NEW file, NEW q, NEW g, PlaceOver(file, Start(b, file), q, g)
  PROVE  \E h : PlaceOver(file, Start(b, file), q, h) /\ ImportNumbers(b, file, q) = h[DOMAIN q].of
<1>1. \E h : ImportNumbers(b, file, q) = h[DOMAIN q].of /\ h = CHOOSE f : PlaceOver(file, Start(b, file), q, f)
  BY DEF ImportNumbers, FoldLeft, MapThenFoldSet, PlaceOver, Start
<1> QED BY <1>1

\* The trace of pass 1.
LEMMA PlaceSteps ==
  ASSUME NEW b \in Boards, NEW file, IsFile(file), NEW n \in Nat, NEW q \in [1..n -> DOMAIN file]
  PROVE  \E acc \in [0..n -> Tally(file)] :
           /\ acc[0] = Start(b, file) /\ acc[n].of = ImportNumbers(b, file, q)
           /\ \A k \in 1..n : acc[k] = Place(file, acc[k - 1], q[k])
<1> DEFINE S == 1..n
           A == Tally(file)
           a0 == Start(b, file)
           c == [T \in SUBSET S |-> Max(T)]
           F == [p \in A \X S |-> Place(file, p[1], q[p[2]])]
<1>1. IsFiniteSet(S) /\ DOMAIN q = S
  BY FS_Interval
<1>2. a0 \in A
  BY StartType
<1>3. \A T \in SUBSET S : T # {} => c[T] \in T
  BY LastChosen
<1>4. \A a \in A, x \in S : F[<<a, x>>] = Place(file, a, q[x]) /\ F[<<a, x>>] \in A
  BY PlaceType
<1>5. \A T \in SUBSET S : c[T] = Max(T)
  OBVIOUS
<1> HIDE DEF c, F, a0, A
<1>6. PICK g \in [SUBSET S -> A] : Folded(g, S, a0, c, F)
  <2>1. Chooser(c, S) /\ Within(F, A, S)
    BY <1>3, <1>4 DEF Chooser, Within
  <2> HIDE DEF S
  <2> QED BY <1>1, <1>2, <2>1, FoldExists
<1>7. PlaceOver(file, a0, q, g)
  <2>1. ASSUME NEW T \in SUBSET S, T # {}
        PROVE  F[<<g[T \ {c[T]}], c[T]>>] = Place(file, g[T \ {Max(T)}], q[Max(T)])
    <3>1. c[T] \in S /\ T \ {c[T]} \in SUBSET S /\ c[T] = Max(T)
      BY <1>3, <1>5, <2>1
    <3>2. g[T \ {c[T]}] \in A
      BY <3>1
    <3> QED BY <1>4, <3>1, <3>2
  <2>2. g = [T \in SUBSET S |-> IF T = {} THEN a0 ELSE Place(file, g[T \ {Max(T)}], q[Max(T)])]
    BY <1>6, <2>1 DEF Folded
  <2> QED BY <1>1, <2>2 DEF PlaceOver
<1>8. PICK h : PlaceOver(file, a0, q, h) /\ ImportNumbers(b, file, q) = h[DOMAIN q].of
  BY <1>7, PlaceChosen DEF a0
<1>9. h = [T \in SUBSET S |-> IF T = {} THEN a0 ELSE Place(file, h[T \ {Max(T)}], q[Max(T)])]
  BY <1>1, <1>8 DEF PlaceOver
<1> DEFINE acc == [k \in 0..n |-> h[1..k]]
<1>10. acc[0] = a0
  <2>1. 1..0 = {}
    OBVIOUS
  <2> QED BY <1>9, <2>1
<1>11. ASSUME NEW k \in 1..n PROVE acc[k] = Place(file, acc[k - 1], q[k])
  <2>1. 1..k \in SUBSET S /\ 1..k # {} /\ Max(1..k) = k /\ (1..k) \ {k} = 1..(k - 1)
    BY LastChosen
  <2>2. h[1..k] = Place(file, h[1..(k - 1)], q[k])
    BY <1>9, <2>1
  <2>3. k \in 0..n /\ k - 1 \in 0..n
    OBVIOUS
  <2> QED BY <2>2, <2>3
<1>12. acc[n].of = ImportNumbers(b, file, q)
  BY <1>1, <1>8
<1>13. acc \in [0..n -> A]
  <2> DEFINE K == {k \in 0..n : acc[k] \in A}
  <2> HIDE DEF acc
  <2>1. 0 \in K
    BY <1>2, <1>10
  <2>2. ASSUME NEW k \in 1..n, k - 1 \in K PROVE k \in K
    BY <1>11, <2>2, PlaceType DEF A
  <2>3. 0..n \subseteq K
    <3> HIDE DEF K
    <3> QED BY <2>1, <2>2, IntervalInduction
  <2>4. acc = [k \in 0..n |-> acc[k]]
    BY DEF acc
  <2> QED BY <2>3, <2>4
<1> HIDE DEF acc
<1> QED BY <1>10, <1>11, <1>12, <1>13 DEF A, a0

LinkOver(fork, a0, q, g) ==
  g = [T \in SUBSET DOMAIN q |->
         IF T = {} THEN a0
         ELSE AddEdge(g[T \ {Max(T)}], FinalId(fork, q[Max(T)][1]), FinalId(fork, q[Max(T)][2]))]

LEMMA LinkChosen ==
  ASSUME NEW b, NEW fork, NEW q, NEW g, LinkOver(fork, b, q, g)
  PROVE  \E h : LinkOver(fork, b, q, h) /\ Linked(b, fork, q) = h[DOMAIN q]
<1>1. \E h : Linked(b, fork, q) = h[DOMAIN q] /\ h = CHOOSE f : LinkOver(fork, b, q, f)
  BY DEF Linked, FoldLeft, MapThenFoldSet, LinkOver
<1> QED BY <1>1

\* The n edges lead from the tasks of A.
Joins(fork, q, n, A) ==
  /\ DOMAIN q = 1..n
  /\ \A k \in 1..n : FinalId(fork, q[k][1]) \in A /\ FinalId(fork, q[k][2]) \in Task

LinkTrace(b, fork, n, q, acc) ==
  /\ acc[0] = b /\ acc[n] = Linked(b, fork, q)
  /\ \A k \in 1..n :
       acc[k] = AddEdge(acc[k - 1], FinalId(fork, q[k][1]), FinalId(fork, q[k][2]))

\* The trace of pass 3.
LEMMA LinkSteps ==
  ASSUME NEW b \in Boards, NEW fork, NEW n \in Nat, NEW q, Joins(fork, q, n, Task)
  PROVE  \E acc \in [0..n -> Boards] : LinkTrace(b, fork, n, q, acc)
<1> DEFINE S == 1..n
           Link(a, k) == AddEdge(a, FinalId(fork, q[k][1]), FinalId(fork, q[k][2]))
           c == [T \in SUBSET S |-> Max(T)]
           F == [p \in Boards \X S |-> Link(p[1], p[2])]
<1>1. IsFiniteSet(S)
  BY FS_Interval
<1>2. \A a \in Boards, k \in S : Link(a, k) \in Boards
  BY AddEdgeRows DEF Joins
<1>3. \A T \in SUBSET S : T # {} => c[T] \in T
  BY LastChosen
<1>4. \A a \in Boards, x \in S : F[<<a, x>>] = Link(a, x) /\ F[<<a, x>>] \in Boards
  BY <1>2
<1>5. \A T \in SUBSET S : c[T] = Max(T)
  OBVIOUS
<1> HIDE DEF c, F, Link
<1>6. PICK g \in [SUBSET S -> Boards] : Folded(g, S, b, c, F)
  <2>1. Chooser(c, S) /\ Within(F, Boards, S)
    BY <1>3, <1>4 DEF Chooser, Within
  <2> HIDE DEF S
  <2> QED BY <1>1, <2>1, FoldExists
<1>7. LinkOver(fork, b, q, g)
  <2>1. ASSUME NEW T \in SUBSET S, T # {}
        PROVE  F[<<g[T \ {c[T]}], c[T]>>] = Link(g[T \ {Max(T)}], Max(T))
    <3>1. c[T] \in S /\ T \ {c[T]} \in SUBSET S /\ c[T] = Max(T)
      BY <1>3, <1>5, <2>1
    <3>2. g[T \ {c[T]}] \in Boards
      BY <3>1
    <3> QED BY <1>4, <3>1, <3>2
  <2>2. g = [T \in SUBSET S |-> IF T = {} THEN b ELSE Link(g[T \ {Max(T)}], Max(T))]
    BY <1>6, <2>1 DEF Folded
  <2> QED BY <2>2 DEF LinkOver, Link, Joins
<1>8. PICK h : LinkOver(fork, b, q, h) /\ Linked(b, fork, q) = h[S]
  BY <1>7, LinkChosen DEF Joins
<1>9. h = [T \in SUBSET S |-> IF T = {} THEN b ELSE Link(h[T \ {Max(T)}], Max(T))]
  BY <1>8 DEF LinkOver, Link, Joins
<1> DEFINE acc == [k \in 0..n |-> h[1..k]]
<1>10. acc[0] = b
  <2>1. 1..0 = {}
    OBVIOUS
  <2> QED BY <1>9, <2>1
<1>11. ASSUME NEW k \in 1..n PROVE acc[k] = Link(acc[k - 1], k)
  <2>1. 1..k \in SUBSET S /\ 1..k # {} /\ Max(1..k) = k /\ (1..k) \ {k} = 1..(k - 1)
    BY LastChosen
  <2>2. h[1..k] = Link(h[1..(k - 1)], k)
    BY <1>9, <2>1
  <2>3. k \in 0..n /\ k - 1 \in 0..n
    OBVIOUS
  <2> QED BY <2>2, <2>3
<1>12. acc[n] = Linked(b, fork, q)
  BY <1>8
<1>13. acc \in [0..n -> Boards]
  <2> DEFINE K == {k \in 0..n : acc[k] \in Boards}
  <2> HIDE DEF acc
  <2>1. 0 \in K
    BY <1>10
  <2>2. ASSUME NEW k \in 1..n, k - 1 \in K PROVE k \in K
    BY <1>2, <1>11, <2>2
  <2>3. 0..n \subseteq K
    <3> HIDE DEF K
    <3> QED BY <2>1, <2>2, IntervalInduction
  <2>4. acc = [k \in 0..n |-> acc[k]]
    BY DEF acc
  <2> QED BY <2>3, <2>4
<1> HIDE DEF acc
<1>14. LinkTrace(b, fork, n, q, acc)
  BY <1>10, <1>11, <1>12 DEF LinkTrace, Link
<1> QED BY <1>13, <1>14

(***************************************************************************)
(* The numbers of the rows that come in.                                   *)
(***************************************************************************)
\* Every row that comes in is in the order once.
Listing(P, n, order) ==
  /\ order \in [1..n -> P]
  /\ \A i, j \in 1..n : i # j => order[i] # order[j]
  /\ \A t \in P : \E i \in 1..n : order[i] = t
Ascending(file, n, order) ==
  \A i, j \in 1..n : i < j => file[order[i]].number <= file[order[j]].number

LEMMA OrderIs ==
  ASSUME NEW file, IsFile(file), NEW P \in SUBSET DOMAIN file,
         NEW order \in ImportOrders(file, P)
  PROVE  \E n \in Nat : Listing(P, n, order) /\ Ascending(file, n, order)
<1> DEFINE n == Cardinality(P)
<1>1. IsFiniteSet(P)
  BY RowAssumption, FS_Subset DEF IsFile
<1>2. n \in Nat
  BY <1>1, FS_CardinalityType
<1>3. /\ order \in [1..n -> P]
      /\ \A i, j \in 1..n : i # j => order[i] # order[j]
      /\ \A i, j \in DOMAIN order : i < j => file[order[i]].number <= file[order[j]].number
  BY DEF ImportOrders, SetToSeqs
<1>4. order \in Injection(1..n, P)
  BY <1>3 DEF Injection, IsInjective
<1>5. Cardinality(1..n) = n
  BY <1>2, FS_Interval
<1> HIDE DEF n
<1>6. order \in Surjection(1..n, P)
  BY <1>1, <1>4, <1>5, FS_Injection DEF n
<1>7. \A t \in P : \E i \in 1..n : order[i] = t
  BY <1>6 DEF Surjection
<1> QED BY <1>2, <1>3, <1>7 DEF Listing, Ascending

LEMMA NumbersBelow ==
  ASSUME NEW b \in Boards
  PROVE  \A m \in NumbersOf(b) : m \in Nat /\ m > 0 /\ m <= MaxNumber(b)
<1> TAKE m \in NumbersOf(b)
<1>1. PICK t \in Task : b[t] # None /\ m = b[t].number /\ m # 0
  BY DEF NumbersOf, On
<1>2. b[t].number \in Nat /\ b[t].number <= MaxNumber(b)
  BY <1>1, MaxNumberType
<1> QED BY <1>1, <1>2

\* After k rows: their numbers are new to the board and differ; one that is not below the
\* next free number is the one that the file says.
NumberInv(b, file, order, k, acc) ==
  /\ \A t \in DOMAIN file : (\A i \in 1..k : order[i] # t) => acc.of[t] = Start(b, file).of[t]
  /\ \A m : m \in acc.taken <=> m \in NumbersOf(b) \/ \E i \in 1..k : m = acc.of[order[i]]
  /\ \A i, j \in 1..k : i # j => acc.of[order[i]] # acc.of[order[j]]
  /\ \A i \in 1..k : /\ acc.of[order[i]] > 0 /\ acc.of[order[i]] \notin NumbersOf(b)
                     /\ acc.of[order[i]] >= acc.next => acc.of[order[i]] = file[order[i]].number
  /\ acc.next > MaxNumber(b)

\* A number is new: next_number is above every number of the board, and a row that has it
\* already came with it, so no later row of an ascending file needs it.
LEMMA NumberStep ==
  ASSUME NEW b \in Boards, NEW file, IsFile(file), NumberedOnce(file),
         NEW P \in SUBSET DOMAIN file, NEW n \in Nat, NEW order,
         Listing(P, n, order), Ascending(file, n, order),
         NEW k \in 1..n, NEW acc \in Tally(file), NumberInv(b, file, order, k - 1, acc)
  PROVE  NumberInv(b, file, order, k, Place(file, acc, order[k]))
<1> DEFINE t == order[k]
           m == file[t].number
           collides == m \in acc.taken \cup {0}
           new == IF collides THEN acc.next ELSE m
           next == IF collides THEN acc.next + 1 ELSE acc.next
           res == Place(file, acc, t)
<1>1. /\ order \in [1..n -> P] /\ t \in DOMAIN file
      /\ \A i, j \in 1..n : i # j => order[i] # order[j]
      /\ \A i \in 1..(k - 1) : i \in 1..n /\ order[i] \in DOMAIN file /\ order[i] # t /\ i < k
  BY DEF Listing
<1>2. /\ acc.of \in [DOMAIN file -> Nat] /\ acc.taken \in SUBSET Nat /\ acc.next \in Nat
      /\ \A s \in DOMAIN file : file[s].number \in Nat
  BY DEF Tally, IsFile, Row
<1>3. /\ res.of = [acc.of EXCEPT ![t] = new] /\ res.taken = acc.taken \cup {new}
      /\ res.next = next
  BY DEF Place
<1>4. MaxNumber(b) \in Nat /\ acc.next > MaxNumber(b)
  BY MaxNumberType DEF NumberInv
<1>5. /\ \A i \in 1..(k - 1) :
           /\ acc.of[order[i]] \in Nat /\ acc.of[order[i]] > 0 /\ acc.of[order[i]] \notin NumbersOf(b)
           /\ acc.of[order[i]] >= acc.next => acc.of[order[i]] = file[order[i]].number
      /\ \A x : x \in acc.taken <=> x \in NumbersOf(b) \/ \E i \in 1..(k - 1) : x = acc.of[order[i]]
  BY <1>1, <1>2 DEF NumberInv
<1>6. \A i \in 1..(k - 1) : file[order[i]].number <= m
  BY <1>1 DEF Ascending
<1>7. \A i \in 1..(k - 1) : m > 0 => file[order[i]].number # m
  <2> TAKE i \in 1..(k - 1)
  <2>1. order[i] \in DOMAIN file /\ order[i] # t
    BY <1>1
  <2> QED BY <1>1, <2>1 DEF NumberedOnce
<1> HIDE DEF m
<1>8. m \in Nat
  BY <1>1, <1>2 DEF m
<1>9. new \in Nat /\ next \in Nat /\ new > 0 /\ new \notin acc.taken /\ next >= acc.next
      /\ (new >= next => new = m)
  <2>1. CASE ~collides
    BY <1>2, <1>8, <2>1
  <2>2. CASE collides
    <3>1. new = acc.next /\ next = acc.next + 1
      BY <2>2
    <3>2. ASSUME acc.next \in acc.taken PROVE FALSE
      <4>1. acc.next \notin NumbersOf(b)
        BY <1>4, NumbersBelow
      <4>2. PICK i \in 1..(k - 1) : acc.next = acc.of[order[i]]
        BY <1>5, <3>2, <4>1
      <4>3. acc.next = file[order[i]].number
        BY <1>2, <1>5, <4>2
      <4>4. acc.next <= m
        BY <1>6, <4>3
      <4>5. m \in acc.taken /\ m \notin NumbersOf(b) /\ m > 0
        BY <1>2, <1>4, <1>8, <2>2, <4>4, NumbersBelow
      <4>6. PICK j \in 1..(k - 1) : m = acc.of[order[j]]
        BY <1>5, <4>5
      <4>7. m = file[order[j]].number
        BY <1>2, <1>5, <1>8, <4>4, <4>6
      <4> QED BY <1>7, <4>5, <4>7
    <3> QED BY <1>2, <1>4, <3>1, <3>2
  <2> QED BY <2>1, <2>2
<1> HIDE DEF new, next, collides, res
<1>10. res.of[t] = new /\ \A s \in DOMAIN file : s # t => res.of[s] = acc.of[s]
  BY <1>1, <1>2, <1>3
<1>11. \A i \in 1..(k - 1) : res.of[order[i]] = acc.of[order[i]]
  BY <1>1, <1>10
<1>12. \A i \in 1..k : i = k \/ i \in 1..(k - 1)
  OBVIOUS
<1>13. \A s \in DOMAIN file : (\A i \in 1..k : order[i] # s) => res.of[s] = Start(b, file).of[s]
  <2> TAKE s \in DOMAIN file
  <2> HAVE \A i \in 1..k : order[i] # s
  <2>1. s # t /\ \A i \in 1..(k - 1) : order[i] # s
    OBVIOUS
  <2> QED BY <1>10, <2>1 DEF NumberInv
<1>14. \A x : x \in res.taken <=> x \in NumbersOf(b) \/ \E i \in 1..k : x = res.of[order[i]]
  <2> TAKE x
  <2>1. x \in res.taken <=> x \in acc.taken \/ x = new
    BY <1>3
  <2>2. (\E i \in 1..k : x = res.of[order[i]]) <=>
        x = new \/ \E i \in 1..(k - 1) : x = acc.of[order[i]]
    <3>1. k \in 1..k /\ \A i \in 1..(k - 1) : i \in 1..k
      OBVIOUS
    <3> QED BY <1>10, <1>11, <1>12, <3>1
  <2> QED BY <1>5, <2>1, <2>2
<1>15. \A i \in 1..(k - 1) : acc.of[order[i]] \in acc.taken
  BY <1>5
<1>16. \A i, j \in 1..k : i # j => res.of[order[i]] # res.of[order[j]]
  <2> TAKE i, j \in 1..k
  <2> HAVE i # j
  <2>1. CASE i = k
    BY <1>9, <1>10, <1>11, <1>12, <1>15, <2>1
  <2>2. CASE j = k
    BY <1>9, <1>10, <1>11, <1>12, <1>15, <2>2
  <2>3. CASE i # k /\ j # k
    BY <1>11, <1>12, <2>3 DEF NumberInv
  <2> QED BY <2>1, <2>2, <2>3
<1>17. \A i \in 1..k : /\ res.of[order[i]] > 0 /\ res.of[order[i]] \notin NumbersOf(b)
                       /\ res.of[order[i]] >= res.next => res.of[order[i]] = file[order[i]].number
  <2> TAKE i \in 1..k
  <2>1. CASE i = k
    <3>1. new \notin NumbersOf(b)
      BY <1>5, <1>9
    <3> QED BY <1>3, <1>9, <1>10, <2>1, <3>1 DEF m
  <2>2. CASE i \in 1..(k - 1)
    <3>1. acc.of[order[i]] \in Nat
      BY <1>5, <2>2
    <3>2. res.of[order[i]] >= res.next => acc.of[order[i]] >= acc.next
      BY <1>2, <1>3, <1>9, <1>11, <2>2, <3>1
    <3> QED BY <1>5, <1>11, <2>2, <3>2
  <2> QED BY <1>12, <2>1, <2>2
<1>18. res.next > MaxNumber(b)
  BY <1>2, <1>3, <1>4, <1>9
<1>19. NumberInv(b, file, order, k, res)
  BY <1>13, <1>14, <1>16, <1>17, <1>18 DEF NumberInv
<1> QED BY <1>19 DEF res

LEMMA NumbersType ==
  ASSUME NEW b \in Boards, NEW file, IsFile(file), NEW P \in SUBSET DOMAIN file,
         NEW order \in ImportOrders(file, P)
  PROVE  ImportNumbers(b, file, order) \in [DOMAIN file -> Nat]
<1>1. PICK n \in Nat : Listing(P, n, order)
  BY OrderIs
<1>2. order \in [1..n -> DOMAIN file]
  BY <1>1 DEF Listing
<1>3. PICK acc \in [0..n -> Tally(file)] : acc[n].of = ImportNumbers(b, file, order)
  BY <1>2, PlaceSteps
<1>4. acc[n] \in Tally(file)
  OBVIOUS
<1> QED BY <1>3, <1>4 DEF Tally

\* What pass 1 gives: numbers that are new to the board and differ.
LEMMA NumbersApart ==
  ASSUME NEW b \in Boards, NEW file, IsFile(file), NumberedOnce(file),
         NEW P \in SUBSET DOMAIN file, NEW order \in ImportOrders(file, P),
         NEW numbers, numbers = ImportNumbers(b, file, order)
  PROVE  /\ \A s, t \in P : s # t => numbers[s] # numbers[t]
         /\ \A t \in P : numbers[t] \notin NumbersOf(b)
         /\ \A t \in DOMAIN file \ P : numbers[t] = Start(b, file).of[t]
<1>1. PICK n \in Nat : Listing(P, n, order) /\ Ascending(file, n, order)
  BY OrderIs
<1>2. /\ order \in [1..n -> DOMAIN file] /\ \A i \in 1..n : order[i] \in P
      /\ \A t \in P : \E i \in 1..n : order[i] = t
  BY <1>1 DEF Listing
<1>3. order \in [1..n -> DOMAIN file]
  BY <1>2
<1>4. PICK acc \in [0..n -> Tally(file)] :
        /\ acc[0] = Start(b, file) /\ acc[n].of = ImportNumbers(b, file, order)
        /\ \A k \in 1..n : acc[k] = Place(file, acc[k - 1], order[k])
  BY <1>3, PlaceSteps
<1>5. acc[n].of = numbers
  BY <1>4
<1> DEFINE K == {k \in 0..n : NumberInv(b, file, order, k, acc[k])}
<1>6. 0 \in K
  <2>1. NumberInv(b, file, order, 0, Start(b, file))
    <3>1. 1..0 = {} /\ MaxNumber(b) \in Nat
      BY MaxNumberType
    <3>2. Start(b, file).taken = NumbersOf(b) /\ Start(b, file).next = MaxNumber(b) + 1
      BY DEF Start
    <3> QED BY <3>1, <3>2 DEF NumberInv
  <2> QED BY <1>4, <2>1
<1>7. ASSUME NEW k \in 1..n, k - 1 \in K PROVE k \in K
  <2>1. k - 1 \in 0..n /\ k \in 0..n
    OBVIOUS
  <2>2. PICK a \in Tally(file) : a = acc[k - 1]
    BY <2>1
  <2>3. NumberInv(b, file, order, k - 1, a)
    BY <1>7, <2>2
  <2>4. NumberInv(b, file, order, k, Place(file, a, order[k]))
    BY <1>1, <2>3, NumberStep
  <2> QED BY <1>4, <2>1, <2>2, <2>4
<1>8. n \in K
  <2> HIDE DEF K
  <2>1. 0..n \subseteq K
    BY <1>6, <1>7, IntervalInduction
  <2> QED BY <2>1
<1>9. NumberInv(b, file, order, n, acc[n])
  BY <1>8
<1>10. ASSUME NEW s \in P, NEW t \in P, s # t PROVE numbers[s] # numbers[t]
  <2>1. PICK i \in 1..n : order[i] = s
    BY <1>2
  <2>2. PICK j \in 1..n : order[j] = t
    BY <1>2
  <2> QED BY <1>5, <1>9, <1>10, <2>1, <2>2 DEF NumberInv
<1>11. ASSUME NEW t \in P PROVE numbers[t] \notin NumbersOf(b)
  <2>1. PICK i \in 1..n : order[i] = t
    BY <1>2
  <2> QED BY <1>9, <1>5, <2>1 DEF NumberInv
<1>12. ASSUME NEW t \in DOMAIN file \ P PROVE numbers[t] = Start(b, file).of[t]
  <2>1. \A i \in 1..n : order[i] # t
    BY <1>2
  <2> QED BY <1>9, <1>5, <2>1 DEF NumberInv
<1> QED BY <1>10, <1>11, <1>12

(***************************************************************************)
(* The ids of the rows that come in.                                       *)
(***************************************************************************)
IsFork(b, file, fork) ==
  /\ fork \in [Forked(b, file) -> Task \ (On(b) \cup DOMAIN file)]
  /\ \A s, t \in Forked(b, file) : s # t => fork[s] # fork[t]

\* No row comes in under an id that the board has, or that another row has.
LEMMA FinalIds ==
  ASSUME NEW b, NEW file, IsFile(file), NEW fork, IsFork(b, file, fork)
  PROVE  /\ \A t \in Task : FinalId(fork, t) \in Task
         /\ \A t \in Planned(b, file) :
              /\ t \in DOMAIN file
              /\ FinalId(fork, t) \in Arrived(b, file, fork)
              /\ FinalId(fork, t) \notin On(b)
              /\ Source(b, file, fork, FinalId(fork, t)) = t
         /\ \A id \in Arrived(b, file, fork) :
              /\ id \in Task /\ b[id] = None
              /\ Source(b, file, fork, id) \in Planned(b, file)
              /\ FinalId(fork, Source(b, file, fork, id)) = id
         /\ \A t \in Unchanged(b, file) : FinalId(fork, t) = t /\ t \in Task /\ b[t] # None
         /\ \A t \in DOMAIN file : FinalId(fork, t) = t => t \notin Forked(b, file)
<1> DEFINE P == Planned(b, file)
           X == Forked(b, file)
<1>1. /\ DOMAIN file \subseteq Task /\ P \subseteq DOMAIN file /\ X = P \cap On(b)
      /\ Unchanged(b, file) \subseteq DOMAIN file /\ Unchanged(b, file) \cap P = {}
      /\ \A t \in Unchanged(b, file) : b[t] # None
  BY DEF IsFile, Planned, Forked, Unchanged
<1>2. /\ DOMAIN fork = X
      /\ \A t \in X : fork[t] \in Task /\ fork[t] \notin On(b) /\ fork[t] \notin DOMAIN file
      /\ \A s, t \in X : s # t => fork[s] # fork[t]
  BY DEF IsFork
<1>3. /\ \A t \in X : FinalId(fork, t) = fork[t]
      /\ \A t : t \notin X => FinalId(fork, t) = t
  BY <1>2 DEF FinalId
<1> HIDE DEF P, X
<1>4. \A t \in Task : FinalId(fork, t) \in Task
  BY <1>2, <1>3
<1>5. \A t \in P : FinalId(fork, t) \notin On(b)
  BY <1>1, <1>2, <1>3
<1>6. \A s, t \in P : FinalId(fork, s) = FinalId(fork, t) => s = t
  BY <1>1, <1>2, <1>3
<1>7. Arrived(b, file, fork) = {FinalId(fork, t) : t \in P}
  BY DEF Arrived, P
<1>8. \A id \in Arrived(b, file, fork) :
        Source(b, file, fork, id) \in P /\ FinalId(fork, Source(b, file, fork, id)) = id
  BY <1>7 DEF Source, P
<1>9. \A id \in Arrived(b, file, fork) : id \in Task /\ b[id] = None
  BY <1>1, <1>4, <1>5, <1>7 DEF On
<1>10. \A t \in P : /\ FinalId(fork, t) \in Arrived(b, file, fork)
                    /\ Source(b, file, fork, FinalId(fork, t)) = t
  BY <1>6, <1>7, <1>8
<1>11. \A t \in DOMAIN file : FinalId(fork, t) = t => t \notin X
  BY <1>2, <1>3
<1>12. \A t \in Unchanged(b, file) : FinalId(fork, t) = t /\ t \in Task /\ b[t] # None
  BY <1>1, <1>3
<1> QED BY <1>1, <1>4, <1>5, <1>8, <1>9, <1>10, <1>11, <1>12 DEF P, X

LEMMA RefTargetType ==
  ASSUME NEW file, IsFile(file), NEW numbers \in [DOMAIN file -> Nat], NEW n \in Nat
  PROVE  RefTarget(file, numbers, n) \in Nat
<1> DEFINE all == {numbers[t] : t \in DOMAIN file}
           moved == {numbers[t] : t \in {u \in DOMAIN file : file[u].number = n /\ n > 0}} \ {n}
<1>1. numbers \in Surjection(DOMAIN file, all)
  BY DEF Surjection
<1>2. IsFiniteSet(DOMAIN file)
  BY RowAssumption, FS_Subset DEF IsFile
<1>3. moved \in SUBSET all /\ moved \in SUBSET Nat
  OBVIOUS
<1>4. RefTarget(file, numbers, n) = IF moved = {} THEN n ELSE Max(moved)
  BY DEF RefTarget
<1> HIDE DEF all, moved
<1>5. IsFiniteSet(moved)
  BY <1>1, <1>2, <1>3, FS_Surjection, FS_Subset
<1>6. moved # {} => Max(moved) \in Nat
  BY <1>3, <1>5, FiniteMax
<1> QED BY <1>4, <1>6

\* Pass 2 puts every row at its id and touches no row of the board.
LEMMA PlacedRows ==
  ASSUME NEW b \in Boards, NEW file, IsFile(file), NEW fork, IsFork(b, file, fork),
         NEW numbers \in [DOMAIN file -> Nat], NEW c, c = Placed(b, file, fork, numbers)
  PROVE  /\ c \in Boards
         /\ \A id \in Task \ Arrived(b, file, fork) : c[id] = b[id]
         /\ \A t \in Planned(b, file) :
              LET row == c[FinalId(fork, t)]
              IN  /\ row # None /\ row.number = numbers[t] /\ row.deps = {}
                  /\ row.stamp = file[t].stamp
                  /\ row.cites = {RefTarget(file, numbers, n) : n \in file[t].cites}
<1> DEFINE Cites(t) == {RefTarget(file, numbers, n) : n \in file[t].cites}
           In(t) == [file[t] EXCEPT !.number = numbers[t], !.deps = {}, !.cites = Cites(t)]
<1>1. /\ \A id \in Arrived(b, file, fork) : id \in Task /\ Source(b, file, fork, id) \in Planned(b, file)
      /\ \A t \in Planned(b, file) :
           /\ t \in DOMAIN file
           /\ FinalId(fork, t) \in Arrived(b, file, fork) /\ FinalId(fork, t) \in Task
           /\ Source(b, file, fork, FinalId(fork, t)) = t
  BY FinalIds
<1>2. ASSUME NEW t \in DOMAIN file
      PROVE  /\ In(t) \in Row /\ In(t) # None
             /\ In(t).number = numbers[t] /\ In(t).deps = {} /\ In(t).cites = Cites(t)
             /\ In(t).stamp = file[t].stamp
  <2>1. file[t] \in Row
    BY DEF IsFile
  <2>2. Cites(t) \in SUBSET Nat
    <3>1. file[t].cites \in SUBSET Nat
      BY <2>1 DEF Row
    <3> QED BY <3>1, RefTargetType
  <2> HIDE DEF Cites
  <2>3. /\ In(t) \in Row /\ In(t).number = numbers[t] /\ In(t).deps = {}
        /\ In(t).cites = Cites(t) /\ In(t).stamp = file[t].stamp
    BY <2>1, <2>2 DEF Row
  <2> QED BY <2>3, RowAssumption
<1>3. c = [id \in Task |-> IF id \notin Arrived(b, file, fork) THEN b[id]
                           ELSE In(Source(b, file, fork, id))]
  BY DEF Placed
<1> HIDE DEF In
<1>4. \A id \in Task \ Arrived(b, file, fork) : c[id] = b[id]
  BY <1>3
<1>5. \A t \in Planned(b, file) : c[FinalId(fork, t)] = In(t)
  BY <1>1, <1>3
<1>6. c \in Boards
  <2>1. \A id \in Task : c[id] \in Row \cup {None}
    BY <1>1, <1>2, <1>3 DEF Boards
  <2> QED BY <1>3, <2>1 DEF Boards
<1>7. \A t \in Planned(b, file) :
        /\ In(t) # None /\ In(t).number = numbers[t] /\ In(t).deps = {}
        /\ In(t).cites = Cites(t) /\ In(t).stamp = file[t].stamp
  BY <1>1, <1>2
<1> QED BY <1>4, <1>5, <1>6, <1>7

(***************************************************************************)
(* The edges, one by one.                                                  *)
(***************************************************************************)
\* Only the edges of the rows in A change, and their times of update.
SameRow(q, r) == /\ r.number = q.number /\ r.cites = q.cites
                 /\ r.deps # {} \/ (r.stamp = q.stamp /\ q.deps = {})
LinkInv(b, A, c) ==
  /\ KeepsDag(b, c)
  /\ \A id \in Task : /\ c[id] = None <=> b[id] = None
                      /\ id \notin A => c[id] = b[id]
                      /\ b[id] # None => SameRow(b[id], c[id])

LEMMA LinkStep ==
  ASSUME NEW b, NEW A, NEW c \in Boards, LinkInv(b, A, c), NEW from \in A \cap Task, NEW on \in Task
  PROVE  AddEdge(c, from, on) \in Boards /\ LinkInv(b, A, AddEdge(c, from, on))
<1>1. PICK d \in Boards : d = AddEdge(c, from, on)
  BY AddEdgeRows
<1>2. \A t \in Task : t # from => d[t] = c[t]
  <2>1. \A t \in Task : t # from => AddEdge(c, from, on)[t] = c[t]
    BY AddEdgeRows
  <2> QED BY <1>1, <2>1
<1>3. d[from] = None <=> c[from] = None
  BY <1>1, AddEdgeRows
<1>4. c[from] # None => SameRow(c[from], d[from])
  <2> SUFFICES ASSUME c[from] # None
               PROVE  /\ d[from].number = c[from].number /\ d[from].cites = c[from].cites
                      /\ d[from] = c[from] \/ d[from].deps # {}
    BY DEF SameRow
  <2> QED BY <1>1, AddEdgeRows
<1>5. KeepsDag(b, d)
  <2>1. KeepsDag(c, d)
    BY <1>1, AddEdgeKeepsAcyclic DEF KeepsDag
  <2> QED BY <2>1 DEF KeepsDag, LinkInv
<1>6. ASSUME NEW id \in Task
      PROVE  /\ d[id] = None <=> b[id] = None
             /\ id \notin A => d[id] = b[id]
             /\ b[id] # None => SameRow(b[id], d[id])
  <2>1. CASE id = from
    BY <1>3, <1>4, <2>1 DEF LinkInv, SameRow
  <2>2. CASE id # from
    BY <1>2, <2>2 DEF LinkInv
  <2> QED BY <2>1, <2>2
<1>7. LinkInv(b, A, d)
  BY <1>5, <1>6 DEF LinkInv
<1> QED BY <1>1, <1>7

\* However many edges are replayed.
LEMMA LinkedRows ==
  ASSUME NEW b \in Boards, NEW fork, NEW n \in Nat, NEW q,
         NEW A \in SUBSET Task, Joins(fork, q, n, A)
  PROVE  Linked(b, fork, q) \in Boards /\ LinkInv(b, A, Linked(b, fork, q))
<1>1. PICK acc \in [0..n -> Boards] : LinkTrace(b, fork, n, q, acc)
  <2>1. Joins(fork, q, n, Task)
    BY DEF Joins
  <2> QED BY <2>1, LinkSteps
<1> DEFINE K == {k \in 0..n : LinkInv(b, A, acc[k])}
<1>2. 0 \in K
  BY <1>1 DEF LinkTrace, LinkInv, KeepsDag, SameRow
<1>3. ASSUME NEW k \in 1..n, k - 1 \in K PROVE k \in K
  <2>1. k - 1 \in 0..n /\ k \in 0..n
    OBVIOUS
  <2>2. PICK c \in Boards : c = acc[k - 1]
    BY <2>1
  <2>3. LinkInv(b, A, c)
    BY <1>3, <2>2
  <2>4. PICK from \in A \cap Task, on \in Task : from = FinalId(fork, q[k][1]) /\ on = FinalId(fork, q[k][2])
    BY DEF Joins
  <2>5. LinkInv(b, A, AddEdge(c, from, on))
    BY <2>3, LinkStep
  <2>6. acc[k] = AddEdge(c, from, on)
    BY <1>1, <2>2, <2>4 DEF LinkTrace
  <2> QED BY <2>1, <2>5, <2>6
<1>4. n \in K
  <2> HIDE DEF K
  <2>1. 0..n \subseteq K
    BY <1>2, <1>3, IntervalInduction
  <2> QED BY <2>1
<1>5. acc[n] \in Boards /\ acc[n] = Linked(b, fork, q)
  BY <1>1 DEF LinkTrace
<1> QED BY <1>4, <1>5

\* The edges lead from rows that come in.
LEMMA EdgesAre ==
  ASSUME NEW b, NEW file, IsFile(file), NEW fork, IsFork(b, file, fork),
         NEW order \in ImportOrders(file, Planned(b, file)), NEW q \in EdgeOrders(file, order)
  PROVE  \E n \in Nat : Joins(fork, q, n, Arrived(b, file, fork))
<1> DEFINE E == UNION {{t} \X file[t].deps : t \in Range(order)}
           n == Cardinality(E)
<1>1. Range(order) \subseteq Planned(b, file)
  <2>1. PICK m \in Nat : Listing(Planned(b, file), m, order)
    <3>1. Planned(b, file) \in SUBSET DOMAIN file
      BY DEF Planned
    <3> QED BY <3>1, OrderIs
  <2> QED BY <2>1 DEF Listing, Range
<1>2. \A e \in E : e[1] \in Planned(b, file) /\ e[2] \in Task /\ e \in Task \X Task
  <2> TAKE e \in E
  <2>1. PICK t \in Range(order) : e \in {t} \X file[t].deps
    OBVIOUS
  <2>2. t \in Planned(b, file) /\ t \in DOMAIN file /\ t \in Task /\ file[t].deps \in SUBSET Task
    BY <1>1, <2>1 DEF Planned, IsFile, Row
  <2> HIDE DEF E
  <2> QED BY <2>1, <2>2
<1>3. q \in [1..n -> E]
  BY DEF EdgeOrders, SetToSeqs
<1> HIDE DEF E
<1>4. IsFiniteSet(E)
  <2>1. IsFiniteSet(Task \X Task) /\ E \in SUBSET (Task \X Task)
    BY <1>2, RowAssumption, FS_Product
  <2> QED BY <2>1, FS_Subset
<1>5. n \in Nat
  BY <1>4, FS_CardinalityType
<1> HIDE DEF n
<1>6. ASSUME NEW k \in 1..n
      PROVE  /\ FinalId(fork, q[k][1]) \in Arrived(b, file, fork)
             /\ FinalId(fork, q[k][2]) \in Task
  <2>1. q[k][1] \in Planned(b, file) /\ q[k][2] \in Task
    BY <1>2, <1>3
  <2> QED BY <2>1, FinalIds
<1> QED BY <1>3, <1>5, <1>6 DEF Joins

(***************************************************************************)
(* The merge.                                                              *)
(***************************************************************************)
LEMMA MergedRows ==
  ASSUME NEW b \in Boards, NEW file, IsFile(file), NEW fork, IsFork(b, file, fork),
         NEW order \in ImportOrders(file, Planned(b, file)), NEW edges \in EdgeOrders(file, order),
         NEW numbers, numbers = ImportNumbers(b, file, order),
         NEW m, m = MergeImport(b, file, fork, order, edges)
  PROVE  /\ m \in Boards /\ KeepsDag(b, m)
         /\ \A id \in Task \ Arrived(b, file, fork) : m[id] = b[id]
         /\ \A t \in Planned(b, file) :
              LET row == m[FinalId(fork, t)]
              IN  /\ row # None /\ row.number = numbers[t]
                  /\ row.cites = {RefTarget(file, numbers, n) : n \in file[t].cites}
                  /\ \/ row.stamp = file[t].stamp
                     \/ file[t].stamp = Undated /\ row.deps # {}
<1> DEFINE A == Arrived(b, file, fork)
<1>1. Planned(b, file) \in SUBSET DOMAIN file
  BY DEF Planned
<1>2. numbers \in [DOMAIN file -> Nat]
  BY <1>1, NumbersType
<1>3. PICK p : p = Placed(b, file, fork, numbers)
  OBVIOUS
<1>4. /\ p \in Boards
      /\ \A id \in Task \ A : p[id] = b[id]
      /\ \A t \in Planned(b, file) :
           LET row == p[FinalId(fork, t)]
           IN  /\ row # None /\ row.number = numbers[t] /\ row.deps = {}
               /\ row.cites = {RefTarget(file, numbers, n) : n \in file[t].cites}
               /\ row.stamp = file[t].stamp
  BY <1>2, <1>3, PlacedRows
<1>5. /\ \A id \in A : id \in Task /\ b[id] = None
                       /\ Source(b, file, fork, id) \in Planned(b, file)
                       /\ FinalId(fork, Source(b, file, fork, id)) = id
      /\ \A t \in Planned(b, file) :
           /\ t \in DOMAIN file /\ FinalId(fork, t) \in A
           /\ Source(b, file, fork, FinalId(fork, t)) = t
  BY FinalIds
<1> HIDE DEF A
<1>6. PICK l \in Boards : l = Linked(p, fork, edges) /\ LinkInv(p, A, l)
  <2>1. PICK n \in Nat : Joins(fork, edges, n, A)
    BY EdgesAre DEF A
  <2>2. A \in SUBSET Task
    BY <1>5
  <2> QED BY <1>4, <2>1, <2>2, LinkedRows
<1> DEFINE Said(id) == file[Source(b, file, fork, id)].stamp
<1>7. m = [id \in Task |->
             IF id \in A THEN [l[id] EXCEPT !.stamp = IF Said(id) = Undated THEN @ ELSE Said(id)]
                         ELSE l[id]]
  BY <1>3, <1>6 DEF MergeImport, A
<1>8. ASSUME NEW t \in Planned(b, file), NEW id, id = FinalId(fork, t)
      PROVE  /\ m[id] \in Row /\ m[id] # None /\ m[id].number = numbers[t]
             /\ m[id].cites = {RefTarget(file, numbers, n) : n \in file[t].cites}
             /\ m[id].deps = l[id].deps
             /\ m[id].stamp = file[t].stamp \/ (file[t].stamp = Undated /\ m[id].deps # {})
  <2>1. id \in A /\ id \in Task /\ Source(b, file, fork, id) = t /\ t \in DOMAIN file
    BY <1>5, <1>8
  <2> DEFINE stamp == IF file[t].stamp = Undated THEN l[id].stamp ELSE file[t].stamp
  <2>2. m[id] = [l[id] EXCEPT !.stamp = stamp]
    BY <1>7, <2>1
  <2>3. /\ p[id] # None /\ p[id].number = numbers[t]
        /\ p[id].cites = {RefTarget(file, numbers, n) : n \in file[t].cites}
        /\ p[id].stamp = file[t].stamp
    BY <1>4, <1>8
  <2>4. /\ l[id] \in Row /\ l[id].number = p[id].number /\ l[id].cites = p[id].cites
        /\ l[id].deps # {} \/ l[id].stamp = p[id].stamp
    BY <1>6, <2>1, <2>3 DEF LinkInv, SameRow, Boards
  <2>5. /\ stamp \in Stamp \cup {Local, Undated}
        /\ stamp = file[t].stamp \/ (file[t].stamp = Undated /\ l[id].deps # {})
    <3>1. file[t].stamp \in Stamp \cup {Local, Undated} /\ l[id].stamp \in Stamp \cup {Local, Undated}
      BY <2>1, <2>4 DEF IsFile, Row
    <3> QED BY <2>3, <2>4, <3>1
  <2> HIDE DEF stamp
  <2>6. /\ m[id] \in Row /\ m[id].stamp = stamp /\ m[id].deps = l[id].deps
        /\ m[id].number = l[id].number /\ m[id].cites = l[id].cites
    BY <2>2, <2>4, <2>5 DEF Row
  <2> QED BY <2>3, <2>4, <2>5, <2>6, RowAssumption
<1>9. \A id \in A : m[id] \in Row /\ m[id] # None /\ m[id].deps = l[id].deps
  BY <1>5, <1>8
<1>10. \A id \in Task \ A : m[id] = l[id] /\ m[id] = b[id]
  BY <1>4, <1>6, <1>7 DEF LinkInv
<1>11. m \in Boards
  <2>1. \A id \in Task : m[id] \in Row \cup {None}
    BY <1>9, <1>10 DEF Boards
  <2> QED BY <1>7, <2>1 DEF Boards
<1>12. KeepsDag(b, m)
  <2>1. \A id \in Task : Deps(p, id) \subseteq Deps(b, id)
    <3> TAKE id \in Task
    <3>1. CASE id \in A
      BY <1>4, <1>5, <3>1 DEF Deps
    <3>2. CASE id \notin A
      BY <1>4, <3>2 DEF Deps
    <3> QED BY <3>1, <3>2
  <2>2. \A id \in Task : Deps(m, id) \subseteq Deps(l, id)
    <3> TAKE id \in Task
    <3>1. CASE id \in A
      <4>1. /\ FinalId(fork, Source(b, file, fork, id)) = id
            /\ Source(b, file, fork, id) \in Planned(b, file)
        BY <1>5, <3>1
      <4>2. p[id] # None
        BY <1>4, <4>1
      <4> QED BY <1>6, <1>9, <3>1, <4>2 DEF Deps, LinkInv
    <3>2. CASE id \notin A
      BY <1>10, <3>2 DEF Deps
    <3> QED BY <3>1, <3>2
  <2>3. Acyclic(b) => Acyclic(p)
    BY <2>1, FewerKeepAcyclic
  <2>4. Acyclic(p) => Acyclic(l)
    BY <1>6 DEF LinkInv, KeepsDag
  <2>5. Acyclic(l) => Acyclic(m)
    BY <2>2, FewerKeepAcyclic
  <2> QED BY <2>3, <2>4, <2>5 DEF KeepsDag
<1>13. \A t \in Planned(b, file) :
         /\ m[FinalId(fork, t)] # None /\ m[FinalId(fork, t)].number = numbers[t]
         /\ m[FinalId(fork, t)].cites = {RefTarget(file, numbers, n) : n \in file[t].cites}
         /\ \/ m[FinalId(fork, t)].stamp = file[t].stamp
            \/ file[t].stamp = Undated /\ m[FinalId(fork, t)].deps # {}
  BY <1>8
<1> QED BY <1>10, <1>11, <1>12, <1>13 DEF A

(***************************************************************************)
(* What an import makes of the board.                                      *)
(***************************************************************************)
\* What a merge makes of the board b: m.
Merge(b, file, fork, order, edges, m) ==
  /\ b \in Boards /\ IsFile(file) /\ IsFork(b, file, fork)
  /\ order \in ImportOrders(file, Planned(b, file)) /\ edges \in EdgeOrders(file, order)
  /\ m = MergeImport(b, file, fork, order, edges)

\* The rows of the board are not touched, those of the file are all there.
LEMMA MergeAdds ==
  ASSUME NEW b, NEW file, NEW fork, NEW order, NEW edges, NEW m,
         Merge(b, file, fork, order, edges, m)
  PROVE  /\ m \in Boards /\ KeepsDag(b, m)
         /\ \A t \in Task : b[t] # None => m[t] = b[t]
         /\ \A t \in DOMAIN file : FinalId(fork, t) \in Task /\ m[FinalId(fork, t)] # None
         /\ \A t \in Planned(b, file) :
              \/ m[FinalId(fork, t)].stamp = file[t].stamp
              \/ file[t].stamp = Undated /\ m[FinalId(fork, t)].deps # {}
<1> USE DEF Merge
<1>1. PICK numbers : numbers = ImportNumbers(b, file, order)
  OBVIOUS
<1>2. /\ m \in Boards /\ KeepsDag(b, m)
      /\ \A id \in Task \ Arrived(b, file, fork) : m[id] = b[id]
      /\ \A t \in Planned(b, file) :
           /\ m[FinalId(fork, t)] # None
           /\ \/ m[FinalId(fork, t)].stamp = file[t].stamp
              \/ file[t].stamp = Undated /\ m[FinalId(fork, t)].deps # {}
  BY <1>1, MergedRows
<1>3. /\ \A id \in Arrived(b, file, fork) : b[id] = None
      /\ \A t \in Unchanged(b, file) : FinalId(fork, t) = t /\ t \in Task /\ b[t] # None
      /\ \A t \in Task : FinalId(fork, t) \in Task
  BY FinalIds
<1>4. DOMAIN file \subseteq Planned(b, file) \cup Unchanged(b, file) /\ DOMAIN file \subseteq Task
  BY DEF Planned, IsFile
<1>5. \A t \in Task : b[t] # None => m[t] = b[t]
  BY <1>2, <1>3
<1>6. \A t \in DOMAIN file : FinalId(fork, t) \in Task /\ m[FinalId(fork, t)] # None
  BY <1>2, <1>3, <1>4, <1>5
<1> QED BY <1>2, <1>5, <1>6

\* Every number that comes in is its task's own.
LEMMA MergeNumbers ==
  ASSUME NEW b, NEW file, NEW fork, NEW order, NEW edges, NEW m,
         Merge(b, file, fork, order, edges, m), NumberedOnce(file)
  PROVE  KeepsNumbers(b, m)
<1> USE DEF Merge
<1> DEFINE A == Arrived(b, file, fork)
           src(id) == Source(b, file, fork, id)
<1>1. PICK numbers : numbers = ImportNumbers(b, file, order)
  OBVIOUS
<1>2. /\ \A id \in Task \ A : m[id] = b[id]
      /\ \A t \in Planned(b, file) : m[FinalId(fork, t)].number = numbers[t]
  BY <1>1, MergedRows
<1>3. \A id \in A : src(id) \in Planned(b, file) /\ FinalId(fork, src(id)) = id
  BY FinalIds
<1>4. /\ \A s, t \in Planned(b, file) : s # t => numbers[s] # numbers[t]
      /\ \A t \in Planned(b, file) : numbers[t] \notin NumbersOf(b)
  <2>1. Planned(b, file) \in SUBSET DOMAIN file
    BY DEF Planned
  <2> QED BY <1>1, <2>1, NumbersApart
<1> HIDE DEF A, src
<1>5. \A id \in A : m[id].number = numbers[src(id)]
  BY <1>2, <1>3
<1>6. \A id \in A : m[id].number \notin NumbersOf(b)
  BY <1>3, <1>4, <1>5
<1>7. \A id \in On(m) \ A : id \in On(b) /\ m[id] = b[id]
  BY <1>2 DEF On
<1>8. \A id \in On(m) \ A : m[id].number > 0 => m[id].number \in NumbersOf(b)
  <2> TAKE id \in On(m) \ A
  <2> HAVE m[id].number > 0
  <2>1. id \in On(b) /\ m[id].number = b[id].number /\ b[id].number # 0
    <3>1. m[id] \in Row
      BY MergeAdds DEF On, Boards
    <3> QED BY <1>7, <3>1 DEF Row
  <2> QED BY <2>1 DEF NumbersOf
<1>9. ASSUME UniqueNumbers(b), NEW s \in On(m), NEW t \in On(m), s # t, m[s].number > 0
      PROVE  m[s].number # m[t].number
  <2>1. CASE s \in A /\ t \in A
    BY <1>3, <1>4, <1>5, <1>9, <2>1
  <2>2. CASE s \in A /\ t \notin A
    BY <1>6, <1>8, <1>9, <2>2
  <2>3. CASE s \notin A /\ t \in A
    BY <1>6, <1>8, <1>9, <2>3
  <2>4. CASE s \notin A /\ t \notin A
    BY <1>7, <1>9, <2>4 DEF UniqueNumbers
  <2> QED BY <2>1, <2>2, <2>3, <2>4
<1> QED BY <1>9 DEF KeepsNumbers, UniqueNumbers

\* A reference of a text that comes in follows the task that it names.
LEMMA MergeRefs ==
  ASSUME NEW b, NEW file, NEW fork, NEW order, NEW edges, NEW m,
         Merge(b, file, fork, order, edges, m), NumberedOnce(file),
         NEW s \in Planned(b, file), NEW t \in DOMAIN file,
         file[t].number \in file[s].cites \ {0}
  PROVE  m[FinalId(fork, t)].number \in m[FinalId(fork, s)].cites
<1> USE DEF Merge
<1>1. PICK numbers : numbers = ImportNumbers(b, file, order)
  OBVIOUS
<1>2. \A u \in Planned(b, file) :
        /\ m[FinalId(fork, u)].number = numbers[u]
        /\ m[FinalId(fork, u)].cites = {RefTarget(file, numbers, n) : n \in file[u].cites}
  BY <1>1, MergedRows
<1>3. m[FinalId(fork, t)].number = numbers[t]
  <2>1. CASE t \in Planned(b, file)
    BY <1>2, <2>1
  <2>2. CASE t \notin Planned(b, file)
    <3>1. FinalId(fork, t) = t /\ t \in Task /\ b[t] # None
      BY <2>2, FinalIds DEF Planned
    <3>2. numbers[t] = Start(b, file).of[t]
      <4>1. Planned(b, file) \in SUBSET DOMAIN file
        BY DEF Planned
      <4> QED BY <1>1, <2>2, <4>1, NumbersApart
    <3>3. m[t] = b[t]
      BY <3>1, MergeAdds
    <3> QED BY <3>1, <3>2, <3>3 DEF Start
  <2> QED BY <2>1, <2>2
<1>4. RefTarget(file, numbers, file[t].number) = numbers[t]
  <2> DEFINE n == file[t].number
             moved == {numbers[v] : v \in {u \in DOMAIN file : file[u].number = n /\ n > 0}} \ {n}
  <2>1. n \in Nat /\ n > 0
    BY DEF IsFile, Row
  <2>2. \A u \in DOMAIN file : file[u].number = n => u = t
    BY <2>1 DEF NumberedOnce
  <2>3. moved = {numbers[t]} \ {n}
    BY <2>1, <2>2
  <2>4. numbers[t] \in Nat
    <3>1. Planned(b, file) \in SUBSET DOMAIN file
      BY DEF Planned
    <3>2. numbers \in [DOMAIN file -> Nat]
      BY <1>1, <3>1, NumbersType
    <3> QED BY <3>2
  <2>5. RefTarget(file, numbers, n) = IF moved = {} THEN n ELSE Max(moved)
    BY DEF RefTarget
  <2> HIDE DEF n, moved
  <2>6. RefTarget(file, numbers, n) = numbers[t]
    <3>1. CASE numbers[t] = n
      BY <2>3, <2>5, <3>1
    <3>2. CASE numbers[t] # n
      <4>1. moved = {numbers[t]}
        BY <2>3, <3>2
      <4>2. IsFiniteSet(moved)
        BY <4>1, FS_Singleton
      <4>3. Max(moved) \in moved
        BY <2>4, <4>1, <4>2, FiniteMax
      <4> QED BY <2>5, <4>1, <4>3
    <3> QED BY <3>1, <3>2
  <2> QED BY <2>6 DEF n
<1> QED BY <1>2, <1>3, <1>4

\* What an import leaves behind is there, leads where it led, and need not come again.
Reported(new, r) ==
  /\ \A t \in DOMAIN r.file : r.into[t] \in Task /\ new[r.into[t]] # None
  /\ RefsFollow(new, new, r)
  /\ Idempotent(new, r)

\* Numbering the board does not change what is planned.
LEMMA PlannedNumbered ==
  ASSUME NEW b \in Boards, NEW c \in EnsureNumbers(b), NEW file, IsFile(file)
  PROVE  Planned(c, file) = Planned(b, file)
<1>1. \A t \in Task : /\ c[t] = None <=> b[t] = None
                      /\ c[t] = b[t] \/ SameButNumber(b[t], c[t])
  BY EnsureKeeps
<1>2. c \in Boards
  BY EnsureKeeps
<1>3. \A t \in Task : b[t] # None => c[t].stamp = b[t].stamp
  <2> TAKE t \in Task
  <2> HAVE b[t] # None
  <2>1. CASE c[t] = b[t]
    BY <2>1
  <2>2. CASE SameButNumber(b[t], c[t])
    <3>1. c[t] \in Row
      BY <1>1, <1>2 DEF Boards
    <3>2. [c[t] EXCEPT !.number = 0].stamp = c[t].stamp
      BY <3>1 DEF Row
    <3> QED BY <2>2, <3>2 DEF SameButNumber
  <2> QED BY <1>1, <2>1, <2>2
<1> QED BY <1>1, <1>3 DEF Planned, Unchanged, IsFile

\* What the user is told of an import holds of the board that it leaves.
LEMMA MergeFaithful ==
  ASSUME NEW old \in Boards, NEW b \in EnsureNumbers(old), NEW file, NEW fork, NEW order,
         NEW edges, NEW m, Merge(b, file, fork, order, edges, m),
         NEW r, r = [file |-> file, into |-> [t \in DOMAIN file |-> FinalId(fork, t)]]
  PROVE  OnlyAdds(old, m, r) /\ RefsFollow(old, m, r) /\ Reported(m, r)
<1>1. /\ r.file = file /\ \A t \in DOMAIN file : r.into[t] = FinalId(fork, t)
      /\ IsFile(file) /\ IsFork(b, file, fork) /\ b \in Boards
  BY DEF Merge
<1>2. Planned(b, file) = Planned(old, file)
  BY <1>1, PlannedNumbered
<1>3. /\ m \in Boards
      /\ \A t \in Task : b[t] # None => m[t] = b[t]
      /\ \A t \in DOMAIN file : FinalId(fork, t) \in Task /\ m[FinalId(fork, t)] # None
      /\ \A t \in Planned(b, file) :
           \/ m[FinalId(fork, t)].stamp = file[t].stamp
           \/ file[t].stamp = Undated /\ m[FinalId(fork, t)].deps # {}
  BY MergeAdds
<1>4. OnlyAdds(old, m, r)
  <2>1. \A t \in Task : /\ b[t] = None <=> old[t] = None
                        /\ b[t] = old[t] \/ SameButNumber(old[t], b[t])
    BY EnsureKeeps
  <2> QED BY <1>1, <1>3, <2>1 DEF OnlyAdds, On, SameButNumber
<1>5. ASSUME NumberedOnce(file), NEW s \in Planned(b, file), NEW t \in DOMAIN file,
             file[t].number \in file[s].cites \ {0}
      PROVE  m[r.into[t]].number \in m[r.into[s]].cites
  <2>1. s \in DOMAIN file
    BY DEF Planned
  <2> QED BY <1>1, <1>5, <2>1, MergeRefs
<1>6. RefsFollow(old, m, r)
  BY <1>1, <1>2, <1>5 DEF RefsFollow
<1>7. ASSUME NEW t \in DOMAIN file, t \notin Planned(b, file)
      PROVE  m[t] # None /\ m[t].stamp = file[t].stamp
  <2>1. t \in Task /\ b[t] # None /\ b[t].stamp = file[t].stamp
    BY <1>1, <1>7 DEF Planned, Unchanged, IsFile
  <2> QED BY <1>3, <2>1
<1>8. Planned(m, file) \subseteq Planned(b, file)
  BY <1>7 DEF Planned, Unchanged
<1>9. RefsFollow(m, m, r)
  BY <1>1, <1>5, <1>8 DEF RefsFollow
<1>10. Idempotent(m, r)
  <2> SUFFICES ASSUME \A t \in DOMAIN file : FinalId(fork, t) = t, NEW t \in Planned(m, file)
               PROVE  file[t].stamp = Undated /\ m[t].deps # {}
    BY <1>1 DEF Idempotent
  <2>1. t \in Planned(b, file) /\ t \in DOMAIN file /\ FinalId(fork, t) = t
    BY <1>8 DEF Planned
  <2>2. m[t] # None /\ m[t].stamp # file[t].stamp
    BY <1>3, <2>1 DEF Planned, Unchanged
  <2> QED BY <1>3, <2>1, <2>2
<1> QED BY <1>1, <1>3, <1>4, <1>6, <1>9, <1>10 DEF Reported

(***************************************************************************)
(* The import.                                                             *)
(***************************************************************************)
LEMMA ImportIs ==
  ASSUME TypeOK, NEW file \in Files, Import(file)
  PROVE  /\ TypeOK'
         /\ KeepsDag(board, board') /\ KeepsLog(board, board')
         /\ KeepsDeclared(board, board') /\ KeepsComments(board, board')
         /\ NumberedOnce(file) => KeepsNumbers(board, board')
         /\ OnlyAdds(board, board', report') /\ RefsFollow(board, board', report')
         /\ Reported(board', report')
<1>1. IsFile(file)
  BY FilesAssumption DEF IsFile
<1>2. board \in Boards
  BY TypeFacts
<1>3. PICK b \in Loaded :
        \E fork \in [Forked(b, file) -> Task \ (On(b) \cup DOMAIN file)] :
         /\ \A s, t \in Forked(b, file) : s # t => fork[s] # fork[t]
         /\ \E order \in ImportOrders(file, Planned(b, file)) :
              \E edges \in EdgeOrders(file, order) :
                board' = MergeImport(b, file, fork, order, edges)
         /\ report' = [file |-> file, into |-> [t \in DOMAIN file |-> FinalId(fork, t)]]
  BY DEF Import
<1>4. PICK fork : /\ IsFork(b, file, fork)
                  /\ \E order \in ImportOrders(file, Planned(b, file)) :
                       \E edges \in EdgeOrders(file, order) :
                         board' = MergeImport(b, file, fork, order, edges)
                  /\ report' = [file |-> file, into |-> [t \in DOMAIN file |-> FinalId(fork, t)]]
  BY <1>3 DEF IsFork
<1>5. PICK order \in ImportOrders(file, Planned(b, file)) :
        \E edges \in EdgeOrders(file, order) :
          board' = MergeImport(b, file, fork, order, edges)
  BY <1>4
<1>6. PICK edges \in EdgeOrders(file, order) :
        board' = MergeImport(b, file, fork, order, edges)
  BY <1>5
<1>7. b \in EnsureNumbers(board) /\ b \in Boards
  BY <1>2, EditLoaded DEF Loaded
<1>8. PICK m, r : /\ m = board' /\ r = report'
                  /\ r = [file |-> file, into |-> [t \in DOMAIN file |-> FinalId(fork, t)]]
  BY <1>4
<1>9. Merge(b, file, fork, order, edges, m)
  BY <1>1, <1>4, <1>6, <1>7, <1>8 DEF Merge
<1>10. OnlyAdds(board, m, r) /\ RefsFollow(board, m, r) /\ Reported(m, r)
  BY <1>2, <1>7, <1>8, <1>9, MergeFaithful
<1>11. /\ m \in Boards /\ KeepsDag(b, m)
       /\ \A t \in Task : b[t] # None => m[t] = b[t]
       /\ \A t \in DOMAIN file : FinalId(fork, t) \in Task
  BY <1>9, MergeAdds
<1>12. KeepsLog(b, m) /\ KeepsDeclared(b, m) /\ KeepsComments(b, m)
  BY <1>11 DEF KeepsLog, Longer, KeepsDeclared, KeepsComments
<1>13. /\ KeepsDag(board, m) /\ KeepsLog(board, m)
       /\ KeepsDeclared(board, m) /\ KeepsComments(board, m)
       /\ NumberedOnce(file) => KeepsNumbers(board, m)
  BY <1>2, <1>7, <1>9, <1>11, <1>12, EnsureThen, MergeNumbers
<1>14. TypeOK'
  <2>1. ops' \in 0..MaxOps
    BY OpsAssumption DEF Import, TypeOK
  <2>2. backup' = board /\ detail' = detail
    BY DEF Import
  <2>3. /\ report'.file \in Files
        /\ report'.into \in [DOMAIN report'.file -> Task]
    BY <1>8, <1>11
  <2>4. IsBoard(board') /\ IsBoard(backup') /\ DetailOK(detail')
    BY <1>2, <1>8, <1>11, <2>2, TypeFacts DEF IsBoard, Boards
  <2> QED BY <2>1, <2>3, <2>4 DEF TypeOK, DetailOK
<1> QED BY <1>8, <1>10, <1>13, <1>14

(***************************************************************************)
(* Every step.                                                             *)
(***************************************************************************)
\* An import that keeps what it should.
FineImport ==
  /\ KeepsDag(board, board') /\ KeepsLog(board, board')
  /\ KeepsDeclared(board, board') /\ KeepsComments(board, board')
  /\ KeepsNumbers(board, board') \/ \E f \in Files : ~NumberedOnce(f) /\ Import(f)
  /\ OnlyAdds(board, board', report') /\ RefsFollow(board, board', report')
  /\ Reported(board', report')

\* Every step keeps the board, or is one of those that the properties name.
LEMMA StepIs ==
  ASSUME TypeOK, [Next]_vars
  PROVE  /\ TypeOK'
         /\ \/ UNCHANGED <<board, report>>
            \/ Kept(board, board') /\ report' = None
            \/ /\ DropComment /\ report' = None
               /\ Keeps(board, board') /\ KeepsDeclared(board, board')
            \/ /\ Declare /\ report' = None
               /\ Keeps(board, board') /\ KeepsComments(board, board')
            \/ Save /\ SaveKeeps(detail, board, board') /\ report' = None
            \/ Restore /\ report' = None
            \/ FineImport
<1> DEFINE Goal == /\ TypeOK'
                   /\ \/ UNCHANGED <<board, report>>
                      \/ Kept(board, board') /\ report' = None
                      \/ /\ DropComment /\ report' = None
                         /\ Keeps(board, board') /\ KeepsDeclared(board, board')
                      \/ /\ Declare /\ report' = None
                         /\ Keeps(board, board') /\ KeepsComments(board, board')
                      \/ Save /\ SaveKeeps(detail, board, board') /\ report' = None
                      \/ Restore /\ report' = None
                      \/ FineImport
<1>1. ASSUME NEW t \in Task, OpenDetail(t) PROVE Goal
  BY <1>1, OpenDetailKeeps DEF OpenDetail
<1>2. ASSUME NEW t \in Task, NEW p \in Project, AppAdd(t, p) \/ CliAdd(t, p) \/ CliSetProject(t, p)
      PROVE  Goal
  <2>1. report' = None
    BY <1>2 DEF AppAdd, CliAdd, CliSetProject, Store
  <2>2. TypeOK' /\ Kept(board, board')
    BY <1>2, AppAddKeeps, CliAddKeeps, CliSetProjectKeeps
  <2> QED BY <2>1, <2>2
<1>3. ASSUME NEW t \in Task, NEW s \in Status, AppSetStatus(t, s) PROVE Goal
  <2>1. report' = None
    BY <1>3 DEF AppSetStatus, Store
  <2> QED BY <1>3, <2>1, AppSetStatusKeeps
<1>4. ASSUME NEW t \in Task, NEW s \in Status, NEW force \in BOOLEAN, CliSetStatus(t, s, force)
      PROVE  Goal
  <2>1. report' = None
    BY <1>4 DEF CliSetStatus, Store
  <2> QED BY <1>4, <2>1, CliSetStatusKeeps
<1>5. ASSUME NEW s \in Task, NEW t \in Task,
             \/ AppAddDep(s, t) \/ AppRemoveDep(s, t) \/ CliAddDep(s, t) \/ CliRemoveDep(s, t)
      PROVE  Goal
  <2>1. report' = None
    BY <1>5 DEF AppAddDep, AppRemoveDep, CliAddDep, CliRemoveDep, Store
  <2> QED BY <1>5, <2>1, DepsKeep
<1>13. CASE Declare
  <2>1. PICK t \in Task, d \in Declaration \cup {None} : CliDeclare(t, d)
    BY <1>13 DEF Declare
  <2>2. report' = None
    BY <2>1 DEF CliDeclare, Store
  <2>3. TypeOK' /\ Keeps(board, board') /\ KeepsComments(board, board')
    BY <2>1, CliDeclareKeeps
  <2> QED BY <1>13, <2>2, <2>3
<1>6. ASSUME NEW t \in Task, AppDelete(t) \/ CliRemove(t) PROVE Goal
  <2>1. report' = None
    BY <1>6 DEF AppDelete, CliRemove, Store
  <2>2. TypeOK' /\ Kept(board, board')
    BY <1>6, AppDeleteKeeps, CliRemoveKeeps
  <2> QED BY <2>1, <2>2
<1>7. CASE Save
  <2>1. PICK s \in Status, p \in Project : SaveDetail(s, p)
    BY <1>7 DEF Save
  <2>2. report' = None
    BY <2>1 DEF SaveDetail, Store
  <2>3. TypeOK' /\ SaveKeeps(detail, board, board')
    BY <2>1, SaveDetailKeeps
  <2> QED BY <1>7, <2>2, <2>3
<1>8. CASE AddComment
  <2>1. PICK t \in Task, c \in Comment : AppComment(t, c) \/ CliComment(t, c)
    BY <1>8 DEF AddComment
  <2>2. report' = None
    BY <2>1 DEF AppComment, CliComment, Store
  <2> QED BY <2>1, <2>2, AppCommentKeeps, CliCommentKeeps
<1>9. CASE DropComment
  <2>1. PICK t \in Task, c \in Comment : RemoveComment(t, c)
    BY <1>9 DEF DropComment
  <2>2. report' = None
    BY <2>1 DEF RemoveComment, Store
  <2>3. TypeOK' /\ Keeps(board, board') /\ KeepsDeclared(board, board')
    BY <2>1, RemoveCommentKeeps
  <2> QED BY <1>9, <2>2, <2>3
<1>10. CASE ImportSome
  <2>1. PICK f \in Files : Import(f)
    BY <1>10 DEF ImportSome
  <2>2. TypeOK' /\ FineImport
    BY <2>1, ImportIs DEF FineImport
  <2> QED BY <2>2
<1>11. CASE Restore
  <2>1. report' = None
    BY <1>11 DEF Restore, Store
  <2> QED BY <1>11, <2>1, RestoreTypes
<1>12. CASE UNCHANGED vars
  BY <1>12 DEF vars, TypeOK
<1> QED BY <1>1, <1>2, <1>3, <1>4, <1>5, <1>6, <1>7, <1>8, <1>9, <1>10, <1>11, <1>12,
         <1>13 DEF Next, Delete

BoardInv == TypeOK /\ (report # None => Reported(board, report))

LEMMA InitBoardInv == Init => BoardInv
BY StartsAssumption, OpsAssumption DEF Init, BoardInv, TypeOK

LEMMA NextBoardInv == BoardInv /\ [Next]_vars => BoardInv'
<1> SUFFICES ASSUME BoardInv, [Next]_vars PROVE BoardInv'
  OBVIOUS
<1>1. TypeOK
  BY DEF BoardInv
<1>2. TypeOK'
  BY <1>1, StepIs
<1>3. \/ UNCHANGED <<board, report>> \/ report' = None \/ FineImport
  BY <1>1, StepIs
<1> QED BY <1>2, <1>3 DEF BoardInv, FineImport

\* The report of the last import is part of the invariant: a step that only opens a detail
\* view leaves the report, and the board that it is about, as they are.
LEMMA SpecBoardInv == Spec => []BoardInv
BY InitBoardInv, NextBoardInv, PTL DEF Spec

\* Every writer (lib.rs, todos.mjs, TodoWindow.vue, merge_import) leaves a board of rows, a
\* detail view that holds a row and a backup that is a board, for any boards to start from
\* and any files.
THEOREM BoardAlwaysTyped == Spec => []TypeOK
<1>1. BoardInv => TypeOK
  BY DEF BoardInv
<1> QED BY <1>1, SpecBoardInv, PTL

\* No cycle of dependencies comes from add_dep, the CLI, a deletion or the edges that an
\* import replays (todos.rs, dep_allowed, merge_import), however many tasks there are: only
\* from a row that the detail view sends back, or from a restored backup.
THEOREM CyclesOnlyFromSaves == Spec => DagKept
<1>1. BoardInv /\ [Next]_vars => [Acyclic(board) /\ ~Acyclic(board') => Save \/ Restore]_vars
  <2> SUFFICES ASSUME BoardInv, [Next]_vars, Acyclic(board), ~Acyclic(board')
               PROVE  Save \/ Restore
    OBVIOUS
  <2>1. TypeOK
    BY DEF BoardInv
  <2>2. board' # board /\ ~KeepsDag(board, board')
    BY DEF KeepsDag
  <2> QED BY <2>1, <2>2, StepIs DEF Kept, Keeps, FineImport
<1> QED BY <1>1, SpecBoardInv, PTL DEF Spec, DagKept

\* No two tasks get one number from an addition, the numbering of old rows, a deletion or an
\* import whose file has no number twice (todos.rs, next_number, ensure_numbers,
\* merge_import).
THEOREM NumbersStayApart == Spec => NumbersKept
<1>1. BoardInv /\ [Next]_vars =>
        [UniqueNumbers(board) /\ ~UniqueNumbers(board') =>
           Save \/ Restore \/ \E f \in Files : ~NumberedOnce(f) /\ Import(f)]_vars
  <2> SUFFICES ASSUME BoardInv, [Next]_vars, UniqueNumbers(board), ~UniqueNumbers(board')
               PROVE  Save \/ Restore \/ \E f \in Files : ~NumberedOnce(f) /\ Import(f)
    OBVIOUS
  <2>1. TypeOK
    BY DEF BoardInv
  <2>2. board' # board /\ ~KeepsNumbers(board, board')
    BY DEF KeepsNumbers
  <2> QED BY <2>1, <2>2, StepIs DEF Kept, Keeps, FineImport
<1> QED BY <1>1, SpecBoardInv, PTL DEF Spec, NumbersKept

\* The comments of a task survive a save of the detail view (todos.rs, upsert) and every
\* other step but the one that removes them and a restore.  Its declarations and the history
\* of its status do where the view had none when it was read; what the view had goes over
\* whatever they have become.
THEOREM WorkAlwaysKept == Spec => WorkKept
<1> DEFINE Kind(t) ==
             /\ board[t].comments \subseteq board'[t].comments \/ DropComment \/ Restore
             /\ \/ board'[t].declared = board[t].declared \/ Declare \/ Restore
                \/ Overwrites(t) /\ detail.row.declared # None
             /\ \/ IsPrefix(board[t].log, board'[t].log) \/ Restore
                \/ Overwrites(t) /\ detail.row.log # <<>>
           Work == \A t \in On(board) : board'[t] # None => Kind(t)
<1>1. BoardInv /\ [Next]_vars => [Work]_vars
  <2> SUFFICES ASSUME BoardInv, [Next]_vars, NEW t \in On(board), board'[t] # None
               PROVE  Kind(t)
    OBVIOUS
  <2>1. TypeOK /\ t \in Task /\ board[t] # None
    BY DEF BoardInv, On
  <2>2. board[t].log \in Seq(Status)
    BY <2>1, TypeFacts DEF Boards, Row
  <2>3. Longer(board[t].log, board'[t].log) => IsPrefix(board[t].log, board'[t].log)
    BY <2>2, LongerIs
  <2> HIDE DEF Kind
  <2>4. CASE UNCHANGED <<board, report>>
    BY <2>3, <2>4 DEF Kind, Longer
  <2>5. CASE Kept(board, board')
    BY <2>1, <2>3, <2>5 DEF Kind, Kept, Keeps, KeepsLog, KeepsDeclared, KeepsComments
  <2>6. CASE DropComment /\ Keeps(board, board') /\ KeepsDeclared(board, board')
    BY <2>1, <2>3, <2>6 DEF Kind, Keeps, KeepsLog, KeepsDeclared
  <2>7. CASE Declare /\ Keeps(board, board') /\ KeepsComments(board, board')
    BY <2>1, <2>3, <2>7 DEF Kind, Keeps, KeepsLog, KeepsComments
  <2>8. CASE Save /\ SaveKeeps(detail, board, board')
    BY <2>1, <2>3, <2>8 DEF Kind, SaveKeeps, KeepsComments, Overwrites
  <2>9. CASE Restore
    BY <2>9 DEF Kind
  <2>10. CASE FineImport
    BY <2>1, <2>3, <2>10 DEF Kind, FineImport, KeepsLog, KeepsDeclared, KeepsComments
  <2> QED BY <2>1, <2>4, <2>5, <2>6, <2>7, <2>8, <2>9, <2>10, StepIs
<1> QED BY <1>1, SpecBoardInv, PTL DEF Spec, WorkKept

\* Of every file and every board: an import adds the rows of the file and nothing else, a
\* reference t#n of their text leads where it led, if no number is there twice, and the same
\* file again adds nothing unless a task was forked or came with dependencies and without a
\* time of update (todos.rs, merge_import).
THEOREM ImportsAlwaysFaithful == Spec => ImportFaithful
<1> DEFINE Faithful == report' # None => /\ OnlyAdds(board, board', report')
                                         /\ RefsFollow(board, board', report')
                                         /\ Idempotent(board', report')
<1>1. BoardInv /\ [Next]_vars => [Faithful]_vars
  <2> SUFFICES ASSUME BoardInv, [Next]_vars, report' # None
               PROVE  /\ OnlyAdds(board, board', report') /\ RefsFollow(board, board', report')
                      /\ Idempotent(board', report')
    OBVIOUS
  <2>1. TypeOK
    BY DEF BoardInv
  <2>2. CASE UNCHANGED <<board, report>>
    BY <2>2 DEF BoardInv, Reported, OnlyAdds
  <2>3. CASE FineImport
    BY <2>3 DEF FineImport, Reported
  <2> QED BY <2>1, <2>2, <2>3, StepIs
<1> QED BY <1>1, SpecBoardInv, PTL DEF Spec, ImportFaithful
=============================================================================
