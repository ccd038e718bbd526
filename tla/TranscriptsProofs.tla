------------------------- MODULE TranscriptsProofs -------------------------
(***************************************************************************)
(* What the database and its offsets say of the logs is true, whatever the *)
(* logs hold, however many commands read them at once and wherever they    *)
(* fail.                                                                   *)
(*                                                                         *)
(* StoreTrue is not inductive: a command keeps what it read of an offset   *)
(* in saw and job and saves its own offset much later.  Inv says of these  *)
(* what StoreTrue says of the saved offsets, and that an offset comes with *)
(* the context of the lines before it.                                     *)
(*                                                                         *)
(* LimInv does the same for the second reader: what it keeps of a file is  *)
(* as new as the lines it stands for, and the snapshot asked for is in the *)
(* answer or in a file that is still to be visited.                        *)
(*                                                                         *)
(* The second half is about the journal: the order of its events exists    *)
(* and is onto, the fold over it holds at every step the blocks of the     *)
(* events so far, and a sum over tasks, days or places is the size of the  *)
(* set of messages that it counts, so that sums are compared as sets.      *)
(***************************************************************************)
EXTENDS TaskUsage, FiniteSetTheorems, WellFoundedInduction, TLAPS

(***************************************************************************)
(* Least and greatest members.                                             *)
(***************************************************************************)
LEMMA MinMember ==
  ASSUME NEW S \in SUBSET Nat, S # {}
  PROVE  Min(S) \in S /\ \A y \in S : Min(S) <= y
<1>1. \E x \in S : \A y \in S : ~(<<y, x>> \in OpToRel(<, Nat))
  BY NatLessThanWellFounded, WFMin
<1>2. PICK x \in S : \A y \in S : ~(y < x)
  BY <1>1 DEF OpToRel
<1>3. \A y \in S : x =< y
  BY <1>2
<1> QED BY <1>3 DEF Min

LEMMA MaxMember ==
  ASSUME NEW n \in Nat, NEW S \in SUBSET (0..n), S # {}
  PROVE  Max(S) \in S /\ \A y \in S : Max(S) >= y
<1> DEFINE T == {n - x : x \in S}
<1>1. T \in SUBSET Nat /\ T # {}
  <2>1. \A x \in S : n - x \in Nat
    OBVIOUS
  <2>2. PICK x \in S : TRUE
    OBVIOUS
  <2>3. n - x \in T
    OBVIOUS
  <2> QED BY <2>1, <2>3
<1>2. Min(T) \in T /\ \A y \in T : Min(T) <= y
  <2> HIDE DEF T
  <2> QED BY <1>1, MinMember
<1>3. PICK x \in S : Min(T) = n - x
  BY <1>2
<1>4. \A y \in S : x >= y
  <2> TAKE y \in S
  <2>1. n - x <= n - y
    BY <1>2, <1>3
  <2> QED BY <2>1
<1> QED BY <1>4 DEF Max

(***************************************************************************)
(* The context of a line.                                                  *)
(***************************************************************************)
LEMMA LastOf ==
  ASSUME NEW s, NEW m \in Nat, NEW n \in Nat, NEW kind, Of(s, m, n, kind) # {}
  PROVE  /\ Max(Of(s, m, n, kind)) \in Of(s, m, n, kind)
         /\ \A y \in Of(s, m, n, kind) : Max(Of(s, m, n, kind)) >= y
<1>1. Of(s, m, n, kind) \in SUBSET (0..n)
  BY DEF Of
<1> QED BY <1>1, MaxMember

LEMMA LineType ==
  ASSUME NEW s \in Seq(Line), NEW i \in 1..Len(s)
  PROVE  /\ s[i] \in Line
         /\ s[i].session \in Session \cup {None} /\ s[i].model \in Model \cup {None}
         /\ s[i].id \in Id /\ s[i].at \in Stamp
<1>1. s[i] \in Line
  OBVIOUS
<1> QED BY <1>1 DEF Line

LEMMA AfterType ==
  ASSUME NEW s \in Seq(Line), NEW c \in Context, NEW m \in Nat, NEW n \in Nat, n <= Len(s)
  PROVE  After(s, c, m, n) \in Context
<1>1. ASSUME NEW kind
      PROVE  Of(s, m, n, kind) \subseteq 1..Len(s)
  BY DEF Of
<1>2. ASSUME Of(s, m, n, "session") # {}
      PROVE  s[Max(Of(s, m, n, "session"))].session \in Session \cup {None}
  <2>1. Max(Of(s, m, n, "session")) \in 1..Len(s)
    BY <1>1, <1>2, LastOf
  <2> QED BY <2>1, LineType
<1>3. ASSUME Of(s, m, n, "model") # {}
      PROVE  s[Max(Of(s, m, n, "model"))].model \in Model \cup {None}
  <2>1. Max(Of(s, m, n, "model")) \in 1..Len(s)
    BY <1>1, <1>3, LastOf
  <2> QED BY <2>1, LineType
<1> QED BY <1>2, <1>3 DEF After, Context

\* The last line of a kind is among the later lines, if any of these has the kind.
LEMMA LastOfBoth ==
  ASSUME NEW s, NEW m \in Nat, NEW k \in Nat, NEW n \in Nat, m <= k, k <= n, NEW kind
  PROVE  /\ Of(s, k, n, kind) # {} =>
              Of(s, m, n, kind) # {} /\ Max(Of(s, m, n, kind)) = Max(Of(s, k, n, kind))
         /\ Of(s, k, n, kind) = {} => Of(s, m, n, kind) = Of(s, m, k, kind)
<1>1. Of(s, m, n, kind) = Of(s, m, k, kind) \cup Of(s, k, n, kind)
  BY DEF Of
<1>2. \A x \in Of(s, m, k, kind), y \in Of(s, k, n, kind) : x < y
  BY DEF Of
<1>3. Of(s, m, n, kind) \subseteq Int
  BY DEF Of
<1>4. ASSUME Of(s, k, n, kind) # {}
      PROVE  Max(Of(s, m, n, kind)) = Max(Of(s, k, n, kind))
  <2> DEFINE a == Max(Of(s, m, n, kind))
             b == Max(Of(s, k, n, kind))
  <2>1. /\ a \in Of(s, m, n, kind)
        /\ \A y \in Of(s, m, n, kind) : a >= y
    BY <1>1, <1>4, LastOf
  <2>2. /\ b \in Of(s, k, n, kind)
        /\ \A y \in Of(s, k, n, kind) : b >= y
    BY <1>4, LastOf
  <2> HIDE DEF a, b
  <2>3. a >= b
    BY <1>1, <2>1, <2>2
  <2>4. a \in Of(s, k, n, kind)
    BY <1>1, <1>2, <1>3, <2>1, <2>2, <2>3
  <2>5. a = b
    BY <1>1, <1>3, <2>2, <2>3, <2>4
  <2> QED BY <2>5 DEF a, b
<1> QED BY <1>1, <1>4

\* A reading that goes on where another ended is one reading.
LEMMA AfterTwice ==
  ASSUME NEW s, NEW c, NEW m \in Nat, NEW k \in Nat, NEW n \in Nat, m <= k, k <= n
  PROVE  After(s, After(s, c, m, k), k, n) = After(s, c, m, n)
<1>1. /\ Of(s, k, n, "session") # {} => /\ Of(s, m, n, "session") # {}
                                        /\ Max(Of(s, m, n, "session")) = Max(Of(s, k, n, "session"))
      /\ Of(s, k, n, "session") = {} => Of(s, m, n, "session") = Of(s, m, k, "session")
  BY LastOfBoth
<1>2. /\ Of(s, k, n, "model") # {} => /\ Of(s, m, n, "model") # {}
                                      /\ Max(Of(s, m, n, "model")) = Max(Of(s, k, n, "model"))
      /\ Of(s, k, n, "model") = {} => Of(s, m, n, "model") = Of(s, m, k, "model")
  BY LastOfBoth
<1>3. After(s, After(s, c, m, k), k, n).session = After(s, c, m, n).session
  BY <1>1 DEF After
<1>4. After(s, After(s, c, m, k), k, n).model = After(s, c, m, n).model
  BY <1>2 DEF After
<1> QED BY <1>3, <1>4 DEF After

(***************************************************************************)
(* Writing the rows of lines m+1..n into a table.                          *)
(***************************************************************************)
LEMMA RowType ==
  ASSUME NEW s \in Seq(Line), NEW c \in Context, NEW i \in 1..Len(s)
  PROVE  RowOf(s[i], c) \in Row
BY LineType DEF RowOf, Row, Context

\* No row is lost, every line of the table finds its id there, and a new row is that of
\* the first of these lines with its id.
Written(old, new, t, s, c, m, n) ==
  /\ new \in [Id -> Row \cup {None}]
  /\ \A x \in Id : old[x] # None => new[x] = old[x]
  /\ \A i \in Of(s, m, n, t) : new[s[i].id] # None
  /\ \A x \in Id :
       old[x] = None /\ new[x] # None =>
         \E i \in Of(s, m, n, t) :
           /\ s[i].id = x
           /\ \A k \in Of(s, m, n, t) : s[k].id = x => i <= k
           /\ new[x] = RowOf(s[i], After(s, c, m, i))

LEMMA UpsertRows ==
  ASSUME NEW table \in [Id -> Row \cup {None}], NEW t, NEW s \in Seq(Line), NEW c \in Context,
         NEW m \in Nat, NEW n \in Nat, n <= Len(s)
  PROVE  Written(table, Upsert(table, t, s, c, m, n), t, s, c, m, n)
<1> DEFINE hits(x) == {i \in Of(s, m, n, t) : s[i].id = x}
           u == Upsert(table, t, s, c, m, n)
<1>1. Of(s, m, n, t) \subseteq 1..Len(s) /\ Of(s, m, n, t) \subseteq Nat
  BY DEF Of
<1>2. ASSUME NEW x \in Id, hits(x) # {}
      PROVE  /\ Min(hits(x)) \in hits(x)
             /\ \A y \in hits(x) : Min(hits(x)) <= y
             /\ RowOf(s[Min(hits(x))], After(s, c, m, Min(hits(x)))) \in Row
  <2>1. hits(x) \in SUBSET Nat
    BY <1>1
  <2>2. Min(hits(x)) \in hits(x) /\ \A y \in hits(x) : Min(hits(x)) <= y
    <3> HIDE DEF hits
    <3> QED BY <1>2, <2>1, MinMember
  <2> DEFINE i == Min(hits(x))
  <2>3. i \in 1..Len(s) /\ i \in Nat /\ i <= Len(s)
    <3>1. hits(x) \subseteq 1..Len(s)
      BY <1>1
    <3>2. i \in 1..Len(s)
      <4> HIDE DEF hits
      <4> QED BY <2>2, <3>1
    <3> HIDE DEF i
    <3> QED BY <3>2
  <2>4. RowOf(s[i], After(s, c, m, i)) \in Row
    <3> HIDE DEF i
    <3>1. After(s, c, m, i) \in Context
      BY <2>3, AfterType
    <3> QED BY <2>3, <3>1, RowType
  <2> QED BY <2>2, <2>4
<1>3. None \notin Row
  BY TranscriptsAssumption
<1>4. \A x \in Id : u[x] = IF table[x] # None \/ hits(x) = {} THEN table[x]
                            ELSE RowOf(s[Min(hits(x))], After(s, c, m, Min(hits(x))))
  BY DEF Upsert
<1>5. u \in [Id -> Row \cup {None}]
  <2>1. \A x \in Id : u[x] \in Row \cup {None}
    <3> TAKE x \in Id
    <3> HIDE DEF hits, u
    <3> QED BY <1>2, <1>4
  <2>2. u = [x \in Id |-> u[x]]
    BY DEF Upsert
  <2> HIDE DEF u
  <2> QED BY <2>1, <2>2
<1>6. \A x \in Id : table[x] # None => u[x] = table[x]
  <2> HIDE DEF hits, u
  <2> QED BY <1>4
<1>7. ASSUME NEW i \in Of(s, m, n, t)
      PROVE  u[s[i].id] # None
  <2>1. s[i].id \in Id /\ i \in hits(s[i].id)
    BY <1>1, LineType
  <2> HIDE DEF hits, u
  <2> QED BY <1>2, <1>3, <1>4, <2>1
<1>8. ASSUME NEW x \in Id, table[x] = None, u[x] # None
      PROVE  \E i \in Of(s, m, n, t) :
               /\ s[i].id = x
               /\ \A k \in Of(s, m, n, t) : s[k].id = x => i <= k
               /\ u[x] = RowOf(s[i], After(s, c, m, i))
  <2>1. hits(x) # {} /\ u[x] = RowOf(s[Min(hits(x))], After(s, c, m, Min(hits(x))))
    <3> HIDE DEF hits, u
    <3> QED BY <1>4, <1>8
  <2>2. PICK i \in hits(x) : (\A y \in hits(x) : i <= y) /\ i = Min(hits(x))
    <3> HIDE DEF hits
    <3> QED BY <1>2, <2>1
  <2>3. i \in Of(s, m, n, t) /\ s[i].id = x
    OBVIOUS
  <2>4. \A k \in Of(s, m, n, t) : s[k].id = x => i <= k
    BY <2>2
  <2>5. u[x] = RowOf(s[i], After(s, c, m, i))
    <3> HIDE DEF hits, u
    <3> QED BY <2>1, <2>2
  <2> HIDE DEF hits, u
  <2> QED BY <2>3, <2>4, <2>5
<1> HIDE DEF hits
<1> QED BY <1>5, <1>6, <1>7, <1>8 DEF Written

(***************************************************************************)
(* The inductive invariant.                                                *)
(***************************************************************************)
Typed ==
  /\ day \in Days
  /\ len \in [File -> Nat] /\ \A f \in Logs : len[f] <= Len(log(f))
  /\ rows \in [Tables -> [Id -> Row \cup {None}]]
  /\ state \in [File -> State \cup {None}]
  /\ pc \in [Pass -> {"idle", "visit", "read", "store"}]
  /\ saw \in [Pass -> [File -> State \cup {None}]]
  /\ todo \in [Pass -> SUBSET Logs]
  /\ job \in [Pass -> Job \cup {None}]

\* A saved state of file f tells the truth: the rows of the lines before its offset are
\* there, and its context is that after these lines.
Known(f, st) ==
  st # None =>
    /\ f \in Logs /\ st.offset <= len[f]
    /\ st.ctx = After(log(f), Unset, 0, st.offset)
    /\ Covered(f, st.offset)

\* So does what a command reads: the rows before its lines are there, and those of its
\* lines that are not waiting to be written.
Reading(p) ==
  pc[p] \in {"read", "store"} =>
    LET j == job[p] IN
    /\ j \in Job /\ j.file \in Logs
    /\ j.from <= j.to /\ j.to <= len[j.file]
    /\ j.ctx = After(log(j.file), Unset, 0, j.from)
    /\ Covered(j.file, j.from)
    /\ pc[p] = "store" =>
         \A i \in (j.from + 1)..j.to : log(j.file)[i].kind \in Tables \ j.due =>
           rows[log(j.file)[i].kind][log(j.file)[i].id] # None

States == \A f \in File : Known(f, state[f])
Saws == \A p \in Pass, f \in File : Known(f, saw[p][f])
Readings == \A p \in Pass : Reading(p)

Inv == Typed /\ States /\ Saws /\ Readings /\ RowsTrue

LEMMA InvInit == TranscriptInit => Inv
<1> SUFFICES ASSUME TranscriptInit PROVE Inv
  OBVIOUS
<1>1. None \notin Row
  BY TranscriptsAssumption
<1>2. Typed
  <2>1. \A f \in Logs : f \in File /\ log(f) \in Seq(Line)
    BY TranscriptsAssumption DEF TranscriptInit, IsDay, Logs, log
  <2> QED BY <2>1 DEF TranscriptInit, Typed, Unseen, Logs, log
<1>3. States /\ Saws /\ Readings
  BY DEF TranscriptInit, Unseen, States, Saws, Readings, Known, Reading
<1>4. RowsTrue
  BY DEF TranscriptInit, RowsTrue
<1> QED BY <1>2, <1>3, <1>4 DEF Inv

\* The logs and the lines in them.
LEMMA LogTypes ==
  ASSUME Typed
  PROVE  \A f \in Logs :
           /\ f \in File /\ log(f) \in Seq(Line) /\ len[f] \in Nat /\ len[f] <= Len(log(f))
           /\ \A i \in 1..len[f] : i \in 1..Len(log(f)) /\ log(f)[i].id \in Id
<1> SUFFICES ASSUME NEW f \in Logs
             PROVE  /\ f \in File /\ log(f) \in Seq(Line) /\ len[f] \in Nat /\ len[f] <= Len(log(f))
                    /\ \A i \in 1..len[f] : i \in 1..Len(log(f)) /\ log(f)[i].id \in Id
  OBVIOUS
<1>1. IsDay(day)
  BY TranscriptsAssumption DEF Typed
<1>2. f \in File /\ log(f) \in Seq(Line)
  BY <1>1 DEF IsDay, Logs, log
<1>3. len[f] \in Nat /\ len[f] <= Len(log(f))
  BY <1>2 DEF Typed
<1>4. \A i \in 1..len[f] : i \in 1..Len(log(f))
  BY <1>2, <1>3
<1> QED BY <1>2, <1>3, <1>4, LineType

\* Logs grow and rows stay, so that what is known stays true.
Onward ==
  /\ day' = day
  /\ len' \in [File -> Nat]
  /\ \A f \in Logs : len[f] <= len'[f] /\ len'[f] <= Len(log(f))
  /\ rows' \in [Tables -> [Id -> Row \cup {None}]]
  /\ \A t \in Tables, x \in Id : rows[t][x] # None => rows'[t][x] = rows[t][x]

LEMMA CoveredStays ==
  ASSUME Typed, Onward, NEW f \in Logs, NEW n \in Nat, n <= len[f], Covered(f, n)
  PROVE  Covered(f, n)'
<1>1. len[f] \in Nat /\ \A i \in 1..len[f] : log(f)[i].id \in Id
  BY LogTypes
<1>2. \A i \in 1..n : log(f)[i].id \in Id
  BY <1>1
<1>3. log(f)' = log(f)
  BY DEF Onward, log
<1> QED BY <1>2, <1>3 DEF Onward, Covered

LEMMA KnownStays ==
  ASSUME Typed, Onward, NEW f \in File, NEW st \in State \cup {None}, Known(f, st)
  PROVE  Known(f, st)'
<1> SUFFICES ASSUME st # None PROVE Known(f, st)'
  BY DEF Known
<1>1. /\ f \in Logs /\ st.offset <= len[f]
      /\ st.ctx = After(log(f), Unset, 0, st.offset)
      /\ Covered(f, st.offset)
  BY DEF Known
<1>2. st.offset \in Nat
  BY DEF State
<1>3. Covered(f, st.offset)'
  BY <1>1, <1>2, CoveredStays
<1>4. log(f)' = log(f) /\ Logs' = Logs
  BY DEF Onward, log, Logs
<1>5. len[f] \in Nat /\ len'[f] \in Nat /\ len[f] <= len'[f]
  BY <1>1, LogTypes DEF Onward
<1>6. st.offset <= len'[f]
  BY <1>1, <1>2, <1>5
<1> QED BY <1>1, <1>3, <1>4, <1>6 DEF Known

LEMMA RowsTrueStay ==
  ASSUME Inv, Onward, rows' = rows
  PROVE  RowsTrue'
<1>1. \A f \in Logs : log(f)' = log(f) /\ len[f] \in Nat /\ len'[f] \in Nat /\ len[f] <= len'[f]
  BY LogTypes DEF Inv, Onward, log
<1>2. Logs' = Logs
  BY DEF Onward, Logs
<1>3. ASSUME NEW f \in Logs, NEW i \in 1..len[f], NEW t, NEW x, FirstOf(f, t, x, i)
      PROVE  i \in 1..len'[f] /\ FirstOf(f, t, x, i)' /\ FullRow(f, i)' = FullRow(f, i)
  <2>1. i \in 1..len'[f]
    BY <1>1
  <2>2. FirstOf(f, t, x, i)'
    BY <1>1, <1>3, <2>1 DEF FirstOf
  <2>3. FullRow(f, i)' = FullRow(f, i)
    BY <1>1 DEF FullRow
  <2> QED BY <2>1, <2>2, <2>3
<1> SUFFICES ASSUME NEW t \in Tables, NEW x \in Id, rows[t][x] # None
             PROVE  \E f \in Logs : \E i \in 1..len'[f] :
                      FirstOf(f, t, x, i)' /\ rows[t][x] = FullRow(f, i)'
  BY <1>2 DEF RowsTrue
<1>4. PICK f \in Logs : \E i \in 1..len[f] : FirstOf(f, t, x, i) /\ rows[t][x] = FullRow(f, i)
  BY DEF Inv, RowsTrue
<1>5. PICK i \in 1..len[f] : FirstOf(f, t, x, i) /\ rows[t][x] = FullRow(f, i)
  BY <1>4
<1> QED BY <1>3, <1>5

\* A reading that nobody touches.
LEMMA ReadingStays ==
  ASSUME Typed, Onward, NEW p \in Pass, Reading(p), pc'[p] = pc[p], job'[p] = job[p]
  PROVE  Reading(p)'
<1> SUFFICES ASSUME pc[p] \in {"read", "store"} PROVE Reading(p)'
  BY DEF Reading
<1> DEFINE j == job[p]
<1>1. /\ j \in Job /\ j.file \in Logs
      /\ j.from <= j.to /\ j.to <= len[j.file]
      /\ j.ctx = After(log(j.file), Unset, 0, j.from)
      /\ Covered(j.file, j.from)
      /\ pc[p] = "store" =>
           \A i \in (j.from + 1)..j.to : log(j.file)[i].kind \in Tables \ j.due =>
             rows[log(j.file)[i].kind][log(j.file)[i].id] # None
  BY DEF Reading
<1>2. PICK job0 : job0 = j
  OBVIOUS
<1>3. job0.from \in Nat /\ job0.to \in Nat
  BY <1>1, <1>2 DEF Job
<1>4. log(job0.file)' = log(job0.file) /\ Logs' = Logs
  BY DEF Onward, log, Logs
<1>5. len[job0.file] \in Nat /\ len'[job0.file] \in Nat /\ len[job0.file] <= len'[job0.file]
  BY <1>1, <1>2, LogTypes DEF Onward
<1>6. \A i \in (job0.from + 1)..job0.to : log(job0.file)[i].id \in Id
  BY <1>1, <1>2, <1>3, <1>5, LogTypes
<1>7. Covered(job0.file, job0.from)'
  <2>1. job0.from <= len[job0.file]
    BY <1>1, <1>2, <1>3, <1>5
  <2> QED BY <1>1, <1>2, <1>3, <2>1, CoveredStays
<1>8. job0.to <= len'[job0.file]
  BY <1>1, <1>2, <1>3, <1>5
<1>9. pc[p] = "store" =>
        \A i \in (job0.from + 1)..job0.to : log(job0.file)[i].kind \in Tables \ job0.due =>
          rows'[log(job0.file)[i].kind][log(job0.file)[i].id] # None
  BY <1>1, <1>2, <1>6 DEF Onward
<1> HIDE DEF j
<1>10. job'[p] = job0
  BY <1>2 DEF j
<1> QED BY <1>1, <1>2, <1>4, <1>7, <1>8, <1>9, <1>10 DEF Reading

(***************************************************************************)
(* The steps.                                                              *)
(***************************************************************************)
\* A step that leaves logs and rows alone is onward, and keeps the rows true.
LEMMA Quiet ==
  ASSUME Inv, UNCHANGED <<day, len, rows>>
  PROVE  Onward /\ RowsTrue'
<1>1. Onward
  <2>1. \A f \in Logs : len[f] <= len[f]
    BY LogTypes DEF Inv
  <2> QED BY <2>1 DEF Onward, Inv, Typed
<1> QED BY <1>1, RowsTrueStay

\* What only the readings can disturb.
LEMMA TypesStay ==
  ASSUME Typed, Onward
  PROVE  /\ day' \in Days
         /\ len' \in [File -> Nat] /\ \A f \in Logs' : len'[f] <= Len(log(f)')
         /\ rows' \in [Tables -> [Id -> Row \cup {None}]]
BY DEF Typed, Onward, Logs, log

LEMMA StatesStay ==
  ASSUME Inv, Onward, state' = state
  PROVE  States'
<1> SUFFICES ASSUME NEW f \in File PROVE Known(f, state[f])'
  BY DEF States
<1>1. PICK st \in State \cup {None} : st = state[f]
  BY DEF Inv, Typed
<1>2. Known(f, st)'
  BY <1>1, KnownStays DEF Inv, States
<1> QED BY <1>1, <1>2 DEF Known

LEMMA SawsStay ==
  ASSUME Inv, Onward, NEW p \in Pass, NEW f \in File, saw'[p] = saw[p]
  PROVE  Known(f, saw[p][f])'
<1>1. PICK st \in State \cup {None} : st = saw[p][f]
  BY DEF Inv, Typed
<1>2. Known(f, st)'
  BY <1>1, KnownStays DEF Inv, Saws
<1> QED BY <1>1, <1>2 DEF Known

LEMMA GrowStep ==
  ASSUME Inv, NEW f \in File, Grow(f)
  PROVE  Inv'
<1>1. /\ day' = day /\ rows' = rows /\ f \in Logs /\ len[f] < Len(log(f))
      /\ len' = len \/ len' = [len EXCEPT ![f] = @ + 1]
      /\ UNCHANGED <<state, pc, saw, todo, job>>
  BY DEF Grow, passVars
<1>2. \A g \in Logs : g \in File /\ len[g] \in Nat /\ len[g] <= Len(log(g)) /\ Len(log(g)) \in Nat
  BY LogTypes DEF Inv
<1>3. Onward
  <2>1. len \in [File -> Nat] /\ rows \in [Tables -> [Id -> Row \cup {None}]]
    BY DEF Inv, Typed
  <2>2. len' \in [File -> Nat]
    BY <1>1, <2>1
  <2>3. \A g \in Logs : len[g] <= len'[g] /\ len'[g] <= Len(log(g))
    BY <1>1, <1>2, <2>1
  <2> QED BY <1>1, <2>1, <2>2, <2>3 DEF Onward
<1>4. Typed'
  BY <1>1, <1>3, TypesStay DEF Inv, Typed, Logs
<1>5. States' /\ Saws'
  BY <1>1, <1>3, StatesStay, SawsStay DEF Inv, Saws
<1>6. Readings'
  BY <1>1, <1>3, ReadingStays DEF Inv, Readings
<1>7. RowsTrue'
  BY <1>1, <1>3, RowsTrueStay
<1> QED BY <1>4, <1>5, <1>6, <1>7 DEF Inv

LEMMA EnterStep ==
  ASSUME Inv, NEW p \in Pass, NEW s, Enter(p, s)
  PROVE  Inv'
<1>1. /\ UNCHANGED <<day, len, rows, state, job>>
      /\ pc' = [pc EXCEPT ![p] = "visit"] /\ saw' = [saw EXCEPT ![p] = state]
      /\ todo' = [todo EXCEPT ![p] = OfStore(s)]
  BY DEF Enter, logVars
<1>2. Onward /\ RowsTrue'
  BY <1>1, Quiet
<1>3. Typed'
  <2>1. OfStore(s) \subseteq Logs
    BY DEF OfStore
  <2> QED BY <1>1, <1>2, <2>1, TypesStay DEF Inv, Typed, Logs
<1>4. States'
  BY <1>1, <1>2, StatesStay
<1>5. Saws'
  <2> SUFFICES ASSUME NEW q \in Pass, NEW f \in File PROVE Known(f, saw[q][f])'
    BY DEF Saws
  <2>1. CASE q = p
    <3>1. saw'[q][f] = state'[f]
      BY <1>1, <2>1 DEF Inv, Typed
    <3>2. Known(f, state[f])'
      BY <1>4 DEF States
    <3> QED BY <3>1, <3>2 DEF Known
  <2>2. CASE q # p
    <3>1. saw'[q] = saw[q]
      BY <1>1, <2>2 DEF Inv, Typed
    <3> QED BY <1>2, <3>1, SawsStay
  <2> QED BY <2>1, <2>2
<1>6. Readings'
  <2> SUFFICES ASSUME NEW q \in Pass PROVE Reading(q)'
    BY DEF Readings
  <2>1. CASE q = p
    <3>1. pc'[q] = "visit"
      BY <1>1, <2>1 DEF Inv, Typed
    <3> QED BY <3>1 DEF Reading
  <2>2. CASE q # p
    <3>1. pc'[q] = pc[q] /\ job'[q] = job[q]
      BY <1>1, <2>2 DEF Inv, Typed
    <3> QED BY <1>2, <3>1, ReadingStays DEF Inv, Readings
  <2> QED BY <2>1, <2>2
<1> QED BY <1>2, <1>3, <1>4, <1>5, <1>6 DEF Inv

LEMMA LeaveStep ==
  ASSUME Inv, NEW P \in SUBSET Pass, Leave(P), UNCHANGED <<day, len, rows, state>>
  PROVE  Inv'
<1>1. Onward /\ RowsTrue'
  BY Quiet
<1>2. Typed'
  <2>1. saw' \in [Pass -> [File -> State \cup {None}]]
    BY DEF Leave, Inv, Typed, Unseen
  <2>2. todo' \in [Pass -> SUBSET Logs] /\ job' \in [Pass -> Job \cup {None}]
    BY DEF Leave, Inv, Typed
  <2>3. pc' \in [Pass -> {"idle", "visit", "read", "store"}]
    BY DEF Leave, Inv, Typed
  <2> QED BY <1>1, <2>1, <2>2, <2>3, TypesStay DEF Inv, Typed, Logs
<1>3. States'
  BY <1>1, StatesStay
<1>4. Saws'
  <2> SUFFICES ASSUME NEW q \in Pass, NEW f \in File PROVE Known(f, saw[q][f])'
    BY DEF Saws
  <2>1. CASE q \in P
    BY <2>1 DEF Leave, Unseen, Known
  <2>2. CASE q \notin P
    <3>1. saw'[q] = saw[q]
      BY <2>2 DEF Leave
    <3> QED BY <1>1, <3>1, SawsStay
  <2> QED BY <2>1, <2>2
<1>5. Readings'
  <2> SUFFICES ASSUME NEW q \in Pass PROVE Reading(q)'
    BY DEF Readings
  <2>1. CASE q \in P
    BY <2>1 DEF Leave, Reading
  <2>2. CASE q \notin P
    <3>1. pc'[q] = pc[q] /\ job'[q] = job[q]
      BY <2>2 DEF Leave
    <3> QED BY <1>1, <3>1, ReadingStays DEF Inv, Readings
  <2> QED BY <2>1, <2>2
<1> QED BY <1>1, <1>2, <1>3, <1>4, <1>5 DEF Inv

\* A step of one command that leaves logs, rows and saved states alone keeps the
\* invariant, if it does so for this command.
LEMMA OwnStep ==
  ASSUME Inv, NEW p \in Pass, UNCHANGED <<day, len, rows, saw>>,
         todo' \in [Pass -> SUBSET Logs],
         NEW c \in {"visit", "read", "store"}, pc' = [pc EXCEPT ![p] = c],
         NEW j \in Job \cup {None}, job' = [job EXCEPT ![p] = j],
         Reading(p)',
         state' \in [File -> State \cup {None}], States'
  PROVE  Inv'
<1>1. Onward /\ RowsTrue'
  BY Quiet
<1>2. Typed'
  <2>1. job' \in [Pass -> Job \cup {None}] /\ pc' \in [Pass -> {"idle", "visit", "read", "store"}]
    BY DEF Inv, Typed
  <2> QED BY <1>1, <2>1, TypesStay DEF Inv, Typed, Logs
<1>3. Saws'
  <2> SUFFICES ASSUME NEW q \in Pass, NEW f \in File PROVE Known(f, saw[q][f])'
    BY DEF Saws
  <2> QED BY <1>1, SawsStay
<1>4. Readings'
  <2> SUFFICES ASSUME NEW q \in Pass, q # p PROVE Reading(q)'
    BY DEF Readings
  <2>1. pc'[q] = pc[q] /\ job'[q] = job[q]
    BY DEF Inv, Typed
  <2> QED BY <1>1, <2>1, ReadingStays DEF Inv, Readings
<1> QED BY <1>1, <1>2, <1>3, <1>4 DEF Inv

LEMMA AfterNothing ==
  ASSUME NEW s
  PROVE  After(s, Unset, 0, 0) = Unset
<1>1. \A kind : Of(s, 0, 0, kind) = {}
  BY DEF Of
<1> QED BY <1>1 DEF After, Unset

LEMMA VisitStep ==
  ASSUME Inv, NEW p \in Pass, NEW f \in File, Visit(p, f)
  PROVE  Inv'
<1>1. /\ UNCHANGED <<day, len, rows, saw, state>>
      /\ pc[p] = "visit" /\ f \in todo[p]
      /\ todo' = [todo EXCEPT ![p] = @ \ {f}]
  BY DEF Visit, logVars
<1>2. f \in Logs /\ todo' \in [Pass -> SUBSET Logs] /\ state' \in [File -> State \cup {None}]
  BY <1>1 DEF Inv, Typed
<1>3. Onward /\ States'
  BY <1>1, Quiet, StatesStay
<1>4. CASE UNCHANGED <<pc, job>>
  <2>1. pc' = [pc EXCEPT ![p] = "visit"]
    BY <1>1, <1>4 DEF Inv, Typed
  <2>2. PICK j \in Job \cup {None} : j = job[p]
    BY DEF Inv, Typed
  <2>3. job' = [job EXCEPT ![p] = j]
    BY <1>4, <2>2 DEF Inv, Typed
  <2>4. Reading(p)'
    BY <1>1, <1>4 DEF Reading
  <2> QED BY <1>1, <1>2, <1>3, <2>1, <2>3, <2>4, OwnStep
<1>5. CASE pc' = [pc EXCEPT ![p] = "read"] /\ job' = [job EXCEPT ![p] = Plan(f, saw[p][f])]
  <2>1. PICK old \in State \cup {None} : old = saw[p][f]
    BY DEF Inv, Typed
  <2>2. PICK j : j = Plan(f, old)
    OBVIOUS
  <2>3. Size(f) \in Nat
    BY <1>2, LogTypes DEF Inv, Size
  <2>4. /\ j.file = f /\ j.from = j.to
        /\ j.from \in Nat /\ j.from <= len[f]
        /\ j.ctx \in Context /\ j.ctx = After(log(f), Unset, 0, j.from)
        /\ Covered(f, j.from)
        /\ j \in Job
    <3>1. CASE Resumes(old, Size(f))
      <4>1. old \in State /\ old # None
        BY <3>1 DEF Resumes
      <4>2. /\ old.offset <= len[f] /\ old.ctx = After(log(f), Unset, 0, old.offset)
            /\ Covered(f, old.offset)
        BY <2>1, <4>1 DEF Inv, Saws, Known
      <4>3. old.offset \in Nat /\ old.ctx \in Context
        BY <4>1 DEF State
      <4>4. j = [file |-> f, size |-> Size(f), from |-> old.offset, ctx |-> old.ctx,
                 to |-> old.offset, due |-> {}, cut |-> FALSE]
        BY <2>2, <3>1 DEF Plan
      <4> QED BY <2>3, <4>2, <4>3, <4>4 DEF Job
    <3>2. CASE ~Resumes(old, Size(f))
      <4>1. j = [file |-> f, size |-> Size(f), from |-> 0, ctx |-> Unset,
                 to |-> 0, due |-> {}, cut |-> FALSE]
        BY <2>2, <3>2 DEF Plan
      <4>2. Unset \in Context
        BY DEF Unset, Context
      <4>3. 0 <= len[f]
        BY <1>2, LogTypes DEF Inv
      <4>4. Covered(f, 0)
        BY DEF Covered
      <4> QED BY <2>3, <4>1, <4>2, <4>3, <4>4, AfterNothing DEF Job
    <3> QED BY <3>1, <3>2
  <2>5. job' = [job EXCEPT ![p] = j]
    BY <1>5, <2>1, <2>2
  <2>6. Reading(p)'
    <3>1. pc'[p] = "read" /\ job'[p] = j
      BY <1>5, <2>5 DEF Inv, Typed
    <3>2. len' = len /\ log(f)' = log(f) /\ Logs' = Logs /\ Covered(f, j.from)'
      BY <1>1, <2>4 DEF log, Logs, Covered
    <3> QED BY <1>2, <2>4, <3>1, <3>2 DEF Reading
  <2> QED BY <1>1, <1>2, <1>3, <1>5, <2>4, <2>5, <2>6, OwnStep
<1> QED BY <1>4, <1>5 DEF Visit

LEMMA ReadStep ==
  ASSUME Inv, NEW p \in Pass, Read(p)
  PROVE  Inv'
<1>1. PICK old : old = job[p]
  OBVIOUS
<1>2. /\ UNCHANGED <<day, len, rows, saw, state, todo>>
      /\ pc[p] = "read" /\ pc' = [pc EXCEPT ![p] = "store"]
  BY DEF Read, logVars
<1>3. /\ old \in Job /\ old.file \in Logs
      /\ old.ctx = After(log(old.file), Unset, 0, old.from)
      /\ Covered(old.file, old.from)
  BY <1>1, <1>2 DEF Inv, Readings, Reading
<1>4. PICK n \in job[p].from..len[job[p].file] :
        job' = [job EXCEPT ![p].to = n, ![p].cut = n < len[job[p].file],
                  ![p].due = {t \in Tables : Of(log(job[p].file), job[p].from, n, t) # {}}]
  BY DEF Read
<1> DEFINE due == {t \in Tables : Of(log(old.file), old.from, n, t) # {}}
           cut == n < len[old.file]
           read == [old EXCEPT !.to = n, !.cut = cut, !.due = due]
<1>5. job' = [job EXCEPT ![p].to = n, ![p].cut = cut, ![p].due = due]
  BY <1>1, <1>4
<1>6. job' = [job EXCEPT ![p] = read]
  <2> HIDE DEF due, cut
  <2> QED BY <1>1, <1>5 DEF Inv, Typed
<1>7. old.from \in Nat /\ len[old.file] \in Nat /\ n \in Nat /\ old.from <= n /\ n <= len[old.file]
  BY <1>1, <1>3, LogTypes DEF Job, Inv
<1>8. PICK j : j = read
  OBVIOUS
<1>9. j \in Job /\ j.file = old.file /\ j.from = old.from /\ j.ctx = old.ctx /\ j.to = n /\ j.due = due
  <2>1. due \in SUBSET Tables /\ cut \in BOOLEAN
    OBVIOUS
  <2> HIDE DEF due, cut
  <2> QED BY <1>3, <1>7, <1>8, <2>1 DEF Job
<1>10. job' = [job EXCEPT ![p] = j]
  BY <1>6, <1>8
<1> HIDE DEF read
<1>11. Reading(p)'
  <2>1. pc'[p] = "store" /\ job'[p] = j
    BY <1>2, <1>10 DEF Inv, Typed
  <2>2. len' = len /\ rows' = rows /\ log(j.file)' = log(j.file) /\ Logs' = Logs
    BY <1>2 DEF log, Logs
  <2>3. Covered(j.file, j.from)'
    BY <1>3, <1>9, <2>2 DEF Covered
  <2>4. \A i \in (j.from + 1)..j.to : log(j.file)[i].kind \notin Tables \ j.due
    BY <1>9 DEF Of
  <2> QED BY <1>3, <1>7, <1>9, <2>1, <2>2, <2>3, <2>4 DEF Reading
<1>12. States'
  BY <1>2, Quiet, StatesStay
<1> QED BY <1>2, <1>9, <1>10, <1>11, <1>12, OwnStep DEF Inv, Typed

\* The saved offset is that of a reading whose rows are all written.
LEMMA SaveStep ==
  ASSUME Inv, NEW p \in Pass, Save(p)
  PROVE  Inv'
<1>1. PICK j : j = job[p]
  OBVIOUS
<1>2. /\ UNCHANGED <<day, len, rows, saw, todo>>
      /\ pc[p] = "store" /\ pc' = [pc EXCEPT ![p] = "visit"]
      /\ j.due = {} /\ state' = [state EXCEPT ![j.file] = Saved(j)]
      /\ job' = [job EXCEPT ![p] = None]
  BY <1>1 DEF Save, logVars
<1>3. /\ j \in Job /\ j.file \in Logs
      /\ j.from <= j.to /\ j.to <= len[j.file]
      /\ j.ctx = After(log(j.file), Unset, 0, j.from)
      /\ Covered(j.file, j.from)
      /\ \A i \in (j.from + 1)..j.to : log(j.file)[i].kind \in Tables =>
           rows[log(j.file)[i].kind][log(j.file)[i].id] # None
  BY <1>1, <1>2 DEF Inv, Readings, Reading
<1>4. /\ j.file \in File /\ log(j.file) \in Seq(Line)
      /\ j.from \in Nat /\ j.to \in Nat /\ j.to <= Len(log(j.file)) /\ j.ctx \in Context /\ j.size \in Nat
  BY <1>3, LogTypes DEF Job, Inv
<1>5. PICK st : st = Saved(j)
  OBVIOUS
<1>6. st.offset = j.to /\ st.ctx = After(log(j.file), j.ctx, j.from, j.to) /\ st.size = j.size
  BY <1>5 DEF Saved
<1>7. st \in State
  BY <1>4, <1>5, AfterType DEF Saved, State
<1>8. st.ctx = After(log(j.file), Unset, 0, st.offset)
  BY <1>3, <1>4, <1>6, AfterTwice
<1>9. Covered(j.file, j.to)
  BY <1>3, <1>4 DEF Covered
<1>10. Known(j.file, st)
  BY <1>3, <1>6, <1>8, <1>9 DEF Known
<1>11. Onward
  BY <1>2, Quiet
<1>12. States'
  <2> SUFFICES ASSUME NEW f \in File PROVE Known(f, state[f])'
    BY DEF States
  <2>1. PICK now \in State \cup {None} : now = state'[f] /\ Known(f, now)
    <3>1. state' = [state EXCEPT ![j.file] = st] /\ state \in [File -> State \cup {None}]
      BY <1>2, <1>5 DEF Inv, Typed
    <3>2. Known(f, state[f])
      BY DEF Inv, States
    <3>3. CASE f = j.file
      BY <1>4, <1>7, <1>10, <3>1, <3>3
    <3>4. CASE f # j.file
      BY <3>1, <3>2, <3>4
    <3> QED BY <3>3, <3>4
  <2>2. Known(f, now)'
    BY <1>11, <2>1, KnownStays DEF Inv
  <2> QED BY <2>1, <2>2 DEF Known
<1>13. Reading(p)' /\ state' \in [File -> State \cup {None}]
  BY <1>2, <1>4, <1>5, <1>7 DEF Inv, Typed, Reading
<1> QED BY <1>2, <1>12, <1>13, OwnStep DEF Inv, Typed

\* A table is written: what is new in it is the row of the first line of its id.
LEMMA InsertStep ==
  ASSUME Inv, NEW p \in Pass, Insert(p)
  PROVE  Inv'
<1>1. PICK j : j = job[p]
  OBVIOUS
<1>2. PICK t : t = First(j.due)
  OBVIOUS
<1>3. /\ UNCHANGED <<day, len, state, pc, saw, todo>>
      /\ pc[p] = "store" /\ j.due # {}
      /\ rows' = [rows EXCEPT ![t] = Upsert(@, t, log(j.file), j.ctx, j.from, j.to)]
      /\ job' = [job EXCEPT ![p].due = @ \ {t}]
  BY <1>1, <1>2 DEF Insert, logVars
<1>4. /\ j \in Job /\ j.file \in Logs
      /\ j.from <= j.to /\ j.to <= len[j.file]
      /\ j.ctx = After(log(j.file), Unset, 0, j.from)
      /\ Covered(j.file, j.from)
      /\ \A i \in (j.from + 1)..j.to : log(j.file)[i].kind \in Tables \ j.due =>
           rows[log(j.file)[i].kind][log(j.file)[i].id] # None
  BY <1>1, <1>3 DEF Inv, Readings, Reading
<1>5. /\ log(j.file) \in Seq(Line) /\ j.from \in Nat /\ j.to \in Nat
      /\ j.to <= Len(log(j.file)) /\ j.ctx \in Context /\ len[j.file] \in Nat
  BY <1>4, LogTypes DEF Job, Inv
<1>6. t \in j.due /\ t \in Tables
  BY <1>2, <1>3, <1>4 DEF First, Job, Tables
<1>7. PICK new : new = Upsert(rows[t], t, log(j.file), j.ctx, j.from, j.to)
  OBVIOUS
<1>8. rows' = [rows EXCEPT ![t] = new] /\ rows \in [Tables -> [Id -> Row \cup {None}]]
  BY <1>3, <1>7 DEF Inv, Typed
<1>9. /\ new \in [Id -> Row \cup {None}]
      /\ \A x \in Id : rows[t][x] # None => new[x] = rows[t][x]
      /\ \A i \in Of(log(j.file), j.from, j.to, t) : new[log(j.file)[i].id] # None
      /\ \A x \in Id : rows[t][x] = None /\ new[x] # None =>
           \E i \in Of(log(j.file), j.from, j.to, t) :
             /\ log(j.file)[i].id = x
             /\ \A k \in Of(log(j.file), j.from, j.to, t) : log(j.file)[k].id = x => i <= k
             /\ new[x] = RowOf(log(j.file)[i], After(log(j.file), j.ctx, j.from, i))
  <2>1. rows[t] \in [Id -> Row \cup {None}]
    BY <1>6, <1>8
  <2>2. Written(rows[t], new, t, log(j.file), j.ctx, j.from, j.to)
    BY <1>5, <1>7, <2>1, UpsertRows
  <2> QED BY <2>2 DEF Written
<1>10. Onward
  <2>1. \A f \in Logs : len[f] <= len[f]
    BY LogTypes DEF Inv
  <2>2. len \in [File -> Nat] /\ \A f \in Logs : len[f] <= Len(log(f))
    BY DEF Inv, Typed
  <2>3. rows' \in [Tables -> [Id -> Row \cup {None}]]
    BY <1>8, <1>9
  <2>4. \A u \in Tables, x \in Id : rows[u][x] # None => rows'[u][x] = rows[u][x]
    BY <1>6, <1>8, <1>9
  <2> QED BY <1>3, <2>1, <2>2, <2>3, <2>4 DEF Onward
<1>11. PICK rest : rest = [j EXCEPT !.due = @ \ {t}]
  OBVIOUS
<1>12. job' = [job EXCEPT ![p] = rest] /\ rest \in Job
  BY <1>1, <1>3, <1>4, <1>11 DEF Inv, Typed, Job
<1>13. Typed'
  BY <1>3, <1>10, <1>12, TypesStay DEF Inv, Typed, Logs
<1>14. States' /\ Saws'
  BY <1>3, <1>10, StatesStay, SawsStay DEF Inv, Saws
<1>15. Reading(p)'
  <2>1. /\ rest.file = j.file /\ rest.from = j.from /\ rest.to = j.to /\ rest.ctx = j.ctx
        /\ rest.due = j.due \ {t} /\ job'[p] = rest
    BY <1>4, <1>11, <1>12 DEF Job, Inv, Typed
  <2>2. len' = len /\ log(j.file)' = log(j.file) /\ Logs' = Logs
    BY <1>3 DEF log, Logs
  <2>3. Covered(j.file, j.from)'
    <3>1. j.from <= len[j.file]
      BY <1>4, <1>5
    <3> QED BY <1>4, <1>5, <1>10, <3>1, CoveredStays DEF Inv
  <2>4. ASSUME NEW i \in (j.from + 1)..j.to, log(j.file)[i].kind \in Tables \ (j.due \ {t})
        PROVE  rows'[log(j.file)[i].kind][log(j.file)[i].id] # None
    <3>1. log(j.file)[i].id \in Id
      BY <1>5, LineType
    <3>2. CASE log(j.file)[i].kind = t
      <4>1. i \in Of(log(j.file), j.from, j.to, t)
        BY <3>2 DEF Of
      <4> QED BY <1>6, <1>8, <1>9, <3>2, <4>1
    <3>3. CASE log(j.file)[i].kind # t
      BY <1>4, <1>8, <2>4, <3>3
    <3> QED BY <3>2, <3>3
  <2> QED BY <1>4, <1>12, <2>1, <2>2, <2>3, <2>4 DEF Reading
<1>16. Readings'
  <2> SUFFICES ASSUME NEW q \in Pass, q # p PROVE Reading(q)'
    BY <1>15 DEF Readings
  <2>1. pc'[q] = pc[q] /\ job'[q] = job[q]
    BY <1>3, <1>12 DEF Inv, Typed
  <2> QED BY <1>10, <2>1, ReadingStays DEF Inv, Readings
<1>17. RowsTrue'
  <2>1. Logs' = Logs /\ len' = len /\ day' = day
    BY <1>3 DEF Logs
  <2>2. \A f, u, x, i : FirstOf(f, u, x, i)' <=> FirstOf(f, u, x, i)
    BY <2>1 DEF FirstOf, log
  <2>3. \A f, i : FullRow(f, i)' = FullRow(f, i)
    BY <2>1 DEF FullRow, log
  <2> SUFFICES ASSUME NEW u \in Tables, NEW x \in Id, rows'[u][x] # None
               PROVE  \E f \in Logs : \E i \in 1..len[f] :
                        FirstOf(f, u, x, i) /\ rows'[u][x] = FullRow(f, i)
    BY <2>1, <2>2, <2>3 DEF RowsTrue
  <2>4. CASE rows[u][x] # None
    <3>1. rows'[u][x] = rows[u][x]
      BY <1>10, <2>4 DEF Onward
    <3> QED BY <2>4, <3>1 DEF Inv, RowsTrue
  <2>5. CASE rows[u][x] = None
    <3>1. u = t /\ rows'[u][x] = new[x]
      BY <1>8, <2>5
    <3>2. PICK i \in Of(log(j.file), j.from, j.to, t) :
            /\ log(j.file)[i].id = x
            /\ \A k \in Of(log(j.file), j.from, j.to, t) : log(j.file)[k].id = x => i <= k
            /\ new[x] = RowOf(log(j.file)[i], After(log(j.file), j.ctx, j.from, i))
      BY <1>9, <2>5, <3>1
    <3>3. i \in (j.from + 1)..j.to /\ log(j.file)[i].kind = t
      BY DEF Of
    <3>4. i \in Nat /\ j.from <= i /\ i \in 1..len[j.file]
      BY <1>4, <1>5, <3>3
    <3>5. ASSUME NEW k \in 1..(i - 1), log(j.file)[k].kind = t, log(j.file)[k].id = x
          PROVE  FALSE
      <4>1. CASE k <= j.from
        <5>1. k \in 1..j.from
          BY <1>5, <4>1
        <5> QED BY <1>4, <1>6, <2>5, <3>1, <3>5, <5>1 DEF Covered
      <4>2. CASE k > j.from
        <5>1. k \in Of(log(j.file), j.from, j.to, t)
          BY <1>5, <3>3, <3>5, <4>2 DEF Of
        <5> QED BY <3>2, <3>4, <3>5, <5>1
      <4> QED BY <1>5, <4>1, <4>2
    <3>6. FirstOf(j.file, t, x, i)
      BY <3>2, <3>3, <3>4, <3>5 DEF FirstOf
    <3>7. new[x] = FullRow(j.file, i)
      <4>1. After(log(j.file), j.ctx, j.from, i) = After(log(j.file), Unset, 0, i)
        BY <1>4, <1>5, <3>4, AfterTwice
      <4> QED BY <3>2, <4>1 DEF FullRow
    <3> QED BY <1>4, <3>1, <3>4, <3>6, <3>7
  <2> QED BY <2>4, <2>5
<1> QED BY <1>13, <1>14, <1>16, <1>17 DEF Inv

(***************************************************************************)
(* The theorems.                                                           *)
(***************************************************************************)
LEMMA QuietStep ==
  ASSUME Inv, UNCHANGED <<day, len, rows, state, passVars>>
  PROVE  Inv'
<1>1. Onward /\ RowsTrue'
  BY Quiet
<1>2. Typed'
  BY <1>1, TypesStay DEF Inv, Typed, Logs, passVars
<1>3. States' /\ Saws'
  BY <1>1, StatesStay, SawsStay DEF Saws, passVars
<1>4. Readings'
  BY <1>1, ReadingStays DEF Inv, Readings, passVars
<1> QED BY <1>1, <1>2, <1>3, <1>4 DEF Inv

LEMMA InvNext ==
  ASSUME Inv, [Next]_vars
  PROVE  Inv'
<1>1. CASE Bind \/ UNCHANGED vars
  BY <1>1, QuietStep DEF Bind, vars, transcriptVars, logVars
<1>2. ASSUME NEW f \in File, Grow(f)
      PROVE  Inv'
  BY <1>2, GrowStep
<1>3. ASSUME NEW f \in File, LimitsMiss(f) \/ LimitsVisit(f)
      PROVE  Inv'
  BY <1>3, QuietStep DEF LimitsMiss, LimitsVisit, logVars
<1>4. CASE LimitsBegin \/ LimitsScan \/ LimitsEnd
  BY <1>4, QuietStep DEF LimitsBegin, LimitsScan, LimitsEnd, logVars
<1>5. ASSUME NEW p \in Pass, Begin(p) \/ Rollouts(p)
      PROVE  Inv'
  BY <1>5, EnterStep DEF Begin, Rollouts
<1>6. ASSUME NEW p \in Pass, Finish(p) \/ Abort(p)
      PROVE  Inv'
  <2>1. Leave({p}) /\ UNCHANGED <<day, len, rows, state>>
    BY <1>6 DEF Finish, Abort, logVars
  <2> QED BY <2>1, LeaveStep
<1>7. CASE Exit
  <2>1. Leave(Pass) /\ UNCHANGED <<day, len, rows, state>>
    BY <1>7 DEF Exit, logVars
  <2> QED BY <2>1, LeaveStep
<1>8. ASSUME NEW p \in Pass, (\E f \in File : Visit(p, f)) \/ Read(p) \/ Insert(p) \/ Save(p)
      PROVE  Inv'
  BY <1>8, VisitStep, ReadStep, InsertStep, SaveStep
<1> QED BY <1>1, <1>2, <1>3, <1>4, <1>5, <1>6, <1>7, <1>8
        DEF Next, TranscriptNext, PassStep, LimitsStep

\* For any logs, any number of commands, failures and ends of the application: no offset
\* passes a line whose row is missing, and every row is that of the first line of its id
\* in a log read from its beginning, with the session and the model named before it.
THEOREM StoreStaysTrue == Spec => []StoreTrue
<1>1. Init => Inv
  BY InvInit DEF Init
<1>2. Inv /\ [Next]_vars => Inv'
  BY InvNext
<1>3. Inv => StoreTrue
  BY LogTypes DEF Inv, States, Known, StoreTrue, NothingSkipped
<1> QED BY <1>1, <1>2, <1>3, PTL DEF Spec

(***************************************************************************)
(* The newest snapshot of the limits.                                      *)
(***************************************************************************)
\* Finitely many numbers have a bound.
LEMMA PrefixBound ==
  ASSUME NEW n \in Nat, NEW g \in [1..n -> Nat]
  PROVE  \E b \in Nat : \A i \in 1..n : g[i] <= b
<1> DEFINE Bounded(k) == \E b \in Nat : \A i \in 1..k : g[i] <= b
           S == {k \in 0..n : ~Bounded(k)}
<1>1. Bounded(0)
  <2>1. \A i \in 1..0 : g[i] <= 0
    OBVIOUS
  <2> QED BY <2>1
<1>2. ASSUME NEW k \in 1..n, Bounded(k - 1) PROVE Bounded(k)
  <2>1. PICK b \in Nat : \A i \in 1..(k - 1) : g[i] <= b
    BY <1>2
  <2>2. g[k] \in Nat /\ b + g[k] \in Nat
    OBVIOUS
  <2>3. ASSUME NEW i \in 1..k PROVE g[i] <= b + g[k]
    <3>1. g[i] \in Nat /\ (i = k \/ i \in 1..(k - 1))
      OBVIOUS
    <3> QED BY <2>1, <2>2, <3>1
  <2> QED BY <2>2, <2>3
<1> HIDE DEF Bounded
<1>3. ASSUME S # {} PROVE FALSE
  <2>1. S \in SUBSET Nat
    OBVIOUS
  <2>2. PICK k \in S : \A m \in S : k <= m
    <3> HIDE DEF S
    <3> QED BY <1>3, <2>1, MinMember
  <2>3. k \in 1..n /\ ~Bounded(k)
    BY <1>1
  <2>4. k - 1 \in 0..n /\ ~(k <= k - 1)
    BY <2>3
  <2>5. Bounded(k - 1)
    BY <2>2, <2>4
  <2> QED BY <1>2, <2>3, <2>5
<1>4. Bounded(n)
  BY <1>3
<1> QED BY <1>4 DEF Bounded

LEMMA FamilyBound ==
  ASSUME NEW I, IsFiniteSet(I), NEW g \in [I -> Nat]
  PROVE  \E b \in Nat : \A i \in I : g[i] <= b
<1>1. PICK n \in Nat : ExistsSurjection(1..n, I)
  BY FS_NatSurjection
<1>2. PICK s \in [1..n -> I] : \A i \in I : \E k \in 1..n : s[k] = i
  BY <1>1 DEF ExistsSurjection, Surjection
<1> DEFINE h == [k \in 1..n |-> g[s[k]]]
<1>3. h \in [1..n -> Nat]
  BY <1>2
<1>4. PICK b \in Nat : \A k \in 1..n : h[k] <= b
  <2> HIDE DEF h
  <2> QED BY <1>3, PrefixBound
<1> QED BY <1>2, <1>4

LEMMA NewestOf ==
  ASSUME NEW S \in SUBSET Nat, NEW b \in Nat, \A y \in S : y <= b
  PROVE  /\ Newest(S) \in S \cup {0} /\ Newest(S) \in Nat
         /\ \A y \in S : Newest(S) >= y
<1> DEFINE T == S \cup {0}
<1>1. T \in SUBSET (0..b) /\ T # {} /\ T \in SUBSET Nat
  OBVIOUS
<1>2. Max(T) \in T /\ \A y \in T : Max(T) >= y
  <2> HIDE DEF T
  <2> QED BY <1>1, MaxMember
<1>3. Newest(S) = Max(T)
  BY DEF Newest
<1> HIDE DEF T
<1>4. Newest(S) \in T /\ Newest(S) \in Nat /\ \A y \in T : Newest(S) >= y
  BY <1>1, <1>2, <1>3
<1> QED BY <1>4 DEF T

\* x is at least as new as the snapshots in the first n lines of file f.
AsNew(f, n, x) == \A i \in 1..n : log(f)[i].limits => x >= log(f)[i].at

\* What is kept of file f covers its lines up to an offset that its size does not pass.
Kept(f, st) ==
  st # None =>
    /\ f \in Logs /\ st.offset <= len[f] /\ st.size <= 2 * st.offset + 1
    /\ AsNew(f, st.offset, st.snap)

LimJob == [file : File, size : Nat, from : Nat, prior : Stamp \cup {0}]

LimTyped ==
  /\ lim \in [pc : {"idle", "visit", "scan"}, saw : [File -> Snapshot \cup {None}],
              todo : SUBSET Logs, job : LimJob \cup {None}, newest : Nat, must : Nat,
              missed : BOOLEAN]
  /\ kept \in [File -> Snapshot \cup {None}]

Scanning ==
  lim.pc = "scan" =>
    LET j == lim.job IN
    /\ j \in LimJob /\ j.file \in Logs
    /\ j.from <= len[j.file] /\ j.size <= 2 * len[j.file] + 1
    /\ AsNew(j.file, j.from, j.prior)

\* The files that the answer does not yet take account of.
Waiting == lim.todo \cup (IF lim.pc = "scan" THEN {lim.job.file} ELSE {})

Asked ==
  \/ lim.missed \/ lim.newest >= lim.must
  \/ /\ lim.pc # "idle"
     /\ \E f \in Waiting : \E i \in 1..len[f] : log(f)[i].limits /\ log(f)[i].at >= lim.must

\* LimitsNewest says nothing of an answer under way, nor of what is kept for the next.
LimInv ==
  /\ LimTyped /\ Scanning /\ Asked
  /\ \A f \in File : Kept(f, kept[f]) /\ Kept(f, lim.saw[f])

LEMMA StampNat == Stamp \cup {0} \subseteq Nat
BY TranscriptsAssumption

LEMMA LimInit == TranscriptInit => LimInv
<1> SUFFICES ASSUME TranscriptInit PROVE LimInv
  OBVIOUS
<1>1. lim = NoReading /\ kept = Unseen
  BY DEF TranscriptInit
<1>2. Unseen \in [File -> Snapshot \cup {None}] /\ \A f \in File : Unseen[f] = None
  BY DEF Unseen
<1>3. LimTyped
  BY <1>1, <1>2 DEF LimTyped, NoReading
<1> QED BY <1>1, <1>2, <1>3 DEF LimInv, Scanning, Asked, Kept, NoReading

\* Logs grow, and what covers their first lines goes on covering them.
Longer ==
  /\ day' = day /\ len' \in [File -> Nat]
  /\ \A f \in Logs : len[f] <= len'[f]

LEMMA KeptStays ==
  ASSUME Typed, Longer, NEW f \in File, NEW st \in Snapshot \cup {None}, Kept(f, st)
  PROVE  Kept(f, st)'
<1> SUFFICES ASSUME st # None PROVE Kept(f, st)'
  BY DEF Kept
<1>1. /\ f \in Logs /\ st.offset <= len[f] /\ st.size <= 2 * st.offset + 1
      /\ AsNew(f, st.offset, st.snap)
  BY DEF Kept
<1>2. st.offset \in Nat /\ len[f] \in Nat /\ len'[f] \in Nat /\ len[f] <= len'[f]
  BY <1>1, LogTypes DEF Snapshot, Longer
<1>3. AsNew(f, st.offset, st.snap)' /\ Logs' = Logs
  BY <1>1 DEF AsNew, Longer, log, Logs
<1>4. st.offset <= len'[f]
  BY <1>1, <1>2
<1> QED BY <1>1, <1>3, <1>4 DEF Kept

\* What the second reader does not take part in.
LEMMA LimAside ==
  ASSUME Inv, LimInv, Longer, UNCHANGED <<lim, kept>>
  PROVE  LimInv'
<1> USE DEF LimInv, Inv
<1>1. Logs' = Logs /\ \A f \in Logs : log(f)' = log(f)
  BY DEF Longer, Logs, log
<1>2. LimTyped'
  BY <1>1 DEF LimTyped
<1>3. \A f \in Logs : len[f] \in Nat /\ len'[f] \in Nat /\ len[f] <= len'[f]
  BY LogTypes DEF Longer
<1>4. Scanning'
  <2> SUFFICES ASSUME lim.pc = "scan" PROVE Scanning'
    BY DEF Scanning
  <2>1. PICK j : j = lim.job
    OBVIOUS
  <2>2. /\ j \in LimJob /\ j.file \in Logs
        /\ j.from <= len[j.file] /\ j.size <= 2 * len[j.file] + 1
        /\ AsNew(j.file, j.from, j.prior)
    BY <2>1 DEF Scanning
  <2>3. j.from \in Nat /\ j.size \in Nat
    BY <2>2 DEF LimJob
  <2>4. j.from <= len'[j.file] /\ j.size <= 2 * len'[j.file] + 1
    BY <1>3, <2>2, <2>3
  <2>5. AsNew(j.file, j.from, j.prior)'
    BY <1>1, <2>2 DEF AsNew
  <2> QED BY <1>1, <2>1, <2>2, <2>4, <2>5 DEF Scanning
<1>5. Asked'
  <2> SUFFICES ASSUME ~lim.missed, ~(lim.newest >= lim.must) PROVE Asked'
    BY DEF Asked
  <2>1. PICK f \in Waiting : \E i \in 1..len[f] : log(f)[i].limits /\ log(f)[i].at >= lim.must
    BY DEF Asked
  <2>2. PICK i \in 1..len[f] : log(f)[i].limits /\ log(f)[i].at >= lim.must
    BY <2>1
  <2>3. f \in Logs
    BY DEF Waiting, Scanning, LimTyped
  <2>4. i \in 1..len'[f] /\ log(f)' = log(f) /\ Waiting' = Waiting
    BY <1>1, <1>3, <2>3 DEF Waiting
  <2>5. lim.pc # "idle"
    BY DEF Asked
  <2> QED BY <2>2, <2>4, <2>5 DEF Asked
<1>6. ASSUME NEW f \in File PROVE (Kept(f, kept[f]) /\ Kept(f, lim.saw[f]))'
  <2>1. PICK a, b \in Snapshot \cup {None} : a = kept[f] /\ b = lim.saw[f]
    BY DEF LimTyped
  <2>2. Kept(f, a)' /\ Kept(f, b)'
    BY <2>1, KeptStays
  <2>3. kept'[f] = a /\ lim'.saw[f] = b
    BY <2>1
  <2> QED BY <2>2, <2>3 DEF Kept
<1> QED BY <1>2, <1>4, <1>5, <1>6

\* A step of the second reader: the logs stay.
LEMMA LimStep ==
  ASSUME Inv, LimInv, UNCHANGED <<day, len>>, LimTyped', Scanning', Asked',
         \A f \in File : kept'[f] = kept[f] \/ Kept(f, kept'[f]),
         \A f \in File : lim'.saw[f] \in {lim.saw[f], kept[f], None}
  PROVE  LimInv'
<1>1. \A f, st : Kept(f, st)' <=> Kept(f, st)
  BY DEF Kept, AsNew, log, Logs
<1>2. ASSUME NEW f \in File PROVE Kept(f, kept'[f]) /\ Kept(f, lim'.saw[f])
  BY DEF LimInv, Kept
<1>3. ASSUME NEW f \in File PROVE (Kept(f, kept[f]) /\ Kept(f, lim.saw[f]))'
  <2>1. PICK a, b : a = kept'[f] /\ b = lim'.saw[f]
    OBVIOUS
  <2>2. Kept(f, a)' /\ Kept(f, b)'
    BY <1>1, <1>2, <2>1
  <2> QED BY <2>1, <2>2 DEF Kept
<1> QED BY <1>3 DEF LimInv

\* The snapshots of some lines, and a bound of them.
LEMMA SnapsBound ==
  ASSUME Inv, NEW f \in Logs, NEW m \in Nat
  PROVE  /\ Snaps(f, m, len[f]) \in SUBSET (Stamp \cup {0})
         /\ \E b \in Nat : \A y \in Snaps(f, m, len[f]) : y <= b
<1>1. /\ len[f] \in Nat /\ log(f) \in Seq(Line)
      /\ \A i \in 1..len[f] : i \in 1..Len(log(f))
  BY LogTypes DEF Inv
<1>2. \A i \in 1..len[f] : log(f)[i].at \in Stamp /\ log(f)[i].at \in Nat
  BY <1>1, LineType, StampNat
<1> DEFINE g == [i \in 1..len[f] |-> log(f)[i].at]
<1>3. g \in [1..len[f] -> Nat]
  BY <1>2
<1>4. PICK b \in Nat : \A i \in 1..len[f] : g[i] <= b
  <2> HIDE DEF g
  <2> QED BY <1>1, <1>3, PrefixBound
<1>5. \A y \in Snaps(f, m, len[f]) : \E i \in 1..len[f] : y = log(f)[i].at
  BY <1>1 DEF Snaps
<1> QED BY <1>2, <1>4, <1>5

LEMMA MustType ==
  ASSUME Inv, NEW must,
         must = Newest(UNION {Snaps(f, 0, len[f]) : f \in OfStore("codex")})
  PROVE  /\ must \in Nat
         /\ \/ must = 0
            \/ \E f \in OfStore("codex") : \E i \in 1..len[f] :
                 log(f)[i].limits /\ log(f)[i].at = must
<1> DEFINE F == OfStore("codex")
           U == UNION {Snaps(f, 0, len[f]) : f \in F}
<1>1. F \subseteq Logs /\ F \subseteq File /\ IsFiniteSet(F)
  <2>1. F \subseteq Codex /\ F \subseteq Logs
    BY DEF OfStore
  <2>2. Codex \subseteq File /\ IsFiniteSet(File)
    BY TranscriptsAssumption
  <2> HIDE DEF F
  <2>3. F \in SUBSET File
    BY <2>1, <2>2
  <2> QED BY <2>1, <2>2, <2>3, FS_Subset
<1> HIDE DEF F
<1>2. \A f \in F : /\ Snaps(f, 0, len[f]) \in SUBSET (Stamp \cup {0})
                   /\ \E b \in Nat : \A y \in Snaps(f, 0, len[f]) : y <= b
  BY <1>1, SnapsBound
<1> DEFINE B == [f \in F |-> CHOOSE b \in Nat : \A y \in Snaps(f, 0, len[f]) : y <= b]
<1>3. \A f \in F : B[f] \in Nat /\ \A y \in Snaps(f, 0, len[f]) : y <= B[f]
  BY <1>2
<1>4. B \in [F -> Nat]
  BY <1>3
<1> HIDE DEF B
<1>5. PICK b \in Nat : \A f \in F : B[f] <= b
  BY <1>1, <1>4, FamilyBound
<1>6. \A y \in U : \E f \in F : y \in Snaps(f, 0, len[f])
  OBVIOUS
<1> HIDE DEF U
<1>7. U \in SUBSET Nat
  BY <1>2, <1>6, StampNat
<1>8. \A y \in U : y <= b
  <2> TAKE y \in U
  <2>1. PICK f \in F : y \in Snaps(f, 0, len[f])
    BY <1>6
  <2>2. y \in Nat /\ y <= B[f] /\ B[f] <= b /\ B[f] \in Nat
    BY <1>3, <1>5, <1>7, <2>1
  <2> QED BY <2>2
<1>9. must = Newest(U)
  BY DEF U, F
<1>10. must \in U \cup {0} /\ must \in Nat
  BY <1>7, <1>8, <1>9, NewestOf
<1>11. \A y \in U : \E f \in F : \E i \in 1..len[f] : log(f)[i].limits /\ log(f)[i].at = y
  <2> TAKE y \in U
  <2>1. PICK f \in F : y \in Snaps(f, 0, len[f])
    BY <1>6
  <2>2. len[f] \in Nat
    BY <1>1, LogTypes DEF Inv
  <2> QED BY <2>1, <2>2 DEF Snaps
<1> QED BY <1>10, <1>11 DEF F

\* The newer of two.
LEMMA Newer ==
  ASSUME NEW a \in Nat, NEW b \in Nat
  PROVE  Newest({a, b}) \in Nat /\ Newest({a, b}) >= a /\ Newest({a, b}) >= b
<1>1. {a, b} \in SUBSET Nat /\ a + b \in Nat /\ \A y \in {a, b} : y <= a + b
  OBVIOUS
<1> QED BY <1>1, NewestOf

LEMMA LimBegin ==
  ASSUME Inv, LimInv, LimitsBegin
  PROVE  LimInv'
<1>1. PICK must : must = Newest(UNION {Snaps(f, 0, len[f]) : f \in OfStore("codex")})
  OBVIOUS
<1>2. PICK known \in {kept, Unseen} :
        lim' = [NoReading EXCEPT !.pc = "visit", !.todo = OfStore("codex"), !.saw = known,
                                 !.must = must]
  BY <1>1 DEF LimitsBegin
<1>3. lim' = [pc |-> "visit", saw |-> known, todo |-> OfStore("codex"), job |-> None,
              newest |-> 0, must |-> must, missed |-> FALSE]
  BY <1>2 DEF NoReading
<1>4. /\ must \in Nat
      /\ \/ must = 0
         \/ \E f \in OfStore("codex") : \E i \in 1..len[f] :
              log(f)[i].limits /\ log(f)[i].at = must
  BY <1>1, MustType
<1>5. UNCHANGED <<day, len, kept>>
  BY DEF LimitsBegin, logVars
<1>6. Logs' = Logs /\ \A f : log(f)' = log(f)
  BY <1>5 DEF Logs, log
<1>7. LimTyped'
  <2>1. known \in [File -> Snapshot \cup {None}]
    BY DEF LimInv, LimTyped, Unseen
  <2>2. OfStore("codex") \in SUBSET Logs
    BY DEF OfStore
  <2> QED BY <1>3, <1>4, <1>5, <1>6, <2>1, <2>2 DEF LimInv, LimTyped
<1>8. Scanning'
  BY <1>3 DEF Scanning
<1>9. Asked'
  <2>1. CASE must = 0
    BY <1>3, <2>1 DEF Asked
  <2>2. CASE must # 0
    <3>1. PICK f \in OfStore("codex") : \E i \in 1..len[f] :
            log(f)[i].limits /\ log(f)[i].at = must
      BY <1>4, <2>2
    <3>2. PICK i \in 1..len[f] : log(f)[i].limits /\ log(f)[i].at = must
      BY <3>1
    <3>3. f \in Waiting' /\ lim'.pc # "idle" /\ lim'.must = must
      BY <1>3 DEF Waiting
    <3>4. log(f)'[i].limits /\ log(f)'[i].at >= lim'.must /\ i \in 1..len'[f]
      BY <1>4, <1>5, <1>6, <3>2, <3>3
    <3> QED BY <3>3, <3>4 DEF Asked
  <2> QED BY <2>1, <2>2
<1>10. \A f \in File : lim'.saw[f] \in {lim.saw[f], kept[f], None}
  BY <1>3 DEF Unseen
<1> QED BY <1>5, <1>7, <1>8, <1>9, <1>10, LimStep

LEMMA SizeType ==
  ASSUME Typed, NEW f \in Logs
  PROVE  len[f] \in Nat /\ Size(f) \in Nat /\ 2 * len[f] <= Size(f) /\ Size(f) <= 2 * len[f] + 1
BY LogTypes DEF Size

\* A file of the size that was kept holds no line past the offset that was kept.
LEMMA LimVisit ==
  ASSUME Inv, LimInv, NEW f \in File, LimitsVisit(f)
  PROVE  LimInv'
<1> USE DEF LimInv, Inv
<1>1. PICK old : old = lim.saw[f]
  OBVIOUS
<1>2. lim.pc = "visit" /\ f \in lim.todo /\ UNCHANGED <<day, len, kept>>
  BY DEF LimitsVisit, logVars
<1>3. /\ f \in Logs /\ old \in Snapshot \cup {None} /\ Kept(f, old)
      /\ lim.newest \in Nat /\ lim.must \in Nat /\ lim.todo \in SUBSET Logs
  BY <1>1, <1>2 DEF LimTyped
<1>4. PICK size : size = Size(f)
  OBVIOUS
<1>5. len[f] \in Nat /\ size \in Nat /\ 2 * len[f] <= size /\ size <= 2 * len[f] + 1
  BY <1>3, <1>4, SizeType
<1>6. Logs' = Logs /\ \A g : log(g)' = log(g)
  BY <1>2 DEF Logs, log
<1>7. \/ lim.missed \/ lim.newest >= lim.must
      \/ \E g \in lim.todo : \E i \in 1..len[g] :
           log(g)[i].limits /\ log(g)[i].at >= lim.must
  BY <1>2 DEF Asked, Waiting
<1>8. Reusable(old) => /\ old.offset \in Nat /\ old.size \in Nat /\ old.snap \in Stamp \cup {0}
                       /\ old.offset <= len[f] /\ 2 * old.offset <= old.size
                       /\ old.size <= 2 * old.offset + 1 /\ AsNew(f, old.offset, old.snap)
  BY <1>3 DEF Reusable, Kept, Snapshot
<1>9. CASE Reusable(old) /\ old.size = size
  <2>1. PICK n : n = Newest({lim.newest, old.snap})
    OBVIOUS
  <2>2. old.snap \in Nat /\ n \in Nat /\ n >= lim.newest /\ n >= old.snap
    BY <1>3, <1>8, <1>9, <2>1, StampNat, Newer
  <2>3. lim' = [lim EXCEPT !.todo = @ \ {f}, !.newest = n]
    BY <1>1, <1>4, <1>9, <2>1 DEF LimitsVisit
  <2>4. LimTyped'
    BY <1>2, <1>6, <2>2, <2>3 DEF LimTyped
  <2>5. /\ lim'.pc = "visit" /\ lim'.saw = lim.saw /\ lim'.must = lim.must
        /\ lim'.missed = lim.missed /\ lim'.newest = n /\ lim'.todo = lim.todo \ {f}
    BY <1>2, <2>3 DEF LimTyped
  <2>6. Scanning'
    BY <2>5 DEF Scanning
  <2>7. Asked'
    <3>1. CASE lim.missed \/ lim.newest >= lim.must
      BY <1>3, <2>2, <2>5, <3>1 DEF Asked
    <3>2. ASSUME NEW g \in lim.todo, NEW i \in 1..len[g],
                 log(g)[i].limits, log(g)[i].at >= lim.must
          PROVE  Asked'
      <4>1. CASE g = f
        <5>1. len[f] <= old.offset
          BY <1>5, <1>8, <1>9
        <5>2. i \in 1..old.offset
          BY <1>5, <1>8, <1>9, <4>1, <5>1
        <5>3. old.snap >= log(f)[i].at
          BY <1>8, <1>9, <3>2, <4>1, <5>2 DEF AsNew
        <5>4. log(f)[i].at \in Nat
          BY <1>3, <4>1, LogTypes, LineType, StampNat
        <5>5. n >= lim.must
          BY <1>3, <2>2, <3>2, <4>1, <5>3, <5>4
        <5> QED BY <2>5, <5>5 DEF Asked
      <4>2. CASE g # f
        <5>1. g \in Waiting'
          BY <2>5, <4>2 DEF Waiting
        <5>2. i \in 1..len'[g] /\ log(g)'[i].limits /\ log(g)'[i].at >= lim'.must
          BY <1>2, <1>6, <2>5, <3>2
        <5> QED BY <2>5, <5>1, <5>2 DEF Asked
      <4> QED BY <4>1, <4>2
    <3> QED BY <1>7, <3>1, <3>2
  <2> QED BY <1>2, <2>4, <2>5, <2>6, <2>7, LimStep
<1>10. CASE ~(Reusable(old) /\ old.size = size)
  <2> DEFINE on == Reusable(old) /\ size > old.size
  <2>1. PICK from, prior : /\ from = IF on THEN old.offset ELSE 0
                           /\ prior = IF on THEN old.snap ELSE 0
    OBVIOUS
  <2>2. /\ from \in Nat /\ prior \in Stamp \cup {0} /\ from <= len[f]
        /\ AsNew(f, from, prior)
    <3>1. CASE on
      BY <1>8, <2>1, <3>1
    <3>2. CASE ~on
      BY <1>5, <2>1, <3>2 DEF AsNew
    <3> QED BY <3>1, <3>2
  <2>3. PICK j : j = [file |-> f, size |-> size, from |-> from, prior |-> prior]
    OBVIOUS
  <2>4. lim' = [lim EXCEPT !.todo = @ \ {f}, !.pc = "scan", !.job = j]
    BY <1>1, <1>4, <1>10, <2>1, <2>3 DEF LimitsVisit
  <2>5. j \in LimJob /\ j.file = f /\ j.from = from /\ j.size = size /\ j.prior = prior
    BY <1>5, <2>2, <2>3 DEF LimJob
  <2>6. LimTyped'
    BY <1>2, <1>6, <2>4, <2>5 DEF LimTyped
  <2>7. /\ lim'.pc = "scan" /\ lim'.saw = lim.saw /\ lim'.must = lim.must /\ lim'.job = j
        /\ lim'.missed = lim.missed /\ lim'.newest = lim.newest /\ lim'.todo = lim.todo \ {f}
    BY <2>4 DEF LimTyped
  <2>8. Scanning'
    <3>1. AsNew(f, from, prior)'
      BY <1>6, <2>2 DEF AsNew
    <3> QED BY <1>2, <1>3, <1>5, <1>6, <2>2, <2>5, <2>7, <3>1 DEF Scanning
  <2>9. Waiting' = lim.todo
    BY <1>2, <2>5, <2>7 DEF Waiting
  <2>10. Asked'
    <3>1. CASE lim.missed \/ lim.newest >= lim.must
      BY <2>7, <3>1 DEF Asked
    <3>2. ASSUME NEW g \in lim.todo, NEW i \in 1..len[g],
                 log(g)[i].limits, log(g)[i].at >= lim.must
          PROVE  Asked'
      <4>1. i \in 1..len'[g] /\ log(g)'[i].limits /\ log(g)'[i].at >= lim'.must
        BY <1>2, <1>6, <2>7, <3>2
      <4> QED BY <2>7, <2>9, <4>1 DEF Asked
    <3> QED BY <1>7, <3>1, <3>2
  <2> QED BY <1>2, <2>6, <2>7, <2>8, <2>10, LimStep
<1> QED BY <1>9, <1>10

\* The lines up to the end are covered by the lines that were read and those before.
LEMMA LimScan ==
  ASSUME Inv, LimInv, LimitsScan
  PROVE  LimInv'
<1> USE DEF LimInv, Inv
<1>1. PICK j : j = lim.job
  OBVIOUS
<1>2. lim.pc = "scan" /\ UNCHANGED <<day, len>>
  BY DEF LimitsScan, logVars
<1>3. /\ j \in LimJob /\ j.file \in Logs /\ j.from <= len[j.file]
      /\ j.size <= 2 * len[j.file] + 1 /\ AsNew(j.file, j.from, j.prior)
  BY <1>1, <1>2 DEF Scanning
<1>4. /\ j.file \in File /\ j.from \in Nat /\ j.size \in Nat /\ j.prior \in Stamp \cup {0}
      /\ lim.newest \in Nat /\ lim.must \in Nat /\ len[j.file] \in Nat
      /\ log(j.file) \in Seq(Line) /\ \A i \in 1..len[j.file] : i \in 1..Len(log(j.file))
  BY <1>3, LogTypes DEF LimJob, LimTyped
<1> DEFINE S == {j.prior} \cup Snaps(j.file, j.from, len[j.file])
<1>5. PICK snap : snap = Newest(S)
  OBVIOUS
<1>6. S \in SUBSET (Stamp \cup {0}) /\ \E b \in Nat : \A y \in S : y <= b
  <2>1. Snaps(j.file, j.from, len[j.file]) \in SUBSET (Stamp \cup {0})
    BY <1>3, <1>4, SnapsBound
  <2>2. PICK b \in Nat : \A y \in Snaps(j.file, j.from, len[j.file]) : y <= b
    BY <1>3, <1>4, SnapsBound
  <2>3. \A y \in S : y \in Nat /\ y <= b + j.prior
    BY <1>4, <2>1, <2>2, StampNat
  <2>4. b + j.prior \in Nat
    BY <1>4, <2>2, StampNat
  <2> QED BY <1>4, <2>1, <2>3, <2>4
<1>7. snap \in Stamp \cup {0} /\ snap \in Nat /\ \A y \in S : snap >= y
  <2> HIDE DEF S
  <2>1. S \in SUBSET Nat
    BY <1>6, StampNat
  <2> QED BY <1>5, <1>6, <2>1, NewestOf
<1>8. AsNew(j.file, len[j.file], snap)
  <2> SUFFICES ASSUME NEW i \in 1..len[j.file], log(j.file)[i].limits
               PROVE  snap >= log(j.file)[i].at
    BY DEF AsNew
  <2>1. log(j.file)[i].at \in Nat
    BY <1>4, LineType, StampNat
  <2>2. CASE i <= j.from
    <3>1. j.prior >= log(j.file)[i].at /\ snap >= j.prior
      BY <1>3, <1>4, <1>7, <2>2 DEF AsNew
    <3>2. j.prior \in Nat
      BY <1>4, StampNat
    <3> QED BY <1>7, <2>1, <3>1, <3>2
  <2>3. CASE i > j.from
    <3>1. i \in (j.from + 1)..len[j.file]
      BY <1>4, <2>3
    <3>2. log(j.file)[i].at \in S
      BY <3>1 DEF Snaps
    <3> HIDE DEF S
    <3> QED BY <1>7, <3>2
  <2> QED BY <1>4, <2>2, <2>3
<1>9. PICK st : st = [size |-> j.size, offset |-> len[j.file], snap |-> snap]
  OBVIOUS
<1>10. st \in Snapshot /\ Kept(j.file, st)
  <2>1. /\ st \in Snapshot /\ st.size = j.size /\ st.offset = len[j.file] /\ st.snap = snap
    BY <1>4, <1>7, <1>9 DEF Snapshot
  <2> QED BY <1>3, <1>4, <1>8, <2>1 DEF Kept
<1>11. PICK n : n = Newest({lim.newest, snap})
  OBVIOUS
<1>12. n \in Nat /\ n >= lim.newest /\ n >= snap
  BY <1>4, <1>7, <1>11, Newer
<1>13. Scanned(j) = st /\ Scanned(j).snap = snap
  BY <1>5, <1>9 DEF Scanned
<1>14. /\ lim' = [lim EXCEPT !.pc = "visit", !.newest = n]
       /\ kept' = kept \/ kept' = [kept EXCEPT ![j.file] = st]
  BY <1>1, <1>11, <1>13 DEF LimitsScan
<1>15. Logs' = Logs /\ \A g : log(g)' = log(g)
  BY <1>2 DEF Logs, log
<1>16. LimTyped'
  <2>1. kept' \in [File -> Snapshot \cup {None}]
    BY <1>4, <1>10, <1>14 DEF LimTyped
  <2>2. lim' \in [pc : {"idle", "visit", "scan"}, saw : [File -> Snapshot \cup {None}],
                  todo : SUBSET Logs, job : LimJob \cup {None}, newest : Nat, must : Nat,
                  missed : BOOLEAN]
    BY <1>12, <1>14 DEF LimTyped
  <2> QED BY <1>15, <2>1, <2>2 DEF LimTyped
<1>17. /\ lim'.pc = "visit" /\ lim'.saw = lim.saw /\ lim'.must = lim.must
       /\ lim'.missed = lim.missed /\ lim'.newest = n /\ lim'.todo = lim.todo
  BY <1>14 DEF LimTyped
<1>18. Scanning'
  BY <1>17 DEF Scanning
<1>19. Asked'
  <2>1. \/ lim.missed \/ lim.newest >= lim.must
        \/ \E g \in lim.todo \cup {j.file} : \E i \in 1..len[g] :
             log(g)[i].limits /\ log(g)[i].at >= lim.must
    BY <1>1, <1>2 DEF Asked, Waiting
  <2>2. CASE lim.missed \/ lim.newest >= lim.must
    BY <1>4, <1>12, <1>17, <2>2 DEF Asked
  <2>3. ASSUME NEW g \in lim.todo \cup {j.file}, NEW i \in 1..len[g],
               log(g)[i].limits, log(g)[i].at >= lim.must
        PROVE  Asked'
    <3>1. CASE g = j.file
      <4>1. snap >= log(g)[i].at /\ log(g)[i].at \in Nat
        BY <1>4, <1>8, <2>3, <3>1, LineType, StampNat DEF AsNew
      <4>2. n >= lim.must
        BY <1>4, <1>7, <1>12, <2>3, <4>1
      <4> QED BY <1>17, <4>2 DEF Asked
    <3>2. CASE g # j.file
      <4>1. g \in Waiting'
        BY <1>17, <3>2 DEF Waiting
      <4>2. i \in 1..len'[g] /\ log(g)'[i].limits /\ log(g)'[i].at >= lim'.must
        BY <1>2, <1>15, <1>17, <2>3
      <4> QED BY <1>17, <4>1, <4>2 DEF Asked
    <3> QED BY <3>1, <3>2
  <2> QED BY <2>1, <2>2, <2>3
<1>20. \A f \in File : kept'[f] = kept[f] \/ Kept(f, kept'[f])
  BY <1>4, <1>10, <1>14 DEF LimTyped
<1> QED BY <1>2, <1>16, <1>17, <1>18, <1>19, <1>20, LimStep

\* A file is left out, an answer is given, or the application ends.
LEMMA LimLeave ==
  ASSUME Inv, LimInv, (\E f \in File : LimitsMiss(f)) \/ LimitsEnd \/ Exit
  PROVE  LimInv'
<1> USE DEF LimInv
<1>1. UNCHANGED <<day, len, kept>> /\ Logs' = Logs
  BY DEF LimitsMiss, LimitsEnd, Exit, logVars, Logs
<1>2. \A f \in File : kept'[f] = kept[f]
  BY <1>1
<1>3. ASSUME NEW f \in File, LimitsMiss(f) PROVE LimInv'
  <2>1. lim' = [lim EXCEPT !.pc = "visit", !.todo = @ \ {f}, !.missed = TRUE]
    BY <1>3 DEF LimitsMiss
  <2>2. lim'.pc = "visit" /\ lim'.missed /\ lim'.saw = lim.saw
    BY <2>1 DEF LimTyped
  <2>3. LimTyped'
    BY <1>1, <2>1 DEF LimTyped
  <2>4. Scanning' /\ Asked'
    BY <2>2 DEF Scanning, Asked
  <2> QED BY <1>1, <1>2, <2>2, <2>3, <2>4, LimStep
<1>4. CASE LimitsEnd
  <2>1. lim.pc = "visit" /\ lim.todo = {} /\ lim' = [lim EXCEPT !.pc = "idle"]
    BY <1>4 DEF LimitsEnd
  <2>2. /\ lim'.pc = "idle" /\ lim'.saw = lim.saw /\ lim'.missed = lim.missed
        /\ lim'.newest = lim.newest /\ lim'.must = lim.must
    BY <2>1 DEF LimTyped
  <2>3. LimTyped'
    BY <1>1, <2>1 DEF LimTyped
  <2>4. Scanning' /\ Asked'
    BY <2>1, <2>2 DEF Scanning, Asked, Waiting
  <2> QED BY <1>1, <1>2, <2>2, <2>3, <2>4, LimStep
<1>5. CASE Exit
  <2>1. lim' = NoReading
    BY <1>5 DEF Exit
  <2>2. /\ LimTyped' /\ \A f \in File : lim'.saw[f] = None
    BY <1>1, <2>1 DEF LimTyped, NoReading, Unseen
  <2>3. Scanning' /\ Asked'
    BY <2>1 DEF Scanning, Asked, NoReading
  <2> QED BY <1>1, <1>2, <2>2, <2>3, LimStep
<1> QED BY <1>3, <1>4, <1>5

LEMMA LimNext ==
  ASSUME Inv, LimInv, [Next]_vars
  PROVE  LimInv'
<1>1. ASSUME UNCHANGED <<day, len, lim, kept>> PROVE LimInv'
  <2>1. Longer
    BY <1>1, LogTypes DEF Longer, Inv, Typed
  <2> QED BY <1>1, <2>1, LimAside
<1>2. CASE Bind \/ UNCHANGED vars
  BY <1>1, <1>2 DEF Bind, vars, transcriptVars, logVars, limVars
<1>3. ASSUME NEW f \in File, Grow(f) PROVE LimInv'
  <2>1. UNCHANGED <<day, lim, kept>> /\ Longer
    <3>1. UNCHANGED <<day, lim, kept>> /\ (len' = len \/ len' = [len EXCEPT ![f] = @ + 1])
      BY <1>3 DEF Grow, limVars
    <3>2. \A g \in Logs : g \in File /\ len[g] \in Nat
      BY LogTypes DEF Inv
    <3>3. len \in [File -> Nat]
      BY DEF Inv, Typed
    <3> QED BY <3>1, <3>2, <3>3 DEF Longer
  <2> QED BY <2>1, LimAside
<1>4. ASSUME NEW p \in Pass, PassStep(p) \/ Abort(p) PROVE LimInv'
  <2>1. CASE Begin(p) \/ Rollouts(p) \/ Finish(p) \/ Abort(p)
    BY <1>1, <2>1 DEF Begin, Rollouts, Enter, Finish, Abort, logVars, limVars
  <2>2. CASE Read(p) \/ Insert(p) \/ Save(p)
    BY <1>1, <2>2 DEF Read, Insert, Save, logVars, limVars
  <2>3. ASSUME NEW f \in File, Visit(p, f) PROVE LimInv'
    BY <1>1, <2>3 DEF Visit, logVars, limVars
  <2> QED BY <1>4, <2>1, <2>2, <2>3 DEF PassStep
<1> QED BY <1>2, <1>3, <1>4, LimBegin, LimVisit, LimScan, LimLeave
        DEF Next, TranscriptNext, LimitsStep

\* An answer of latest_limits is as new as every snapshot that was complete when it was
\* asked for, for any logs, sizes and failures, whatever the table of offsets holds.
THEOREM LimitsStayNewest == Spec => []LimitsNewest
<1>1. Init => Inv /\ LimInv
  BY InvInit, LimInit DEF Init
<1>2. Inv /\ LimInv /\ [Next]_vars => Inv' /\ LimInv'
  BY InvNext, LimNext
<1>3. LimInv => LimitsNewest
  BY DEF LimInv, Asked, LimitsNewest
<1> QED BY <1>1, <1>2, <1>3, PTL DEF Spec

(***************************************************************************)
(* The order of the journal.                                               *)
(***************************************************************************)
LEMMA IntervalInduction ==
  ASSUME NEW n \in Nat, NEW S, 0 \in S, \A k \in 1..n : k - 1 \in S => k \in S
  PROVE  0..n \subseteq S
<1> DEFINE B == {k \in 0..n : k \notin S}
<1>1. ASSUME B # {} PROVE FALSE
  <2>1. B \in SUBSET Nat
    OBVIOUS
  <2>2. PICK k \in B : \A m \in B : k <= m
    <3> HIDE DEF B
    <3> QED BY <1>1, <2>1, MinMember
  <2>3. k \in 1..n /\ k \notin S
    OBVIOUS
  <2>4. k - 1 \in 0..n /\ ~(k <= k - 1)
    BY <2>3
  <2>5. k - 1 \in S
    BY <2>2, <2>4
  <2> QED BY <2>3, <2>5
<1> QED BY <1>1

Ascending(q, n, R) == \A i, j \in 1..n : i < j => <<q[i], q[j]>> \in R
Irreflexive(S, R) == \A x \in S : <<x, x>> \notin R
StrictOrder(S, R) ==
  /\ Irreflexive(S, R)
  /\ \A x, y, z \in S : <<x, y>> \in R /\ <<y, z>> \in R => <<x, z>> \in R
  /\ \A x, y \in S : x = y \/ <<x, y>> \in R \/ <<y, x>> \in R

\* A finite set can be put in the order of a strict total order, in which every member
\* has its place.
LEMMA SortedIsOnto ==
  ASSUME NEW S, IsFiniteSet(S), NEW R, Irreflexive(S, R),
         NEW q \in [1..Cardinality(S) -> S], Ascending(q, Cardinality(S), R)
  PROVE  \A x \in S : \E k \in 1..Cardinality(S) : q[k] = x
<1> USE DEF Irreflexive, Ascending
<1> DEFINE n == Cardinality(S)
<1>1. n \in Nat
  BY FS_CardinalityType
<1>2. IsFiniteSet(1..n) /\ Cardinality(1..n) = n
  BY <1>1, FS_Interval
<1>3. q \in Injection(1..n, S)
  <2> SUFFICES ASSUME NEW i \in 1..n, NEW j \in 1..n, q[i] = q[j] PROVE i = j
    BY DEF Injection, IsInjective
  <2>1. ~(i < j) /\ ~(j < i)
    OBVIOUS
  <2> QED BY <2>1, <1>1
<1>4. q \in Surjection(1..n, S)
  BY <1>2, <1>3, FS_Injection
<1> QED BY <1>4 DEF Surjection

LEMMA SortExists ==
  ASSUME NEW S, IsFiniteSet(S), NEW R, StrictOrder(S, R)
  PROVE  \E q \in [1..Cardinality(S) -> S] : Ascending(q, Cardinality(S), R)
<1> USE DEF StrictOrder, Irreflexive, Ascending
<1> DEFINE n == Cardinality(S)
           Under(x) == {y \in S : <<y, x>> \in R}
           rank == [x \in S |-> Cardinality(Under(x)) + 1]
<1>1. n \in Nat
  BY FS_CardinalityType
<1>2. ASSUME NEW x \in S
      PROVE  Cardinality(Under(x)) \in Nat /\ IsFiniteSet(Under(x)) /\ Cardinality(Under(x)) < n
  <2>1. Under(x) \in SUBSET S /\ Under(x) # S
    OBVIOUS
  <2> HIDE DEF Under
  <2>2. IsFiniteSet(Under(x)) /\ Cardinality(Under(x)) <= n /\ n # Cardinality(Under(x))
    BY <2>1, FS_Subset
  <2>3. Cardinality(Under(x)) \in Nat
    BY <2>2, FS_CardinalityType
  <2> QED BY <1>1, <2>2, <2>3
<1>3. rank \in [S -> 1..n]
  <2> HIDE DEF Under
  <2> QED BY <1>1, <1>2
<1>4. ASSUME NEW x \in S, NEW y \in S, <<x, y>> \in R
      PROVE  rank[x] < rank[y]
  <2>1. Under(x) \in SUBSET Under(y) /\ x \in Under(y) /\ x \notin Under(x)
    BY <1>4
  <2> HIDE DEF Under
  <2>2. Cardinality(Under(x)) <= Cardinality(Under(y)) /\ Cardinality(Under(y)) # Cardinality(Under(x))
    BY <1>2, <2>1, FS_Subset
  <2>3. Cardinality(Under(x)) < Cardinality(Under(y))
    BY <1>2, <2>2
  <2> QED BY <1>2, <2>3
<1> HIDE DEF rank
<1>5. rank \in Injection(S, 1..n)
  <2> SUFFICES ASSUME NEW x \in S, NEW y \in S, rank[x] = rank[y] PROVE x = y
    BY <1>3 DEF Injection, IsInjective
  <2>1. rank[x] \in Nat /\ ~(rank[x] < rank[y]) /\ ~(rank[y] < rank[x])
    BY <1>3, <1>1
  <2>2. <<x, y>> \notin R /\ <<y, x>> \notin R
    BY <2>1, <1>4
  <2> QED BY <2>2
<1>6. rank \in Surjection(S, 1..n)
  <2>1. IsFiniteSet(1..n) /\ Cardinality(1..n) = n
    BY <1>1, FS_Interval
  <2> QED BY <2>1, <1>5, FS_Injection
<1> DEFINE q == [k \in 1..n |-> CHOOSE x \in S : rank[x] = k]
<1>7. \A k \in 1..n : q[k] \in S /\ rank[q[k]] = k
  BY <1>6 DEF Surjection
<1>8. q \in [1..n -> S]
  BY <1>7
<1> HIDE DEF q
<1>9. ASSUME NEW i \in 1..n, NEW j \in 1..n, i < j
      PROVE  <<q[i], q[j]>> \in R
  <2>1. q[i] \in S /\ q[j] \in S /\ rank[q[i]] = i /\ rank[q[j]] = j
    BY <1>7
  <2>2. ~(j < i) /\ i # j
    BY <1>9
  <2>3. <<q[j], q[i]>> \notin R
    BY <2>1, <2>2, <1>4
  <2>4. q[i] # q[j]
    BY <2>1, <2>2
  <2> QED BY <2>1, <2>3, <2>4
<1> QED BY <1>8, <1>9

\* What a fold over a finite set chooses exists.
Chooser(c, S) == \A T \in SUBSET S : T # {} => c[T] \in T
Within(F, A, S) == \A a \in A, x \in S : F[<<a, x>>] \in A
Folded(g, S, a0, c, F) ==
  \A T \in SUBSET S : g[T] = IF T = {} THEN a0 ELSE F[<<g[T \ {c[T]}], c[T]>>]

LEMMA FoldExists ==
  ASSUME NEW S, IsFiniteSet(S), NEW A, NEW a0 \in A, NEW c, Chooser(c, S),
         NEW F, Within(F, A, S)
  PROVE  \E g \in [SUBSET S -> A] : Folded(g, S, a0, c, F)
<1> USE DEF Chooser, Within, Folded
<1> DEFINE n == Cardinality(S)
           Width(T) == Cardinality(T)
           Eq(g, T) == g[T] = IF T = {} THEN a0 ELSE F[<<g[T \ {c[T]}], c[T]>>]
           Upto(k) == \E g \in [SUBSET S -> A] : \A T \in SUBSET S : Width(T) <= k => Eq(g, T)
           K == {k \in 0..n : Upto(k)}
<1>1. n \in Nat
  BY FS_CardinalityType
<1>2. ASSUME NEW T \in SUBSET S
      PROVE  /\ Width(T) \in 0..n
             /\ Width(T) = 0 <=> T = {}
             /\ T # {} => T \ {c[T]} \in SUBSET S /\ Width(T \ {c[T]}) = Width(T) - 1
  <2>1. IsFiniteSet(T) /\ Width(T) <= n
    BY FS_Subset
  <2>2. Width(T) \in Nat
    BY <2>1, FS_CardinalityType
  <2>3. Width(T) = 0 <=> T = {}
    BY <2>1, FS_EmptySet
  <2>4. T # {} => Width(T \ {c[T]}) = Width(T) - 1
    BY <2>1, FS_RemoveElement
  <2> QED BY <1>1, <2>1, <2>2, <2>3, <2>4
<1> HIDE DEF Width
<1>3. 0 \in K
  <2> DEFINE g == [T \in SUBSET S |-> a0]
  <2>1. g \in [SUBSET S -> A]
    OBVIOUS
  <2>2. ASSUME NEW T \in SUBSET S, Width(T) <= 0 PROVE Eq(g, T)
    <3>1. Width(T) = 0
      <4>1. Width(T) \in 0..n
        BY <1>2
      <4> HIDE DEF n
      <4> QED BY <1>1, <2>2, <4>1
    <3>2. T = {}
      BY <1>2, <3>1
    <3> QED BY <3>2
  <2> HIDE DEF g, Eq
  <2> QED BY <2>1, <2>2, <1>1
<1>4. ASSUME NEW k \in 1..n, k - 1 \in K PROVE k \in K
  <2>1. PICK g \in [SUBSET S -> A] : \A T \in SUBSET S : Width(T) <= k - 1 => Eq(g, T)
    <3> HIDE DEF Eq
    <3> QED BY <1>4
  <2> DEFINE h == [T \in SUBSET S |-> IF T = {} THEN a0 ELSE F[<<g[T \ {c[T]}], c[T]>>]]
  <2>2. h \in [SUBSET S -> A]
    <3> SUFFICES ASSUME NEW T \in SUBSET S, T # {} PROVE F[<<g[T \ {c[T]}], c[T]>>] \in A
      OBVIOUS
    <3>1. c[T] \in S /\ g[T \ {c[T]}] \in A
      BY <1>2
    <3> QED BY <3>1
  <2>3. \A T \in SUBSET S : Width(T) <= k - 1 => h[T] = g[T]
    BY <2>1
  <2>4. ASSUME NEW T \in SUBSET S, Width(T) <= k PROVE Eq(h, T)
    <3>1. CASE T = {}
      BY <3>1
    <3>2. CASE T # {}
      <4> DEFINE U == T \ {c[T]}
      <4>1. U \in SUBSET S /\ Width(U) <= k - 1
        BY <1>1, <1>2, <2>4, <3>2
      <4>2. h[U] = g[U]
        BY <2>3, <4>1
      <4>3. h[T] = F[<<g[U], c[T]>>]
        BY <3>2
      <4> HIDE DEF h
      <4> QED BY <4>2, <4>3, <3>2
    <3> QED BY <3>1, <3>2
  <2> HIDE DEF h, Eq
  <2> QED BY <2>2, <2>4
<1>5. n \in K
  <2> HIDE DEF K
  <2>1. 0..n \subseteq K
    BY <1>1, <1>3, <1>4, IntervalInduction
  <2> QED BY <2>1, <1>1
<1>6. PICK g \in [SUBSET S -> A] : \A T \in SUBSET S : Width(T) <= n => Eq(g, T)
  <2> HIDE DEF Eq
  <2> QED BY <1>5
<1>7. \A T \in SUBSET S : Eq(g, T)
  <2> TAKE T \in SUBSET S
  <2>1. Width(T) \in 0..n
    BY <1>2
  <2> HIDE DEF Eq, n
  <2>2. Width(T) <= n
    BY <1>1, <2>1
  <2> QED BY <1>6, <2>2
<1> QED BY <1>7

LEMMA EventTypes ==
  ASSUME journal \in Seq(Event), NEW i \in DOMAIN journal
  PROVE  /\ journal[i] \in Event
         /\ journal[i].ts \in Stamp /\ journal[i].ts \in Nat
         /\ journal[i].task \in Task
         /\ journal[i].event \in {"start", "end"} /\ journal[i].source \in Sources
<1>1. journal[i] \in Event
  OBVIOUS
<1> QED BY <1>1, TranscriptsAssumption DEF Event

LEMMA Positions ==
  ASSUME journal \in Seq(Event), NEW s
  PROVE  /\ Cardinality(Places(s)) \in Nat
         /\ Order(s) \in [1..Cardinality(Places(s)) -> Places(s)]
         /\ Sorted(Order(s))
         /\ \A i \in Places(s) : \E k \in 1..Cardinality(Places(s)) : Order(s)[k] = i
<1> DEFINE S == Places(s)
           n == Cardinality(S)
           R == {r \in S \X S : Before(r[1], r[2])}
<1>1. IsFiniteSet(S) /\ \A i \in S : i \in DOMAIN journal /\ i \in Nat
  <2>1. S \in SUBSET (1..Len(journal)) /\ Len(journal) \in Nat
    BY DEF Places
  <2>2. IsFiniteSet(1..Len(journal))
    BY <2>1, FS_Interval
  <2> QED BY <2>1, <2>2, FS_Subset
<1>2. n \in Nat
  BY <1>1, FS_CardinalityType
<1>3. \A i \in S : journal[i].ts \in Nat
  BY <1>1, EventTypes
<1>4. \A i, j \in S : <<i, j>> \in R <=> Before(i, j)
  OBVIOUS
<1> HIDE DEF R, S
<1>5. \A x \in S : <<x, x>> \notin R
  BY <1>1, <1>3, <1>4 DEF Before
<1>6. \A x, y, z \in S : <<x, y>> \in R /\ <<y, z>> \in R => <<x, z>> \in R
  BY <1>1, <1>3, <1>4 DEF Before
<1>7. \A x, y \in S : x = y \/ <<x, y>> \in R \/ <<y, x>> \in R
  <2> TAKE x \in S, y \in S
  <2>1. x \in Nat /\ y \in Nat /\ journal[x].ts \in Nat /\ journal[y].ts \in Nat
    BY <1>1, <1>3
  <2>2. x = y \/ Before(x, y) \/ Before(y, x)
    BY <2>1 DEF Before
  <2> QED BY <1>4, <2>2
<1>8. StrictOrder(S, R)
  BY <1>5, <1>6, <1>7 DEF StrictOrder, Irreflexive
<1>9. PICK q \in [1..n -> S] : Ascending(q, n, R)
  BY <1>1, <1>8, SortExists
<1>10. Sorted(q)
  BY <1>4, <1>9 DEF Sorted, Ascending
<1>11. PICK o \in [1..n -> S] : o = Order(s) /\ Sorted(o)
  BY <1>9, <1>10 DEF Order, S
<1>12. Ascending(o, n, R)
  BY <1>4, <1>11 DEF Sorted, Ascending
<1>13. \A x \in S : \E k \in 1..n : o[k] = x
  BY <1>1, <1>8, <1>12, SortedIsOnto DEF StrictOrder
<1> QED BY <1>2, <1>11, <1>13 DEF S

(***************************************************************************)
(* A fold from left to right, as the sequence of its values.               *)
(***************************************************************************)
Acc == [done : Seq(Block), open : Block \cup {None}]
Nothing == [done |-> <<>>, open |-> None]

\* The chooser of FoldLeft.
LEMMA LastChosen ==
  ASSUME NEW n \in Nat
  PROVE  /\ \A T \in SUBSET (1..n) : T # {} => Max(T) \in T
         /\ \A k \in 1..n : 1..k \in SUBSET (1..n) /\ 1..k # {} /\ Max(1..k) = k /\ (1..k) \ {k} = 1..(k - 1)
<1>1. ASSUME NEW T \in SUBSET (1..n), T # {}
      PROVE  Max(T) \in T /\ \A y \in T : Max(T) >= y
  <2>1. T \in SUBSET (0..n)
    OBVIOUS
  <2> QED BY <1>1, <2>1, MaxMember
<1>2. ASSUME NEW k \in 1..n
      PROVE  1..k \in SUBSET (1..n) /\ 1..k # {} /\ Max(1..k) = k /\ (1..k) \ {k} = 1..(k - 1)
  <2>1. 1..k \in SUBSET (1..n) /\ 1..k # {} /\ k \in 1..k /\ (1..k) \ {k} = 1..(k - 1)
    OBVIOUS
  <2>2. Max(1..k) \in 1..k /\ Max(1..k) >= k
    BY <1>1, <2>1
  <2>3. Max(1..k) = k
    BY <2>2
  <2> QED BY <2>1, <2>3
<1> QED BY <1>1, <1>2

FoldOver(ev, g) ==
  g = [T \in SUBSET DOMAIN ev |->
         IF T = {} THEN Nothing ELSE Fold(g[T \ {Max(T)}], ev[Max(T)])]

LEMMA FoldChosen ==
  ASSUME NEW ev, NEW g, FoldOver(ev, g)
  PROVE  \E h : FoldOver(ev, h) /\ FoldLeft(Fold, Nothing, ev) = h[DOMAIN ev]
<1>1. \E h : FoldLeft(Fold, Nothing, ev) = h[DOMAIN ev] /\ h = CHOOSE f : FoldOver(ev, f)
  BY DEF FoldLeft, MapThenFoldSet, FoldOver
<1> QED BY <1>1

ReopenOver(ev, g) ==
  g = [T \in SUBSET DOMAIN ev |->
         IF T = {} THEN None ELSE Reopen(g[T \ {Max(T)}], ev[Max(T)])]

LEMMA ReopenChosen ==
  ASSUME NEW ev, NEW g, ReopenOver(ev, g)
  PROVE  \E h : ReopenOver(ev, h) /\ FoldLeft(Reopen, None, ev) = h[DOMAIN ev]
<1>1. \E h : FoldLeft(Reopen, None, ev) = h[DOMAIN ev] /\ h = CHOOSE f : ReopenOver(ev, f)
  BY DEF FoldLeft, MapThenFoldSet, ReopenOver
<1> QED BY <1>1

LEMMA FoldType ==
  ASSUME NEW acc \in Acc, NEW e \in Event
  PROVE  Fold(acc, e) \in Acc
<1> DEFINE closed == [acc.open EXCEPT !.to = e.ts]
           opened == [task |-> e.task, from |-> e.ts, to |-> 0, source |-> e.source]
<1>1. opened \in Block
  BY DEF Event, Block
<1>2. acc.done \in Seq(Block) /\ acc.open \in Block \cup {None}
  BY DEF Acc
<1>3. acc.open # None => closed \in Block
  BY <1>2 DEF Event, Block
<1> HIDE DEF closed, opened
<1>4. acc.open # None => Append(acc.done, closed) \in Seq(Block)
  BY <1>2, <1>3
<1> QED BY <1>1, <1>2, <1>4 DEF Fold, Acc, closed, opened

LEMMA FoldSteps ==
  ASSUME NEW n \in Nat, NEW ev \in [1..n -> Event]
  PROVE  \E acc \in [0..n -> Acc] :
           /\ acc[0] = Nothing /\ acc[n] = FoldLeft(Fold, Nothing, ev)
           /\ \A k \in 1..n : acc[k] = Fold(acc[k - 1], ev[k])
<1> DEFINE S == 1..n
           c == [T \in SUBSET S |-> Max(T)]
           F == [p \in Acc \X S |-> Fold(p[1], ev[p[2]])]
<1>1. IsFiniteSet(S) /\ DOMAIN ev = S
  BY FS_Interval
<1>2. Nothing \in Acc
  BY DEF Nothing, Acc
<1>3. \A T \in SUBSET S : T # {} => c[T] \in T
  BY LastChosen
<1>4. \A a \in Acc, x \in S : F[<<a, x>>] = Fold(a, ev[x]) /\ F[<<a, x>>] \in Acc
  BY FoldType
<1>5. \A T \in SUBSET S : c[T] = Max(T)
  OBVIOUS
<1> HIDE DEF c, F
<1>6. PICK g \in [SUBSET S -> Acc] : Folded(g, S, Nothing, c, F)
  <2>1. Chooser(c, S) /\ Within(F, Acc, S)
    BY <1>3, <1>4 DEF Chooser, Within
  <2> HIDE DEF S
  <2> QED BY <1>1, <1>2, <2>1, FoldExists
<1>7. FoldOver(ev, g)
  <2>1. ASSUME NEW T \in SUBSET S, T # {}
        PROVE  F[<<g[T \ {c[T]}], c[T]>>] = Fold(g[T \ {Max(T)}], ev[Max(T)])
    <3>1. c[T] \in S /\ T \ {c[T]} \in SUBSET S /\ c[T] = Max(T)
      BY <1>3, <1>5, <2>1
    <3>2. g[T \ {c[T]}] \in Acc
      BY <3>1
    <3> QED BY <1>4, <3>1, <3>2
  <2>2. g = [T \in SUBSET S |-> IF T = {} THEN Nothing ELSE Fold(g[T \ {Max(T)}], ev[Max(T)])]
    BY <1>6, <2>1 DEF Folded
  <2> QED BY <1>1, <2>2 DEF FoldOver
<1>8. PICK h : FoldOver(ev, h) /\ FoldLeft(Fold, Nothing, ev) = h[DOMAIN ev]
  BY <1>7, FoldChosen
<1>9. h = [T \in SUBSET S |-> IF T = {} THEN Nothing ELSE Fold(h[T \ {Max(T)}], ev[Max(T)])]
  BY <1>1, <1>8 DEF FoldOver
<1> DEFINE acc == [k \in 0..n |-> h[1..k]]
<1>10. acc[0] = Nothing
  <2>1. 1..0 = {}
    OBVIOUS
  <2> QED BY <1>9, <2>1
<1>11. ASSUME NEW k \in 1..n PROVE acc[k] = Fold(acc[k - 1], ev[k])
  <2>1. 1..k \in SUBSET S /\ 1..k # {} /\ Max(1..k) = k /\ (1..k) \ {k} = 1..(k - 1)
    BY LastChosen
  <2>2. h[1..k] = Fold(h[1..(k - 1)], ev[k])
    BY <1>9, <2>1
  <2>3. k \in 0..n /\ k - 1 \in 0..n
    OBVIOUS
  <2> QED BY <2>2, <2>3
<1>12. acc[n] = FoldLeft(Fold, Nothing, ev)
  BY <1>1, <1>8
<1>13. acc \in [0..n -> Acc]
  <2> DEFINE K == {k \in 0..n : acc[k] \in Acc}
  <2> HIDE DEF acc
  <2>1. 0 \in K
    BY <1>2, <1>10
  <2>2. ASSUME NEW k \in 1..n, k - 1 \in K PROVE k \in K
    BY <1>11, <2>2, FoldType
  <2>3. 0..n \subseteq K
    <3> HIDE DEF K
    <3> QED BY <2>1, <2>2, IntervalInduction
  <2>4. acc = [k \in 0..n |-> acc[k]]
    BY DEF acc
  <2> QED BY <2>3, <2>4
<1> HIDE DEF acc
<1> QED BY <1>10, <1>11, <1>12, <1>13

LEMMA ReopenSteps ==
  ASSUME NEW n \in Nat, NEW ev \in [1..n -> Event]
  PROVE  \E acc \in [0..n -> Event \cup {None}] :
           /\ acc[0] = None /\ acc[n] = FoldLeft(Reopen, None, ev)
           /\ \A k \in 1..n : acc[k] = Reopen(acc[k - 1], ev[k])
<1> DEFINE S == 1..n
           A == Event \cup {None}
           c == [T \in SUBSET S |-> Max(T)]
           F == [p \in A \X S |-> Reopen(p[1], ev[p[2]])]
<1>1. IsFiniteSet(S) /\ DOMAIN ev = S
  BY FS_Interval
<1>2. None \in A
  OBVIOUS
<1>3. \A T \in SUBSET S : T # {} => c[T] \in T
  BY LastChosen
<1>4. \A a \in A, x \in S : F[<<a, x>>] = Reopen(a, ev[x]) /\ F[<<a, x>>] \in A
  BY DEF Reopen
<1>5. \A T \in SUBSET S : c[T] = Max(T)
  OBVIOUS
<1>6. \A a \in A, x \in S : Reopen(a, ev[x]) \in A
  BY DEF Reopen
<1> HIDE DEF c, F, A
<1>7. PICK g \in [SUBSET S -> A] : Folded(g, S, None, c, F)
  <2>1. Chooser(c, S) /\ Within(F, A, S)
    BY <1>3, <1>4 DEF Chooser, Within
  <2> HIDE DEF S
  <2> QED BY <1>1, <1>2, <2>1, FoldExists
<1>8. ReopenOver(ev, g)
  <2>1. ASSUME NEW T \in SUBSET S, T # {}
        PROVE  F[<<g[T \ {c[T]}], c[T]>>] = Reopen(g[T \ {Max(T)}], ev[Max(T)])
    <3>1. c[T] \in S /\ T \ {c[T]} \in SUBSET S /\ c[T] = Max(T)
      BY <1>3, <1>5, <2>1
    <3>2. g[T \ {c[T]}] \in A
      BY <3>1
    <3> QED BY <1>4, <3>1, <3>2
  <2>2. g = [T \in SUBSET S |-> IF T = {} THEN None ELSE Reopen(g[T \ {Max(T)}], ev[Max(T)])]
    BY <1>7, <2>1 DEF Folded
  <2> QED BY <1>1, <2>2 DEF ReopenOver
<1>9. PICK h : ReopenOver(ev, h) /\ FoldLeft(Reopen, None, ev) = h[DOMAIN ev]
  BY <1>8, ReopenChosen
<1>10. h = [T \in SUBSET S |-> IF T = {} THEN None ELSE Reopen(h[T \ {Max(T)}], ev[Max(T)])]
  BY <1>1, <1>9 DEF ReopenOver
<1> DEFINE acc == [k \in 0..n |-> h[1..k]]
<1>11. acc[0] = None
  <2>1. 1..0 = {}
    OBVIOUS
  <2> QED BY <1>10, <2>1
<1>12. ASSUME NEW k \in 1..n PROVE acc[k] = Reopen(acc[k - 1], ev[k])
  <2>1. 1..k \in SUBSET S /\ 1..k # {} /\ Max(1..k) = k /\ (1..k) \ {k} = 1..(k - 1)
    BY LastChosen
  <2>2. h[1..k] = Reopen(h[1..(k - 1)], ev[k])
    BY <1>10, <2>1
  <2>3. k \in 0..n /\ k - 1 \in 0..n
    OBVIOUS
  <2> QED BY <2>2, <2>3
<1>13. acc[n] = FoldLeft(Reopen, None, ev)
  BY <1>1, <1>9
<1>14. acc \in [0..n -> A]
  <2> DEFINE K == {k \in 0..n : acc[k] \in A}
  <2> HIDE DEF acc
  <2>1. 0 \in K
    BY <1>2, <1>11
  <2>2. ASSUME NEW k \in 1..n, k - 1 \in K PROVE k \in K
    BY <1>12, <2>2, <1>6
  <2>3. 0..n \subseteq K
    <3> HIDE DEF K
    <3> QED BY <2>1, <2>2, IntervalInduction
  <2>4. acc = [k \in 0..n |-> acc[k]]
    BY DEF acc
  <2> QED BY <2>3, <2>4
<1> HIDE DEF acc
<1> QED BY <1>11, <1>12, <1>13, <1>14 DEF A

(***************************************************************************)
(* The blocks of a session.                                                *)
(***************************************************************************)
Shuts(ev, j, i) == ev[j].event = "start" \/ ev[j].task = ev[i].task

\* The start at place i is open after k events; is shut by the event at place j.
OpenAt(ev, k, i) ==
  i \in 1..k /\ ev[i].event = "start" /\ \A j \in (i + 1)..k : ~Shuts(ev, j, i)
ShutAt(ev, i, j) == i < j /\ OpenAt(ev, j - 1, i) /\ Shuts(ev, j, i)
Span(e, to) == [task |-> e.task, from |-> e.ts, to |-> to, source |-> e.source]

\* After k events: the open block is the start that is open, and what is done are the
\* starts that are shut, each up to the event that shuts it.
FoldInv(ev, k, acc) ==
  /\ acc.open # None => \E i \in 1..k : OpenAt(ev, k, i) /\ acc.open = Span(ev[i], 0)
  /\ \A i \in 1..k : OpenAt(ev, k, i) => acc.open = Span(ev[i], 0)
  /\ \A d \in Range(acc.done) :
       \E i \in 1..k, j \in 1..k : ShutAt(ev, i, j) /\ d = Span(ev[i], ev[j].ts)
  /\ \A i \in 1..k, j \in 1..k : ShutAt(ev, i, j) => Span(ev[i], ev[j].ts) \in Range(acc.done)

LEMMA OpenMoves ==
  ASSUME NEW n \in Nat, NEW ev \in [1..n -> Event], NEW k \in 1..n
  PROVE  /\ OpenAt(ev, k, k) <=> ev[k].event = "start"
         /\ \A i \in 1..(k - 1) : OpenAt(ev, k, i) <=> OpenAt(ev, k - 1, i) /\ ~Shuts(ev, k, i)
         /\ \A i \in 1..k : ShutAt(ev, i, k) <=> OpenAt(ev, k - 1, i) /\ Shuts(ev, k, i)
         /\ \A i \in 1..k, j \in 1..(k - 1) : ShutAt(ev, i, j) => i \in 1..(k - 1)
<1>1. OpenAt(ev, k, k) <=> ev[k].event = "start"
  BY DEF OpenAt
<1>2. ASSUME NEW i \in 1..(k - 1)
      PROVE  OpenAt(ev, k, i) <=> OpenAt(ev, k - 1, i) /\ ~Shuts(ev, k, i)
  <2>1. (i + 1)..k = ((i + 1)..(k - 1)) \cup {k}
    OBVIOUS
  <2> QED BY <2>1 DEF OpenAt
<1>3. \A i \in 1..k : ShutAt(ev, i, k) <=> OpenAt(ev, k - 1, i) /\ Shuts(ev, k, i)
  BY DEF ShutAt, OpenAt
<1>4. \A i \in 1..k, j \in 1..(k - 1) : ShutAt(ev, i, j) => i \in 1..(k - 1)
  BY DEF ShutAt
<1> QED BY <1>1, <1>2, <1>3, <1>4

LEMMA AppendRange ==
  ASSUME NEW A, NEW s \in Seq(A), NEW x \in A
  PROVE  Range(Append(s, x)) = Range(s) \cup {x}
<1>1. Append(s, x) \in Seq(A) /\ Len(Append(s, x)) = Len(s) + 1
  OBVIOUS
<1>2. DOMAIN s = 1..Len(s) /\ DOMAIN Append(s, x) = 1..(Len(s) + 1) /\ Len(s) \in Nat
  BY <1>1
<1>3. \A i \in 1..Len(s) : Append(s, x)[i] = s[i]
  OBVIOUS
<1>4. Append(s, x)[Len(s) + 1] = x
  OBVIOUS
<1> QED BY <1>2, <1>3, <1>4 DEF Range

LEMMA FoldKeeps ==
  ASSUME NEW n \in Nat, NEW ev \in [1..n -> Event], NEW k \in 1..n, NEW acc \in Acc,
         FoldInv(ev, k - 1, acc)
  PROVE  FoldInv(ev, k, Fold(acc, ev[k]))
<1> DEFINE e == ev[k]
           new == Fold(acc, e)
           shut == [acc.open EXCEPT !.to = e.ts]
           closing == acc.open # None /\ Closes(acc.open, e)
<1>1. e \in Event /\ \A i \in 1..k : ev[i] \in Event
  OBVIOUS
<1>2. acc.done \in Seq(Block) /\ acc.open \in Block \cup {None}
  BY DEF Acc
<1>3. \A i \in 1..k : Span(ev[i], 0) # None
  <2>1. \A i \in 1..k : Span(ev[i], 0) \in Block
    BY <1>1 DEF Span, Block, Event
  <2> QED BY <2>1, UsageAssumption
<1>4. \A i \in 1..(k - 1) : OpenAt(ev, k - 1, i) => 
         /\ acc.open # None /\ acc.open = Span(ev[i], 0)
         /\ Closes(acc.open, e) <=> Shuts(ev, k, i)
         /\ shut = Span(ev[i], e.ts)
  BY <1>3 DEF FoldInv, Span, Closes, Shuts
<1>5. acc.open # None => \E i \in 1..(k - 1) : OpenAt(ev, k - 1, i)
  BY DEF FoldInv
<1>6. closing => shut \in Block
  BY <1>1, <1>2 DEF Block, Event
<1>7. new.done = (IF closing THEN Append(acc.done, shut) ELSE acc.done)
  BY DEF Fold
<1>8. new.open = IF e.event = "start" THEN Span(e, 0) ELSE IF closing THEN None ELSE acc.open
  BY DEF Fold, Span
<1>9. Range(new.done) = Range(acc.done) \cup (IF closing THEN {shut} ELSE {})
  <2> HIDE DEF new, shut, closing
  <2> QED BY <1>2, <1>6, <1>7, AppendRange
<1>10. \A i \in 1..(k - 1) : OpenAt(ev, k - 1, i) /\ Shuts(ev, k, i) =>
          closing /\ shut = Span(ev[i], e.ts)
  BY <1>4
<1>11. closing => \E i \in 1..(k - 1) : OpenAt(ev, k - 1, i) /\ Shuts(ev, k, i)
  BY <1>4, <1>5
<1> HIDE DEF new, shut, closing
<1>12. ASSUME NEW i \in 1..k, OpenAt(ev, k, i)
       PROVE  new.open = Span(ev[i], 0)
  <2>1. CASE i = k
    BY <1>8, <1>12, <2>1, OpenMoves
  <2>2. CASE i # k
    <3>1. i \in 1..(k - 1)
      BY <2>2
    <3>2. OpenAt(ev, k - 1, i) /\ ~Shuts(ev, k, i)
      BY <1>12, <3>1, OpenMoves
    <3>3. e.event # "start" /\ ~closing
      BY <1>4, <3>1, <3>2 DEF Shuts, closing
    <3> QED BY <1>4, <1>8, <3>1, <3>2, <3>3
  <2> QED BY <2>1, <2>2
<1>13. ASSUME new.open # None
       PROVE  \E i \in 1..k : OpenAt(ev, k, i) /\ new.open = Span(ev[i], 0)
  <2>1. CASE e.event = "start"
    <3>1. OpenAt(ev, k, k) /\ k \in 1..k
      BY <2>1, OpenMoves
    <3> QED BY <1>8, <2>1, <3>1
  <2>2. CASE e.event # "start"
    <3>1. ~closing /\ new.open = acc.open
      BY <1>8, <1>13, <2>2
    <3>2. PICK i \in 1..(k - 1) : OpenAt(ev, k - 1, i)
      BY <1>5, <1>13, <3>1
    <3>3. ~Shuts(ev, k, i) /\ new.open = Span(ev[i], 0)
      BY <1>4, <1>10, <3>1, <3>2
    <3>4. OpenAt(ev, k, i)
      BY <3>2, <3>3, OpenMoves
    <3> QED BY <3>3, <3>4
  <2> QED BY <2>1, <2>2
<1>14. ASSUME NEW d \in Range(new.done)
       PROVE  \E i \in 1..k, j \in 1..k : ShutAt(ev, i, j) /\ d = Span(ev[i], ev[j].ts)
  <2>1. CASE d \in Range(acc.done)
    <3>1. PICK i \in 1..(k - 1), j \in 1..(k - 1) : ShutAt(ev, i, j) /\ d = Span(ev[i], ev[j].ts)
      BY <2>1 DEF FoldInv
    <3> QED BY <3>1
  <2>2. CASE closing /\ d = shut
    <3>1. PICK i \in 1..(k - 1) : OpenAt(ev, k - 1, i) /\ Shuts(ev, k, i)
      BY <1>11, <2>2
    <3>2. i \in 1..k /\ k \in 1..k /\ ShutAt(ev, i, k)
      BY <3>1, OpenMoves
    <3>3. d = Span(ev[i], ev[k].ts)
      BY <1>10, <2>2, <3>1
    <3> QED BY <3>2, <3>3
  <2> QED BY <1>9, <2>1, <2>2
<1>15. ASSUME NEW i \in 1..k, NEW j \in 1..k, ShutAt(ev, i, j)
       PROVE  Span(ev[i], ev[j].ts) \in Range(new.done)
  <2>1. CASE j = k
    <3>1. OpenAt(ev, k - 1, i) /\ Shuts(ev, k, i) /\ i \in 1..(k - 1)
      BY <1>15, <2>1, OpenMoves DEF ShutAt
    <3> QED BY <1>9, <1>10, <2>1, <3>1
  <2>2. CASE j # k
    <3>1. j \in 1..(k - 1)
      BY <2>2
    <3>2. i \in 1..(k - 1)
      BY <1>15, <3>1, OpenMoves
    <3>3. Span(ev[i], ev[j].ts) \in Range(acc.done)
      BY <1>15, <3>1, <3>2 DEF FoldInv
    <3> QED BY <1>9, <3>3
  <2> QED BY <2>1, <2>2
<1>16. FoldInv(ev, k, new)
  BY <1>12, <1>13, <1>14, <1>15 DEF FoldInv
<1> QED BY <1>16 DEF new

LEMMA FoldEnds ==
  ASSUME NEW n \in Nat, NEW ev \in [1..n -> Event]
  PROVE  /\ FoldLeft(Fold, Nothing, ev) \in Acc
         /\ FoldInv(ev, n, FoldLeft(Fold, Nothing, ev))
<1>1. PICK acc \in [0..n -> Acc] :
        /\ acc[0] = Nothing /\ acc[n] = FoldLeft(Fold, Nothing, ev)
        /\ \A k \in 1..n : acc[k] = Fold(acc[k - 1], ev[k])
  BY FoldSteps
<1> DEFINE K == {k \in 0..n : FoldInv(ev, k, acc[k])}
<1>2. 0 \in K
  <2>1. FoldInv(ev, 0, Nothing)
    BY DEF FoldInv, Nothing, Range
  <2> QED BY <1>1, <2>1
<1>3. ASSUME NEW k \in 1..n, k - 1 \in K PROVE k \in K
  <2>1. k - 1 \in 0..n /\ k \in 0..n
    OBVIOUS
  <2>2. PICK a \in Acc : a = acc[k - 1]
    BY <2>1
  <2>3. FoldInv(ev, k - 1, a)
    BY <1>3, <2>2
  <2>4. FoldInv(ev, k, Fold(a, ev[k]))
    BY <2>3, FoldKeeps
  <2> QED BY <1>1, <2>1, <2>2, <2>4
<1>4. 0..n \subseteq K
  <2> HIDE DEF K
  <2> QED BY <1>2, <1>3, IntervalInduction
<1>5. n \in K /\ acc[n] \in Acc
  BY <1>4
<1> QED BY <1>1, <1>5

\* The fold of the keep-awake worker holds the start that is open.
ReopenInv(ev, k, open) ==
  /\ open # None => \E i \in 1..k : OpenAt(ev, k, i) /\ open = ev[i]
  /\ \A i \in 1..k : OpenAt(ev, k, i) => open = ev[i]

LEMMA ReopenKeeps ==
  ASSUME NEW n \in Nat, NEW ev \in [1..n -> Event], NEW k \in 1..n, NEW open,
         ReopenInv(ev, k - 1, open)
  PROVE  ReopenInv(ev, k, Reopen(open, ev[k]))
<1> DEFINE e == ev[k]
           new == Reopen(open, e)
<1>1. \A i \in 1..k : ev[i] # None
  BY UsageAssumption
<1>2. \A i \in 1..(k - 1) : OpenAt(ev, k - 1, i) => open = ev[i] /\ open # None
  BY <1>1 DEF ReopenInv
<1>3. new = IF e.event = "start" THEN e
            ELSE IF open # None /\ open.task = e.task THEN None ELSE open
  BY DEF Reopen
<1> HIDE DEF new
<1>4. ASSUME NEW i \in 1..k, OpenAt(ev, k, i)
      PROVE  new = ev[i]
  <2>1. CASE i = k
    BY <1>3, <1>4, <2>1, OpenMoves
  <2>2. CASE i # k
    <3>1. i \in 1..(k - 1)
      BY <2>2
    <3>2. OpenAt(ev, k - 1, i) /\ ~Shuts(ev, k, i)
      BY <1>4, <3>1, OpenMoves
    <3> QED BY <1>2, <1>3, <3>1, <3>2 DEF Shuts
  <2> QED BY <2>1, <2>2
<1>5. ASSUME new # None
      PROVE  \E i \in 1..k : OpenAt(ev, k, i) /\ new = ev[i]
  <2>1. CASE e.event = "start"
    <3>1. OpenAt(ev, k, k) /\ k \in 1..k
      BY <2>1, OpenMoves
    <3> QED BY <1>3, <2>1, <3>1
  <2>2. CASE e.event # "start"
    <3>1. new = open /\ open.task # e.task
      BY <1>3, <1>5, <2>2
    <3>2. PICK i \in 1..(k - 1) : OpenAt(ev, k - 1, i) /\ open = ev[i]
      BY <1>5, <3>1 DEF ReopenInv
    <3>3. OpenAt(ev, k, i)
      BY <2>2, <3>1, <3>2, OpenMoves DEF Shuts
    <3> QED BY <3>1, <3>2, <3>3
  <2> QED BY <2>1, <2>2
<1>6. ReopenInv(ev, k, new)
  BY <1>4, <1>5 DEF ReopenInv
<1> QED BY <1>6 DEF new

LEMMA ReopenEnds ==
  ASSUME NEW n \in Nat, NEW ev \in [1..n -> Event]
  PROVE  ReopenInv(ev, n, FoldLeft(Reopen, None, ev))
<1>1. PICK acc \in [0..n -> Event \cup {None}] :
        /\ acc[0] = None /\ acc[n] = FoldLeft(Reopen, None, ev)
        /\ \A k \in 1..n : acc[k] = Reopen(acc[k - 1], ev[k])
  BY ReopenSteps
<1> DEFINE K == {k \in 0..n : ReopenInv(ev, k, acc[k])}
<1>2. 0 \in K
  <2>1. ReopenInv(ev, 0, None)
    BY DEF ReopenInv
  <2> QED BY <1>1, <2>1
<1>3. ASSUME NEW k \in 1..n, k - 1 \in K PROVE k \in K
  <2>1. ReopenInv(ev, k - 1, acc[k - 1])
    BY <1>3
  <2>2. ReopenInv(ev, k, Reopen(acc[k - 1], ev[k]))
    BY <2>1, ReopenKeeps
  <2> QED BY <1>1, <2>2
<1>4. 0..n \subseteq K
  <2> HIDE DEF K
  <2> QED BY <1>2, <1>3, IntervalInduction
<1>5. n \in K
  BY <1>4
<1> QED BY <1>1, <1>5

(***************************************************************************)
(* The places of the folds are events of the journal.                      *)
(***************************************************************************)
Many(s) == Cardinality(Places(s))

LEMMA EventsType ==
  ASSUME journal \in Seq(Event), NEW s
  PROVE  /\ Many(s) \in Nat
         /\ EventsOf(s) \in [1..Many(s) -> Event]
         /\ \A k \in 1..Many(s) : Order(s)[k] \in Places(s) /\ EventsOf(s)[k] = journal[Order(s)[k]]
         /\ \A i \in Places(s) : \E k \in 1..Many(s) : Order(s)[k] = i
<1>1. PICK q \in [1..Many(s) -> Places(s)] : q = Order(s)
  BY Positions DEF Many
<1>2. \A i \in Places(s) : journal[i] \in Event
  BY EventTypes DEF Places
<1>3. \A k \in 1..Many(s) : q[k] \in Places(s)
  OBVIOUS
<1>4. EventsOf(s) = [k \in 1..Many(s) |-> journal[q[k]]]
  BY <1>1 DEF EventsOf
<1> QED BY <1>1, <1>2, <1>3, <1>4, Positions DEF Many

\* The journal is sorted as the places are.
LEMMA PlaceOrder ==
  ASSUME journal \in Seq(Event), NEW s, NEW i \in 1..Many(s), NEW j \in 1..Many(s)
  PROVE  /\ Before(Order(s)[i], Order(s)[j]) <=> i < j
         /\ i <= j => EventsOf(s)[i].ts <= EventsOf(s)[j].ts
<1> DEFINE q == Order(s)
<1>1. q \in [1..Many(s) -> Places(s)] /\ Sorted(q) /\ Many(s) \in Nat
  BY Positions DEF Many
<1> HIDE DEF q
<1>2. /\ q[i] \in Places(s) /\ q[j] \in Places(s)
      /\ i < j => Before(q[i], q[j])
      /\ j < i => Before(q[j], q[i])
  BY <1>1 DEF Sorted
<1>3. /\ q[i] \in Nat /\ q[j] \in Nat
      /\ journal[q[i]].ts \in Nat /\ journal[q[j]].ts \in Nat
  BY <1>2, EventTypes DEF Places
<1>4. ~(Before(q[i], q[j]) /\ Before(q[j], q[i])) /\ ~Before(q[i], q[i])
  BY <1>3 DEF Before
<1>5. i < j \/ j < i \/ i = j
  BY <1>1
<1>6. Before(q[i], q[j]) <=> i < j
  BY <1>1, <1>2, <1>4, <1>5
<1>7. i <= j => journal[q[i]].ts <= journal[q[j]].ts
  <2>1. i <= j => i = j \/ Before(q[i], q[j])
    BY <1>2
  <2> QED BY <1>3, <2>1 DEF Before
<1> QED BY <1>6, <1>7, EventsType DEF q

LEMMA EndsShuts ==
  ASSUME journal \in Seq(Event), NEW s, NEW i \in 1..Many(s), NEW j \in 1..Many(s)
  PROVE  Ends(Order(s)[j], Order(s)[i]) <=> i < j /\ Shuts(EventsOf(s), j, i)
<1>1. /\ Order(s)[i] \in Places(s) /\ EventsOf(s)[i] = journal[Order(s)[i]]
      /\ Order(s)[j] \in Places(s) /\ EventsOf(s)[j] = journal[Order(s)[j]]
  BY EventsType
<1> QED BY <1>1, PlaceOrder DEF Ends, Shuts, Places

\* An end of an event is an event of its session.
LEMMA EndsPlaces ==
  ASSUME journal \in Seq(Event), NEW s, NEW i \in 1..Many(s), NEW l \in DOMAIN journal,
         Ends(l, Order(s)[i])
  PROVE  \E j \in (i + 1)..Many(s) : Order(s)[j] = l /\ Shuts(EventsOf(s), j, i)
<1>1. Order(s)[i] \in Places(s)
  BY EventsType
<1>2. l \in Places(s)
  BY <1>1 DEF Ends, Places
<1>3. PICK j \in 1..Many(s) : Order(s)[j] = l
  BY <1>2, EventsType
<1>4. i < j /\ Shuts(EventsOf(s), j, i)
  BY <1>3, EndsShuts
<1>5. j \in (i + 1)..Many(s)
  BY <1>4, EventsType
<1> QED BY <1>3, <1>4, <1>5

\* A start that nothing ends is one that the fold leaves open.
LEMMA OpenIsUnended ==
  ASSUME journal \in Seq(Event), NEW s, NEW i \in 1..Many(s)
  PROVE  OpenAt(EventsOf(s), Many(s), i) <=>
           Order(s)[i] \in StartsOf(s) /\ \A l \in DOMAIN journal : ~Ends(l, Order(s)[i])
<1> DEFINE n == Many(s)
           a == Order(s)[i]
<1>1. a \in Places(s) /\ EventsOf(s)[i] = journal[a] /\ n \in Nat
  BY EventsType
<1>2. a \in StartsOf(s) <=> EventsOf(s)[i].event = "start"
  BY <1>1 DEF StartsOf, Places
<1>3. ASSUME NEW l \in DOMAIN journal, Ends(l, a), OpenAt(EventsOf(s), n, i)
      PROVE  FALSE
  <2>1. PICK j \in (i + 1)..n : Shuts(EventsOf(s), j, i)
    BY <1>3, EndsPlaces
  <2> QED BY <1>3, <2>1 DEF OpenAt
<1>4. ASSUME NEW j \in (i + 1)..n, Shuts(EventsOf(s), j, i)
      PROVE  Order(s)[j] \in DOMAIN journal /\ Ends(Order(s)[j], a)
  <2>1. j \in 1..n /\ i < j
    BY <1>1
  <2> QED BY <1>4, <2>1, EndsShuts, EventsType DEF Places
<1> QED BY <1>1, <1>2, <1>3, <1>4 DEF OpenAt

\* A finite set of numbers has a greatest member.
LEMMA FiniteMax ==
  ASSUME NEW S \in SUBSET Nat, IsFiniteSet(S), S # {}
  PROVE  Max(S) \in S /\ \A y \in S : Max(S) >= y
<1> DEFINE g == [x \in S |-> x]
<1>1. g \in [S -> Nat]
  OBVIOUS
<1>2. PICK b \in Nat : \A x \in S : g[x] <= b
  <2> HIDE DEF g
  <2> QED BY <1>1, FamilyBound
<1>3. S \in SUBSET (0..b)
  BY <1>2
<1> QED BY <1>3, MaxMember

LEMMA MessageTypes ==
  ASSUME Typed, NEW s
  PROVE  /\ IsFiniteSet(Messages(s)) /\ Messages(s) \in SUBSET Id
         /\ \A x \in Messages(s) : rows["usage"][x] \in Row /\ rows["usage"][x].at \in Times(s)
         /\ IsFiniteSet(Times(s)) /\ Times(s) \in SUBSET Stamp
<1>1. Messages(s) \in SUBSET Id /\ IsFiniteSet(Messages(s))
  BY UsageAssumption, FS_Subset DEF Messages
<1>2. ASSUME NEW x \in Messages(s)
      PROVE  rows["usage"][x] \in Row /\ rows["usage"][x].at \in Stamp
  <2>1. x \in Id /\ rows["usage"][x] # None
    BY DEF Messages
  <2>2. rows["usage"][x] \in Row
    BY <2>1 DEF Typed, Tables
  <2> QED BY <2>2 DEF Row
<1> DEFINE f == [x \in Messages(s) |-> rows["usage"][x].at]
<1>3. f \in Surjection(Messages(s), Times(s))
  BY DEF Surjection, Times
<1>4. IsFiniteSet(Times(s))
  <2> HIDE DEF f
  <2> QED BY <1>1, <1>3, FS_Surjection
<1> QED BY <1>1, <1>2, <1>4 DEF Times

\* When a block that is still open is taken to end.
EndOf(s, from) == Max(Times(s) \cup {from})

LEMMA EndOfType ==
  ASSUME Typed, NEW s, NEW from \in Stamp
  PROVE  /\ EndOf(s, from) \in Stamp
         /\ \A y \in Times(s) : EndOf(s, from) >= y
<1> DEFINE T == Times(s) \cup {from}
<1>1. T \in SUBSET Stamp /\ T # {} /\ IsFiniteSet(T) /\ Times(s) \subseteq T
  BY MessageTypes, FS_AddElement
<1>2. T \in SUBSET Nat
  BY <1>1, TranscriptsAssumption
<1>3. EndOf(s, from) = Max(T)
  BY DEF EndOf
<1> HIDE DEF T
<1>4. Max(T) \in T /\ \A y \in T : Max(T) >= y
  BY <1>1, <1>2, FiniteMax
<1> QED BY <1>1, <1>3, <1>4

\* The blocks of a session are its starts: those that an event shuts, up to this event,
\* and the one that is open, up to the last message.
LEMMA BlocksAre ==
  ASSUME Typed, journal \in Seq(Event), NEW s
  PROVE  /\ \A b \in Range(Blocks(s)) : \E i \in 1..Many(s) :
              \/ /\ OpenAt(EventsOf(s), Many(s), i)
                 /\ b = Span(EventsOf(s)[i], EndOf(s, EventsOf(s)[i].ts))
              \/ \E j \in 1..Many(s) :
                   ShutAt(EventsOf(s), i, j) /\ b = Span(EventsOf(s)[i], EventsOf(s)[j].ts)
         /\ \A i \in 1..Many(s) : OpenAt(EventsOf(s), Many(s), i) =>
              Span(EventsOf(s)[i], EndOf(s, EventsOf(s)[i].ts)) \in Range(Blocks(s))
         /\ \A i, j \in 1..Many(s) : ShutAt(EventsOf(s), i, j) =>
              Span(EventsOf(s)[i], EventsOf(s)[j].ts) \in Range(Blocks(s))
<1>1. PICK n \in Nat : n = Many(s)
  BY EventsType
<1>2. PICK ev \in [1..n -> Event] : ev = EventsOf(s)
  BY <1>1, EventsType
<1>3. PICK acc \in Acc : acc = FoldLeft(Fold, Nothing, ev) /\ FoldInv(ev, n, acc)
  BY FoldEnds
<1> DEFINE last == [acc.open EXCEPT !.to = EndOf(s, acc.open.from)]
<1>4. Blocks(s) = IF acc.open = None THEN acc.done ELSE Append(acc.done, last)
  BY <1>2, <1>3 DEF Blocks, Nothing, EndOf
<1>5. acc.done \in Seq(Block) /\ acc.open \in Block \cup {None}
  BY DEF Acc
<1>6. acc.open # None => last \in Block
  <2> SUFFICES ASSUME acc.open # None PROVE last \in Block
    OBVIOUS
  <2>1. acc.open.from \in Stamp
    BY <1>5 DEF Block
  <2>2. EndOf(s, acc.open.from) \in Stamp
    BY <2>1, EndOfType
  <2> QED BY <1>5, <2>2 DEF Block
<1>7. ASSUME NEW i \in 1..n
      PROVE  Span(ev[i], 0) # None /\ (acc.open = Span(ev[i], 0) =>
               last = Span(ev[i], EndOf(s, ev[i].ts)))
  <2>1. Span(ev[i], 0) \in Block
    BY DEF Span, Block, Event
  <2>2. Span(ev[i], 0).from = ev[i].ts
    BY DEF Span
  <2>3. [Span(ev[i], 0) EXCEPT !.to = EndOf(s, ev[i].ts)] = Span(ev[i], EndOf(s, ev[i].ts))
    BY DEF Span
  <2> QED BY <2>1, <2>2, <2>3, UsageAssumption
<1> HIDE DEF last
<1>8. Range(Blocks(s)) = Range(acc.done) \cup (IF acc.open = None THEN {} ELSE {last})
  BY <1>4, <1>5, <1>6, AppendRange
<1>9. ASSUME NEW b \in Range(Blocks(s))
      PROVE  \E i \in 1..n :
               \/ OpenAt(ev, n, i) /\ b = Span(ev[i], EndOf(s, ev[i].ts))
               \/ \E j \in 1..n : ShutAt(ev, i, j) /\ b = Span(ev[i], ev[j].ts)
  <2>1. CASE b \in Range(acc.done)
    BY <1>3, <2>1 DEF FoldInv
  <2>2. CASE acc.open # None /\ b = last
    <3>1. PICK i \in 1..n : OpenAt(ev, n, i) /\ acc.open = Span(ev[i], 0)
      BY <1>3, <2>2 DEF FoldInv
    <3> QED BY <1>7, <2>2, <3>1
  <2> QED BY <1>8, <1>9, <2>1, <2>2
<1>10. ASSUME NEW i \in 1..n, OpenAt(ev, n, i)
       PROVE  Span(ev[i], EndOf(s, ev[i].ts)) \in Range(Blocks(s))
  <2>1. acc.open = Span(ev[i], 0)
    BY <1>3, <1>10 DEF FoldInv
  <2>2. acc.open # None /\ last = Span(ev[i], EndOf(s, ev[i].ts))
    BY <1>7, <2>1
  <2> QED BY <1>8, <2>2
<1>11. ASSUME NEW i \in 1..n, NEW j \in 1..n, ShutAt(ev, i, j)
       PROVE  Span(ev[i], ev[j].ts) \in Range(Blocks(s))
  BY <1>3, <1>8, <1>11 DEF FoldInv
<1> QED BY <1>1, <1>2, <1>9, <1>10, <1>11

\* A start that is shut is shut by a first event.
LEMMA ShutBySome ==
  ASSUME NEW n \in Nat, NEW ev, NEW i \in 1..n, ev[i].event = "start", ~OpenAt(ev, n, i)
  PROVE  \E j \in 1..n : ShutAt(ev, i, j)
<1> DEFINE S == {j \in (i + 1)..n : Shuts(ev, j, i)}
<1>1. S \in SUBSET Nat /\ S # {}
  BY DEF OpenAt
<1>2. PICK j \in S : \A m \in S : j <= m
  <2> HIDE DEF S
  <2> QED BY <1>1, MinMember
<1>3. j \in 1..n /\ i < j /\ Shuts(ev, j, i)
  OBVIOUS
<1>4. \A m \in (i + 1)..(j - 1) : ~Shuts(ev, m, i)
  <2> SUFFICES ASSUME NEW m \in (i + 1)..(j - 1), Shuts(ev, m, i) PROVE FALSE
    OBVIOUS
  <2>1. m \in S /\ ~(j <= m)
    BY <1>3
  <2> QED BY <1>2, <2>1
<1>5. i \in 1..(j - 1)
  BY <1>3
<1> QED BY <1>3, <1>4, <1>5 DEF ShutAt, OpenAt

\* A message lies in a block of a task exactly when its session worked on the task then.
LEMMA BlockOfWork ==
  ASSUME Typed, journal \in Seq(Event), NEW s, NEW x \in Messages(s), NEW t
  PROVE  (\E b \in Range(Blocks(s)) : b.task = t /\ InBlock(b, x))
           <=> WorkedOn(s, t, rows["usage"][x].at)
<1> DEFINE at == rows["usage"][x].at
           n == Many(s)
           ev == EventsOf(s)
           q == Order(s)
<1>1. at \in Times(s) /\ at \in Nat
  BY MessageTypes, TranscriptsAssumption
<1>2. n \in Nat /\ ev \in [1..n -> Event]
  BY EventsType
<1>3. \A i \in 1..n : /\ q[i] \in Places(s) /\ ev[i] = journal[q[i]]
                      /\ ev[i].ts \in Stamp /\ ev[i].ts \in Nat
  BY EventsType, EventTypes DEF Places
<1>4. \A i \in 1..n : ev[i].event = "start" <=> q[i] \in StartsOf(s)
  BY <1>3 DEF StartsOf, Places
<1>5. \A i \in 1..n : EndOf(s, ev[i].ts) >= at
  BY <1>1, <1>3, EndOfType
<1>6. \A i \in 1..n : \A to : /\ Span(ev[i], to).task = ev[i].task
                              /\ InBlock(Span(ev[i], to), x) <=> ev[i].ts <= at /\ at <= to
  BY DEF Span, InBlock
<1> HIDE DEF at, n, ev, q
<1>7. ASSUME NEW b \in Range(Blocks(s)), b.task = t, InBlock(b, x)
      PROVE  WorkedOn(s, t, at)
  <2>1. PICK i \in 1..n :
          \/ OpenAt(ev, n, i) /\ b = Span(ev[i], EndOf(s, ev[i].ts))
          \/ \E j \in 1..n : ShutAt(ev, i, j) /\ b = Span(ev[i], ev[j].ts)
    BY <1>7, BlocksAre DEF n, ev
  <2>2. ev[i].event = "start"
    BY <2>1 DEF OpenAt, ShutAt
  <2>3. PICK to : b = Span(ev[i], to)
    BY <2>1
  <2>4. ev[i].task = t /\ ev[i].ts <= at
    BY <1>6, <1>7, <2>3
  <2>5. q[i] \in StartsOf(s) /\ journal[q[i]].task = t /\ journal[q[i]].ts <= at
    BY <1>3, <1>4, <2>2, <2>4
  <2>6. ASSUME NEW l \in DOMAIN journal, Ends(l, q[i])
        PROVE  at <= journal[l].ts
    <3>1. PICK m \in (i + 1)..n : q[m] = l /\ Shuts(ev, m, i)
      BY <2>6, EndsPlaces DEF n, ev, q
    <3>2. m \in 1..n /\ ev[m].ts = journal[l].ts /\ ~OpenAt(ev, n, i)
      BY <1>2, <1>3, <3>1 DEF OpenAt
    <3>3. PICK j \in 1..n : ShutAt(ev, i, j) /\ b = Span(ev[i], ev[j].ts)
      BY <2>1, <3>2
    <3>4. j <= m
      <4>1. ~(m \in (i + 1)..(j - 1))
        BY <3>1, <3>3 DEF ShutAt, OpenAt
      <4> QED BY <1>2, <3>1, <4>1
    <3>5. ev[j].ts <= ev[m].ts
      BY <3>2, <3>4, PlaceOrder DEF n, ev
    <3>6. at <= ev[j].ts
      BY <1>6, <1>7, <3>3
    <3> QED BY <1>1, <1>3, <3>2, <3>5, <3>6
  <2> QED BY <2>5, <2>6 DEF WorkedOn
<1>8. ASSUME WorkedOn(s, t, at)
      PROVE  \E b \in Range(Blocks(s)) : b.task = t /\ InBlock(b, x)
  <2>1. PICK a \in StartsOf(s) :
          /\ journal[a].task = t /\ journal[a].ts <= at
          /\ \A l \in DOMAIN journal : Ends(l, a) => at <= journal[l].ts
    BY <1>8 DEF WorkedOn
  <2>2. PICK i \in 1..n : q[i] = a
    BY EventsType DEF n, q, StartsOf, Places
  <2>3. ev[i].task = t /\ ev[i].ts <= at /\ ev[i].event = "start"
    BY <1>3, <1>4, <2>1, <2>2
  <2>4. CASE OpenAt(ev, n, i)
    <3>1. Span(ev[i], EndOf(s, ev[i].ts)) \in Range(Blocks(s))
      BY <2>4, BlocksAre DEF n, ev
    <3>2. at <= EndOf(s, ev[i].ts)
      <4>1. EndOf(s, ev[i].ts) \in Nat
        BY <1>3, EndOfType, TranscriptsAssumption
      <4> QED BY <1>1, <1>5, <4>1
    <3> QED BY <1>6, <2>3, <3>1, <3>2
  <2>5. CASE ~OpenAt(ev, n, i)
    <3>1. PICK j \in 1..n : ShutAt(ev, i, j)
      BY <1>2, <2>3, <2>5, ShutBySome
    <3>2. Span(ev[i], ev[j].ts) \in Range(Blocks(s))
      BY <3>1, BlocksAre DEF n, ev
    <3>3. Ends(q[j], q[i])
      BY <3>1, EndsShuts DEF n, ev, q, ShutAt
    <3>4. at <= ev[j].ts
      BY <1>3, <2>1, <2>2, <3>3 DEF Places
    <3> QED BY <1>6, <2>3, <3>2, <3>4
  <2> QED BY <2>4, <2>5
<1> QED BY <1>7, <1>8 DEF at

\* What the worker sees of a session are the steps of runs whose blocks are open.
LEMMA OpenStepIs ==
  ASSUME journal \in Seq(Event), NEW s
  PROVE  OpenStep(s) = {journal[i].ts : i \in {k \in StartsOf(s) :
           journal[k].source = "run-step" /\ \A l \in DOMAIN journal : ~Ends(l, k)}}
<1> DEFINE n == Many(s)
           ev == EventsOf(s)
           q == Order(s)
           open == FoldLeft(Reopen, None, ev)
           Going == {k \in StartsOf(s) :
             journal[k].source = "run-step" /\ \A l \in DOMAIN journal : ~Ends(l, k)}
<1>1. n \in Nat /\ ev \in [1..n -> Event]
  BY EventsType
<1>2. \A i \in 1..n : ev[i] = journal[q[i]] /\ ev[i] # None
  BY EventsType, UsageAssumption
<1>3. \A a \in StartsOf(s) : \E i \in 1..n : q[i] = a
  BY EventsType DEF StartsOf, Places
<1>4. \A i \in 1..n : OpenAt(ev, n, i) <=>
         q[i] \in StartsOf(s) /\ \A l \in DOMAIN journal : ~Ends(l, q[i])
  BY OpenIsUnended
<1> HIDE DEF n, ev, q
<1>5. ReopenInv(ev, n, open)
  BY <1>1, ReopenEnds
<1>6. OpenStep(s) = IF open # None /\ open.source = "run-step" THEN {open.ts} ELSE {}
  BY DEF OpenStep, ev
<1> HIDE DEF open
<1>7. ASSUME NEW a \in Going
      PROVE  OpenStep(s) = {journal[a].ts}
  <2>1. PICK i \in 1..n : q[i] = a
    BY <1>3
  <2>2. open = journal[a] /\ open # None
    BY <1>2, <1>4, <1>5, <2>1 DEF ReopenInv
  <2> QED BY <1>6, <2>2
<1>8. ASSUME OpenStep(s) # {}
      PROVE  Going # {}
  <2>1. open # None /\ open.source = "run-step"
    BY <1>6, <1>8
  <2>2. PICK i \in 1..n : OpenAt(ev, n, i) /\ open = ev[i]
    BY <1>5, <2>1 DEF ReopenInv
  <2>3. q[i] \in Going
    BY <1>2, <1>4, <2>1, <2>2
  <2> QED BY <2>3
<1>9. OpenStep(s) = {journal[a].ts : a \in Going}
  <2> HIDE DEF Going
  <2>1. CASE Going = {}
    BY <1>8, <2>1
  <2>2. CASE Going # {}
    BY <1>7, <2>2
  <2> QED BY <2>1, <2>2
<1> QED BY <1>9

(***************************************************************************)
(* The journal and what surrounds the logs.                                *)
(***************************************************************************)
UsageInv == Inv /\ journal \in Seq(Event) /\ desk \in Desk

LEMMA UsageInit == Init => UsageInv
<1>1. Init => desk \in Desk /\ journal \in Seq(Event)
  BY UsageAssumption DEF Init, TranscriptInit
<1> QED BY <1>1, InvInit DEF Init, UsageInv

LEMMA UsageNext == UsageInv /\ [Next]_vars => UsageInv'
<1> SUFFICES ASSUME UsageInv, [Next]_vars PROVE UsageInv'
  OBVIOUS
<1>1. Inv'
  BY InvNext DEF UsageInv
<1>2. CASE Bind
  <2>1. desk.events \in SUBSET Event
    BY DEF UsageInv, Desk
  <2>2. PICK e \in desk.events : journal' = Append(journal, e)
    BY <1>2 DEF Bind
  <2> QED BY <1>1, <1>2, <2>1, <2>2 DEF UsageInv, Bind
<1>3. CASE UNCHANGED <<desk, journal>>
  BY <1>1, <1>3 DEF UsageInv
<1> QED BY <1>2, <1>3 DEF Next, vars

\* For any journal, in whatever order it was appended to, and however much of the logs was
\* read: a message lies in a block of a task exactly if its session was bound to the task
\* at its time (blocks, board/task_sessions.rs), and the keep-awake worker sees the steps
\* whose blocks are open (open_run_step_starts, lib.rs).
THEOREM BlocksAlwaysFollowWork == Spec => []BlocksFollowWork
<1>1. UsageInv => BlocksFollowWork
  BY BlockOfWork, OpenStepIs DEF BlocksFollowWork, UsageInv, Inv
<1> QED BY <1>1, UsageInit, UsageNext, PTL DEF Spec

(***************************************************************************)
(* Sums.                                                                   *)
(***************************************************************************)
LEMMA DisjointUnion ==
  ASSUME NEW A, IsFiniteSet(A), NEW B, IsFiniteSet(B), A \cap B = {}
  PROVE  IsFiniteSet(A \cup B) /\ Cardinality(A \cup B) = Cardinality(A) + Cardinality(B)
<1>1. Cardinality(A) \in Nat /\ Cardinality(B) \in Nat /\ Cardinality(A \cap B) = 0
  BY FS_CardinalityType, FS_EmptySet
<1>2. /\ IsFiniteSet(A \cup B)
      /\ Cardinality(A \cup B) = Cardinality(A) + Cardinality(B) - Cardinality(A \cap B)
  BY FS_Union
<1> QED BY <1>1, <1>2

Over(M, T) == UNION {M[x] : x \in T}
Parted(M, S) ==
  /\ \A x \in S : IsFiniteSet(M[x])
  /\ \A x, y \in S : x # y => M[x] \cap M[y] = {}
Added(g, S, c, M) ==
  \A T \in SUBSET S : g[T] = IF T = {} THEN 0 ELSE Cardinality(M[c[T]]) + g[T \ {c[T]}]

\* The sizes of sets without common members add up to the size of their union.
LEMMA SumIsSize ==
  ASSUME NEW S, IsFiniteSet(S), NEW M, Parted(M, S), NEW c, Chooser(c, S), NEW g,
         Added(g, S, c, M)
  PROVE  IsFiniteSet(Over(M, S)) /\ g[S] = Cardinality(Over(M, S))
<1> DEFINE n == Cardinality(S)
           Good(T) == IsFiniteSet(Over(M, T)) /\ g[T] = Cardinality(Over(M, T))
           K == {k \in 0..n : \A T \in SUBSET S : Cardinality(T) = k => Good(T)}
<1>1. n \in Nat
  BY FS_CardinalityType
<1>2. 0 \in K
  <2> SUFFICES ASSUME NEW T \in SUBSET S, Cardinality(T) = 0 PROVE Good(T)
    BY <1>1
  <2>1. T = {}
    BY FS_Subset, FS_EmptySet
  <2>2. Over(M, {}) = {}
    BY DEF Over
  <2>3. g[{}] = 0
    BY DEF Added
  <2> QED BY <2>1, <2>2, <2>3, FS_EmptySet
<1>3. ASSUME NEW k \in 1..n, k - 1 \in K PROVE k \in K
  <2> SUFFICES ASSUME NEW T \in SUBSET S, Cardinality(T) = k PROVE Good(T)
    OBVIOUS
  <2>1. IsFiniteSet(T)
    BY FS_Subset
  <2>2. T # {}
    BY <2>1, FS_EmptySet
  <2>3. PICK x \in T : x = c[T]
    BY <2>2 DEF Chooser
  <2> DEFINE U == T \ {x}
  <2>4. U \in SUBSET S /\ Cardinality(U) = k - 1
    BY <2>1, <2>3, FS_RemoveElement
  <2>5. Good(U)
    BY <1>3, <2>4
  <2>6. g[T] = Cardinality(M[x]) + g[U]
    BY <2>2, <2>3 DEF Added
  <2>7. Over(M, T) = M[x] \cup Over(M, U) /\ M[x] \cap Over(M, U) = {}
    BY <2>3 DEF Over, Parted
  <2>8. IsFiniteSet(M[x]) /\ IsFiniteSet(Over(M, U))
    BY <2>3, <2>5 DEF Parted
  <2>9. PICK A, B : A = M[x] /\ B = Over(M, U)
    OBVIOUS
  <2>10. IsFiniteSet(A \cup B) /\ Cardinality(A \cup B) = Cardinality(A) + Cardinality(B)
    BY <2>7, <2>8, <2>9, DisjointUnion
  <2> QED BY <2>5, <2>6, <2>7, <2>9, <2>10
<1>4. 0..n \subseteq K
  <2> HIDE DEF K
  <2> QED BY <1>1, <1>2, <1>3, IntervalInduction
<1>5. n \in K
  BY <1>1, <1>4
<1> QED BY <1>5

\* What MapThenSumSet chooses, of the messages of sessions and of the costs of tasks.
MessagesOver(S, g) ==
  g = [T \in SUBSET S |-> IF T = {} THEN 0
         ELSE Cardinality(Messages(CHOOSE x \in T : TRUE)) + g[T \ {CHOOSE x \in T : TRUE}]]
CostsOver(S, g) ==
  g = [T \in SUBSET S |-> IF T = {} THEN 0
         ELSE Cost(CHOOSE x \in T : TRUE) + g[T \ {CHOOSE x \in T : TRUE}]]

LEMMA MessagesChosen ==
  ASSUME NEW S, NEW g, MessagesOver(S, g)
  PROVE  \E h : MessagesOver(S, h) /\ Sum(S) = h[S]
<1>1. \E h : Sum(S) = h[S] /\ h = CHOOSE f : MessagesOver(S, f)
  BY DEF Sum, MapThenSumSet, MapThenFoldSet, MessagesOver
<1> QED BY <1>1

LEMMA CostsChosen ==
  ASSUME NEW S, NEW g, CostsOver(S, g)
  PROVE  \E h : CostsOver(S, h) /\ MapThenSumSet(Cost, S) = h[S]
<1>1. \E h : MapThenSumSet(Cost, S) = h[S] /\ h = CHOOSE f : CostsOver(S, f)
  BY DEF MapThenSumSet, MapThenFoldSet, CostsOver
<1> QED BY <1>1

\* A sum of sizes exists.
LEMMA SumExists ==
  ASSUME NEW S, IsFiniteSet(S), NEW M, \A x \in S : IsFiniteSet(M[x]), NEW c, Chooser(c, S)
  PROVE  \E g \in [SUBSET S -> Nat] : Added(g, S, c, M)
<1> DEFINE F == [p \in Nat \X S |-> Cardinality(M[p[2]]) + p[1]]
<1>1. \A x \in S : Cardinality(M[x]) \in Nat
  BY FS_CardinalityType
<1>2. \A a \in Nat, x \in S : F[<<a, x>>] = Cardinality(M[x]) + a /\ F[<<a, x>>] \in Nat
  BY <1>1
<1> HIDE DEF F
<1>3. Within(F, Nat, S)
  BY <1>2 DEF Within
<1>4. PICK g \in [SUBSET S -> Nat] : Folded(g, S, 0, c, F)
  BY <1>3, FoldExists
<1>5. ASSUME NEW T \in SUBSET S, T # {}
      PROVE  F[<<g[T \ {c[T]}], c[T]>>] = Cardinality(M[c[T]]) + g[T \ {c[T]}]
  <2>1. c[T] \in S /\ g[T \ {c[T]}] \in Nat
    BY <1>5 DEF Chooser
  <2> QED BY <1>2, <2>1
<1>6. Added(g, S, c, M)
  BY <1>4, <1>5 DEF Folded, Added
<1> QED BY <1>6

SomeOf(S) == [T \in SUBSET S |-> CHOOSE x \in T : TRUE]

LEMMA FirstChosen == ASSUME NEW S PROVE Chooser(SomeOf(S), S)
BY DEF Chooser, SomeOf

\* The messages of some sessions are counted once each.
LEMMA SumOfMessages ==
  ASSUME Typed, NEW S \in SUBSET Session, IsFiniteSet(S)
  PROVE  /\ IsFiniteSet(UNION {Messages(s) : s \in S})
         /\ Sum(S) = Cardinality(UNION {Messages(s) : s \in S})
<1> DEFINE M == [s \in S |-> Messages(s)]
           c == SomeOf(S)
<1>1. \A s \in S : M[s] = Messages(s)
  OBVIOUS
<1>2. \A T \in SUBSET S : c[T] = CHOOSE x \in T : TRUE
  BY DEF SomeOf
<1>3. Chooser(c, S)
  BY FirstChosen
<1>4. Parted(M, S)
  BY MessageTypes DEF Parted, Messages
<1>5. Over(M, S) = UNION {Messages(s) : s \in S}
  BY DEF Over
<1> HIDE DEF M, c
<1>6. PICK g \in [SUBSET S -> Nat] : Added(g, S, c, M)
  BY <1>3, <1>4, SumExists DEF Parted
<1>7. MessagesOver(S, g)
  <2>1. ASSUME NEW T \in SUBSET S, T # {}
        PROVE  Cardinality(M[c[T]]) = Cardinality(Messages(CHOOSE x \in T : TRUE))
    <3>1. c[T] \in S
      BY <1>3, <2>1 DEF Chooser
    <3> QED BY <1>1, <1>2, <3>1
  <2> QED BY <1>2, <1>6, <2>1 DEF Added, MessagesOver
<1>8. PICK h : MessagesOver(S, h) /\ Sum(S) = h[S]
  BY <1>7, MessagesChosen
<1>9. Added(h, S, c, M)
  <2> SUFFICES ASSUME NEW T \in SUBSET S
               PROVE  h[T] = IF T = {} THEN 0 ELSE Cardinality(M[c[T]]) + h[T \ {c[T]}]
    BY DEF Added
  <2>1. h[T] = IF T = {} THEN 0
               ELSE Cardinality(Messages(CHOOSE x \in T : TRUE)) + h[T \ {CHOOSE x \in T : TRUE}]
    BY <1>8 DEF MessagesOver
  <2>2. CASE T # {}
    <3>1. c[T] \in S /\ c[T] = CHOOSE x \in T : TRUE
      BY <1>2, <1>3, <2>2 DEF Chooser
    <3> QED BY <1>1, <2>1, <3>1
  <2> QED BY <2>1, <2>2
<1>10. IsFiniteSet(Over(M, S)) /\ h[S] = Cardinality(Over(M, S))
  BY <1>3, <1>4, <1>9, SumIsSize
<1> QED BY <1>5, <1>8, <1>10

\* The sessions with messages.
LEMMA SeenFinite == ASSUME Typed PROVE IsFiniteSet(Seen) /\ Seen \in SUBSET Session
<1> DEFINE X == {x \in Id : rows["usage"][x] # None /\ rows["usage"][x].session \in Session}
           f == [x \in X |-> rows["usage"][x].session]
<1>1. IsFiniteSet(X)
  BY UsageAssumption, FS_Subset
<1>2. f \in Surjection(X, Seen)
  <2>1. \A x \in X : f[x] \in Seen
    BY DEF Seen, Messages
  <2>2. \A s \in Seen : \E x \in X : f[x] = s
    BY DEF Seen, Messages
  <2> QED BY <2>1, <2>2 DEF Surjection
<1> HIDE DEF X, f
<1> QED BY <1>1, <1>2, FS_Surjection DEF Seen

Paid(t) == UNION {Messages(s) : s \in ChargedTo(t)}

LEMMA CostIs ==
  ASSUME Typed, NEW t
  PROVE  IsFiniteSet(Paid(t)) /\ Cost(t) = Cardinality(Paid(t))
<1>1. ChargedTo(t) \in SUBSET Session /\ IsFiniteSet(ChargedTo(t))
  BY SeenFinite, FS_Subset DEF ChargedTo
<1>2. Cost(t) = Sum(ChargedTo(t))
  BY DEF Cost
<1> QED BY <1>1, <1>2, SumOfMessages DEF Paid

LEMMA OnBoardFinite == IsFiniteSet(OnBoard)
BY UsageAssumption, FS_Subset DEF OnBoard

\* A session is charged to one task, which is on the board.
LEMMA ChargedOnce ==
  ASSUME NEW s, Verdict(Judged(s)) = "charged", Judged(s) \in SUBSET OnBoard
  PROVE  \E t \in OnBoard : Judged(s) = {t}
<1>1. IsFiniteSet(Judged(s)) /\ Judged(s) # {} /\ ~(Cardinality(Judged(s)) > 1)
  BY OnBoardFinite, FS_Subset DEF Verdict
<1>2. Cardinality(Judged(s)) \in Nat /\ Cardinality(Judged(s)) # 0
  BY <1>1, FS_CardinalityType, FS_EmptySet
<1>3. Cardinality(Judged(s)) = 1
  BY <1>1, <1>2
<1> QED BY <1>1, <1>3, FS_Singleton

LEMMA JudgedOnBoard == ASSUME NEW s PROVE Judged(s) \in SUBSET OnBoard
<1>1. ASSUME NEW refs, NEW own PROVE Resolve(refs, own) \in SUBSET OnBoard
  <2>1. ASSUME NEW S, NEW t \in FirstRow(S) PROVE t \in S
    BY DEF FirstRow
  <2> QED BY <2>1 DEF Resolve, Named
<1> QED BY <1>1 DEF Judged

LEMMA SumOfCosts ==
  ASSUME Typed
  PROVE  /\ IsFiniteSet(UNION {Paid(t) : t \in OnBoard})
         /\ MapThenSumSet(Cost, OnBoard) = Cardinality(UNION {Paid(t) : t \in OnBoard})
<1> DEFINE S == OnBoard
           M == [t \in S |-> Paid(t)]
           c == SomeOf(S)
<1>1. \A t \in S : M[t] = Paid(t) /\ Cost(t) = Cardinality(M[t])
  BY CostIs
<1>2. \A T \in SUBSET S : c[T] = CHOOSE x \in T : TRUE
  BY DEF SomeOf
<1>3. Chooser(c, S)
  BY FirstChosen
<1>4. Parted(M, S)
  <2>1. ASSUME NEW t \in S, NEW u \in S, t # u, NEW x \in Paid(t), x \in Paid(u)
        PROVE  FALSE
    <3>1. PICK s \in ChargedTo(t) : x \in Messages(s)
      BY DEF Paid
    <3>2. PICK r \in ChargedTo(u) : x \in Messages(r)
      BY <2>1 DEF Paid
    <3>3. s = r
      BY <3>1, <3>2 DEF Messages
    <3>4. t \in Judged(s) /\ u \in Judged(s) /\ Verdict(Judged(s)) = "charged"
      BY <3>3 DEF ChargedTo
    <3>5. \E v : Judged(s) = {v}
      BY <3>4, JudgedOnBoard, ChargedOnce
    <3> QED BY <2>1, <3>4, <3>5
  <2>2. \A t \in S : IsFiniteSet(M[t])
    BY CostIs
  <2> QED BY <1>1, <2>1, <2>2 DEF Parted
<1>5. Over(M, S) = UNION {Paid(t) : t \in OnBoard}
  BY DEF Over
<1>6. IsFiniteSet(S)
  BY OnBoardFinite
<1> HIDE DEF M, c, S
<1>7. PICK g \in [SUBSET S -> Nat] : Added(g, S, c, M)
  BY <1>3, <1>4, <1>6, SumExists DEF Parted
<1>8. CostsOver(S, g)
  <2>1. ASSUME NEW T \in SUBSET S, T # {}
        PROVE  Cardinality(M[c[T]]) = Cost(CHOOSE x \in T : TRUE)
    <3>1. c[T] \in S
      BY <1>3, <2>1 DEF Chooser
    <3> QED BY <1>1, <1>2, <3>1
  <2> QED BY <1>2, <1>7, <2>1 DEF Added, CostsOver
<1>9. PICK h : CostsOver(S, h) /\ MapThenSumSet(Cost, S) = h[S]
  BY <1>8, CostsChosen
<1>10. Added(h, S, c, M)
  <2> SUFFICES ASSUME NEW T \in SUBSET S
               PROVE  h[T] = IF T = {} THEN 0 ELSE Cardinality(M[c[T]]) + h[T \ {c[T]}]
    BY DEF Added
  <2>1. h[T] = IF T = {} THEN 0
               ELSE Cost(CHOOSE x \in T : TRUE) + h[T \ {CHOOSE x \in T : TRUE}]
    BY <1>9 DEF CostsOver
  <2>2. CASE T # {}
    <3>1. c[T] \in S /\ c[T] = CHOOSE x \in T : TRUE
      BY <1>2, <1>3, <2>2 DEF Chooser
    <3> QED BY <1>1, <2>1, <3>1
  <2> QED BY <2>1, <2>2
<1>11. IsFiniteSet(Over(M, S)) /\ h[S] = Cardinality(Over(M, S))
  BY <1>3, <1>4, <1>6, <1>10, SumIsSize
<1>12. MapThenSumSet(Cost, OnBoard) = h[S]
  BY <1>9 DEF S
<1> QED BY <1>5, <1>11, <1>12

\* A reference names the task itself or a task of the session's project, or of none.
LEMMA ResolvedTasks ==
  ASSUME NEW refs \in SUBSET Ref, NEW own, NEW t \in Resolve(refs, own)
  PROVE  [task |-> t] \in refs \/ desk.board[t].project \in {None, own}
<1>1. PICK r \in refs : t \in Named(r, own)
  BY DEF Resolve
<1>2. CASE r \in [task : Task]
  <2>1. "task" \in DOMAIN r /\ r = [task |-> r.task]
    BY <1>2
  <2>2. t = r.task
    BY <1>1, <2>1 DEF Named
  <2> QED BY <2>1, <2>2
<1>3. CASE r \in [number : Nat]
  <2>1. "task" \notin DOMAIN r
    BY <1>3
  <2> QED BY <1>1, <2>1 DEF Named, FirstRow
<1> QED BY <1>2, <1>3 DEF Ref

\* The strongest evidence for a task is one that the session gave.
LEMMA JudgedTasks ==
  ASSUME UsageInv, NEW s \in Session, NEW t \in Judged(s)
  PROVE  \/ desk.board[t].project \in {None, desk.project[s]}
         \/ \E i \in StartsOf(s) : journal[i].task = t
         \/ [task |-> t] \in desk.evidence[s].moves \cup desk.evidence[s].touched
<1> DEFINE bound == {b.task : b \in Range(Blocks(s))}
           ev == desk.evidence[s]
           own == desk.project[s]
<1>1. CASE bound # {}
  <2>1. t \in bound
    BY <1>1 DEF Judged
  <2>2. PICK b \in Range(Blocks(s)) : b.task = t
    BY <2>1
  <2>3. PICK i \in 1..Many(s) :
          \/ /\ OpenAt(EventsOf(s), Many(s), i)
             /\ b = Span(EventsOf(s)[i], EndOf(s, EventsOf(s)[i].ts))
          \/ \E j \in 1..Many(s) :
               ShutAt(EventsOf(s), i, j) /\ b = Span(EventsOf(s)[i], EventsOf(s)[j].ts)
    BY BlocksAre DEF UsageInv, Inv
  <2>4. PICK to : b = Span(EventsOf(s)[i], to)
    BY <2>3
  <2>5. EventsOf(s)[i].task = t
    BY <2>2, <2>4 DEF Span
  <2>6. EventsOf(s)[i].event = "start"
    BY <2>3 DEF OpenAt, ShutAt
  <2>7. Order(s)[i] \in Places(s) /\ EventsOf(s)[i] = journal[Order(s)[i]]
    BY EventsType DEF UsageInv
  <2>8. Order(s)[i] \in StartsOf(s) /\ journal[Order(s)[i]].task = t
    BY <2>5, <2>6, <2>7 DEF StartsOf, Places
  <2> QED BY <2>8
<1>2. CASE bound = {}
  <2>1. ev \in Evidence \cup {None}
    BY DEF UsageInv, Desk
  <2>2. CASE ev = None
    BY <1>2, <2>2 DEF Judged
  <2>3. CASE ev \in Evidence
    <3>1. ev.moves \in SUBSET Ref /\ ev.touched \in SUBSET Ref
      BY <2>3 DEF Evidence
    <3>2. \/ t \in Resolve(ev.moves, own)
          \/ t \in Resolve(ev.touched, own)
          \/ desk.board[t].project = own
      BY <1>2 DEF Judged
    <3> QED BY <3>1, <3>2, ResolvedTasks
  <2> QED BY <2>1, <2>2, <2>3
<1> QED BY <1>1, <1>2

\* A block of a task of the board charges the task, or its session is ambiguous.
LEMMA BlockCharges ==
  ASSUME NEW s, NEW b \in Range(Blocks(s)), b.task \in OnBoard
  PROVE  Verdict(Judged(s)) = "ambiguous" \/ Judged(s) = {b.task}
<1>1. b.task \in Judged(s)
  BY DEF Judged
<1>2. CASE Cardinality(Judged(s)) > 1
  BY <1>2 DEF Verdict
<1>3. CASE ~(Cardinality(Judged(s)) > 1)
  <2>1. Verdict(Judged(s)) = "charged"
    BY <1>1, <1>3 DEF Verdict
  <2>2. \E t \in OnBoard : Judged(s) = {t}
    BY <2>1, JudgedOnBoard, ChargedOnce
  <2> QED BY <1>1, <2>2
<1> QED BY <1>2, <1>3

\* A session that is judged is charged to one task of the board, or is ambiguous.
LEMMA JudgedOnce ==
  ASSUME NEW s
  PROVE  /\ Judged(s) # {} <=> Verdict(Judged(s)) \in {"charged", "ambiguous"}
         /\ Verdict(Judged(s)) = "charged" => \E t \in OnBoard : Judged(s) = {t}
<1>1. Verdict(Judged(s)) = "charged" => \E t \in OnBoard : Judged(s) = {t}
  BY JudgedOnBoard, ChargedOnce
<1>2. Judged(s) = {} => ~(Cardinality(Judged(s)) > 1)
  BY FS_EmptySet
<1> QED BY <1>1, <1>2 DEF Verdict

LEMMA ChargedApart ==
  ASSUME NEW t \in OnBoard, NEW u \in OnBoard, t # u
  PROVE  ChargedTo(t) \cap ChargedTo(u) = {}
<1> SUFFICES ASSUME NEW s \in ChargedTo(t), s \in ChargedTo(u) PROVE FALSE
  OBVIOUS
<1>1. t \in Judged(s) /\ u \in Judged(s) /\ Verdict(Judged(s)) = "charged"
  BY DEF ChargedTo
<1> QED BY <1>1, JudgedOnce

\* The sums hold every message whose session is judged, and each once.
LEMMA EveryMessageOnce ==
  ASSUME Typed
  PROVE  MapThenSumSet(Cost, OnBoard) + Ambiguous
           = Cardinality(UNION {Messages(s) : s \in {r \in Seen : Judged(r) # {}}})
<1> DEFINE X == UNION {Paid(t) : t \in OnBoard}
           Y == UNION {Messages(s) : s \in Doubtful}
           Z == UNION {Messages(s) : s \in {r \in Seen : Judged(r) # {}}}
<1>1. IsFiniteSet(X) /\ MapThenSumSet(Cost, OnBoard) = Cardinality(X)
  BY SumOfCosts
<1>2. IsFiniteSet(Y) /\ Ambiguous = Cardinality(Y)
  <2>1. Doubtful \in SUBSET Session /\ IsFiniteSet(Doubtful)
    BY SeenFinite, FS_Subset DEF Doubtful
  <2>2. Ambiguous = Sum(Doubtful)
    BY DEF Ambiguous
  <2> QED BY <2>1, <2>2, SumOfMessages
<1>3. X \cap Y = {}
  <2> SUFFICES ASSUME NEW x \in X, x \in Y PROVE FALSE
    OBVIOUS
  <2>1. PICK s : x \in Messages(s) /\ \E t \in OnBoard : s \in ChargedTo(t)
    BY DEF Paid
  <2>2. PICK r \in Doubtful : x \in Messages(r)
    OBVIOUS
  <2>3. s = r
    BY <2>1, <2>2 DEF Messages
  <2> QED BY <2>1, <2>3 DEF ChargedTo, Doubtful
<1>4. X \cup Y \subseteq Z
  <2> SUFFICES ASSUME NEW x \in X \cup Y PROVE x \in Z
    OBVIOUS
  <2>1. PICK s \in Seen : x \in Messages(s) /\ Verdict(Judged(s)) \in {"charged", "ambiguous"}
    BY DEF Paid, ChargedTo, Doubtful
  <2> QED BY <2>1, JudgedOnce
<1>5. Z \subseteq X \cup Y
  <2> SUFFICES ASSUME NEW s \in Seen, Judged(s) # {}, NEW x \in Messages(s)
               PROVE  x \in X \cup Y
    OBVIOUS
  <2>1. CASE Verdict(Judged(s)) = "charged"
    <3>1. PICK t \in OnBoard : Judged(s) = {t}
      BY <2>1, JudgedOnce
    <3>2. s \in ChargedTo(t)
      BY <2>1, <3>1 DEF ChargedTo
    <3> QED BY <3>2 DEF Paid
  <2>2. CASE Verdict(Judged(s)) = "ambiguous"
    BY <2>2 DEF Doubtful
  <2> QED BY <2>1, <2>2, JudgedOnce
<1> HIDE DEF X, Y, Z
<1>6. Cardinality(X \cup Y) = Cardinality(X) + Cardinality(Y)
  BY <1>1, <1>2, <1>3, DisjointUnion
<1>7. X \cup Y = Z
  BY <1>4, <1>5
<1> QED BY <1>1, <1>2, <1>6, <1>7 DEF Z

\* For any journal, board, evidence and number of sessions: a message in a block of a
\* task of the board is charged to that task or its session is ambiguous; every message of
\* a session that is judged is in the sum of one task, or in that of what is ambiguous;
\* and a session that neither the journal nor an id binds to a task pays for none of
\* another project (judge, judge_journal and compute, task_cost/task_cost.rs).
THEOREM CostsAlwaysAgree == Spec => []CostsAgree
<1>1. UsageInv => CostsAgree
  <2> SUFFICES ASSUME UsageInv PROVE CostsAgree
    OBVIOUS
  <2>1. Typed
    BY DEF UsageInv, Inv
  <2>2. Seen \subseteq Session
    BY <2>1, SeenFinite
  <2>3. \A t, u \in OnBoard : t # u => ChargedTo(t) \cap ChargedTo(u) = {}
    BY ChargedApart
  <2> QED BY <2>1, <2>2, <2>3, BlockCharges, JudgedTasks, EveryMessageOnce DEF CostsAgree
<1> QED BY <1>1, UsageInit, UsageNext, PTL DEF Spec
=============================================================================
