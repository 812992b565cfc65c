---------------------------- MODULE PipeIOProofs ----------------------------
(***************************************************************************)
(* What PipeIO promises, for every set of processes and pipes, every size  *)
(* of the descriptor table and every capacity: the reader and writer       *)
(* tallies count descriptors, a pipe is a queue of bytes, and a blocked    *)
(* call whose other end is gone is ready to be resumed.                    *)
(***************************************************************************)
EXTENDS PipeIO, FiniteSetTheorems, SequenceTheorems, WellFoundedInduction, TLAPS

\* A table of descriptors, and the places of f that hold description o.
FdTables == [Procs -> [Fds -> Ofds \cup {None}]]
Holders(f, o) == {x \in Procs \X Fds : f[x[1]][x[2]] = o}
RowHolders(row, o) == {d \in Fds : row[d] = o}

-----------------------------------------------------------------------------
(* Numbers.                                                                *)

\* A set of numbers that is not empty has a least one, and Min is it.
LEMMA MinIsLeast ==
  ASSUME NEW S \in SUBSET Nat, S # {}
  PROVE  Min(S) \in S /\ \A y \in S : Min(S) <= y
<1> DEFINE Less == {z \in Nat \X Nat : z[1] < z[2]}
<1>1. IsWellFoundedOn(Less, Nat)
  BY NatLessThanWellFounded DEF OpToRel
<1> HIDE DEF Less
<1>2. PICK x \in S : \A y \in S : <<y, x>> \notin Less
  BY <1>1, WFMin, Zenon
<1>3. \A y \in S : ~(y < x)
  BY <1>2, Zenon DEF Less
<1>4. \A y \in S : x <= y
  BY <1>3
<1> QED
  BY <1>4, Zenon DEF Min

\* Min of two numbers is one of them and not above the other.
LEMMA MinOfTwo ==
  ASSUME NEW a \in Nat, NEW b \in Nat
  PROVE  /\ Min({a, b}) \in {a, b}
         /\ Min({a, b}) <= a /\ Min({a, b}) <= b
BY MinIsLeast, {a, b} \in SUBSET Nat, {a, b} # {}

\* Numbers that are at most once around the ring of byte numbers.
LEMMA ModCases ==
  ASSUME NEW m \in Nat \ {0}, NEW x \in -m .. 2 * m - 1
  PROVE  x % m = IF x < 0 THEN x + m ELSE IF x < m THEN x ELSE x - m
<1>1. ASSUME NEW a \in 0 .. m - 1
      PROVE  a % m = a /\ (a + m) % m = a /\ (a - m) % m = a
  OBVIOUS
<1>2. CASE x < 0
  <2>1. x + m \in 0 .. m - 1 /\ x = (x + m) - m
    BY <1>2
  <2> QED
    BY <2>1, <1>1, <1>2
<1>3. CASE x \in 0 .. m - 1
  BY <1>1, <1>3
<1>4. CASE x >= m
  <2>1. x - m \in 0 .. m - 1 /\ x = (x - m) + m
    BY <1>4
  <2> QED
    BY <2>1, <1>1, <1>4
<1> QED
  BY <1>2, <1>3, <1>4

-----------------------------------------------------------------------------
(* Counting descriptors.                                                   *)

\* The descriptors of one process are finitely many, and so are those of all.
LEMMA FiniteTables ==
  /\ IsFiniteSet(Fds)
  /\ IsFiniteSet(Procs \X Fds)
<1>1. IsFiniteSet(Fds)
  BY PipeAssumption, FS_Interval DEF Fds
<1> QED
  BY <1>1, PipeAssumption, FS_Product

\* The holders of a description are finitely many.
LEMMA FiniteHolders ==
  ASSUME NEW f, NEW o
  PROVE  IsFiniteSet(Holders(f, o)) /\ Cardinality(Holders(f, o)) \in Nat
<1>1. Holders(f, o) \in SUBSET (Procs \X Fds)
  BY DEF Holders
<1>2. IsFiniteSet(Holders(f, o))
  BY <1>1, FiniteTables, FS_Subset
<1> QED
  BY <1>2, FS_CardinalityType

\* So are those of one process.
LEMMA FiniteRow ==
  ASSUME NEW row, NEW o
  PROVE  IsFiniteSet(RowHolders(row, o)) /\ Cardinality(RowHolders(row, o)) \in Nat
<1>1. RowHolders(row, o) \in SUBSET Fds
  BY DEF RowHolders
<1>2. IsFiniteSet(RowHolders(row, o))
  BY <1>1, FiniteTables, FS_Subset
<1> QED
  BY <1>2, FS_CardinalityType

\* One process' descriptors counted among those of all.
LEMMA RowAsPlaces ==
  ASSUME NEW p, NEW D, IsFiniteSet(D)
  PROVE  IsFiniteSet({p} \X D) /\ Cardinality({p} \X D) = Cardinality(D)
<1>1. IsFiniteSet({p}) /\ Cardinality({p}) = 1
  BY FS_Singleton, Zenon
<1>2. Cardinality(D) \in Nat
  BY FS_CardinalityType
<1>3. IsFiniteSet({p} \X D) /\ Cardinality({p} \X D) = 1 * Cardinality(D)
  BY <1>1, FS_Product
<1> QED
  BY <1>2, <1>3

\* When the descriptors of one process are replaced, the count of the holders
\* of a description changes by what that process had and has of it.
LEMMA RowReplaced ==
  ASSUME NEW f \in FdTables, NEW p \in Procs, NEW row \in [Fds -> Ofds \cup {None}],
         NEW o
  PROVE  Cardinality(Holders([f EXCEPT ![p] = row], o)) =
           Cardinality(Holders(f, o)) - Cardinality(RowHolders(f[p], o))
             + Cardinality(RowHolders(row, o))
<1> DEFINE g == [f EXCEPT ![p] = row]
           others == {x \in Procs \X Fds : x[1] # p /\ f[x[1]][x[2]] = o}
           mine(r) == {p} \X RowHolders(r, o)
<1>1. Holders(f, o) = others \cup mine(f[p])
  BY DEF Holders, RowHolders, FdTables
<1>2. Holders(g, o) = others \cup mine(row)
  BY DEF Holders, RowHolders, FdTables
<1>3. ASSUME NEW r
      PROVE  /\ IsFiniteSet(mine(r)) /\ Cardinality(mine(r)) = Cardinality(RowHolders(r, o))
             /\ others \cap mine(r) = {}
  <2>1. others \cap mine(r) = {}
    OBVIOUS
  <2> QED
    BY <2>1, FiniteRow, RowAsPlaces, Zenon
<1>4. IsFiniteSet(others) /\ Cardinality(others) \in Nat
  <2>1. others \in SUBSET (Procs \X Fds)
    OBVIOUS
  <2>2. IsFiniteSet(others)
    BY <2>1, FiniteTables, FS_Subset
  <2> QED
    BY <2>2, FS_CardinalityType
<1> HIDE DEF others, mine, g
<1>5. ASSUME NEW r
      PROVE  Cardinality(others \cup mine(r)) = Cardinality(others) + Cardinality(RowHolders(r, o))
  <2>1. Cardinality(others \cup mine(r))
          = Cardinality(others) + Cardinality(mine(r)) - Cardinality(others \cap mine(r))
    BY <1>3, <1>4, FS_Union
  <2>2. Cardinality(others \cap mine(r)) = 0
    BY <1>3, FS_EmptySet
  <2>3. Cardinality(mine(r)) = Cardinality(RowHolders(r, o))
    BY <1>3
  <2>4. Cardinality(RowHolders(r, o)) \in Nat
    BY FiniteRow
  <2> QED
    BY <2>1, <2>2, <2>3, <2>4, <1>4
<1>6. Cardinality(Holders(f, o)) = Cardinality(others) + Cardinality(RowHolders(f[p], o))
  BY <1>1, <1>5
<1>7. Cardinality(Holders(g, o)) = Cardinality(others) + Cardinality(RowHolders(row, o))
  BY <1>2, <1>5
<1>8. Cardinality(Holders(g, o)) =
           Cardinality(Holders(f, o)) - Cardinality(RowHolders(f[p], o))
             + Cardinality(RowHolders(row, o))
  BY <1>4, <1>6, <1>7, FiniteRow
<1> QED
  BY <1>8 DEF g

\* One descriptor of a process changes from one description, or none, to
\* another, or none.
LEMMA RowCell ==
  ASSUME NEW row \in [Fds -> Ofds \cup {None}], NEW d \in Fds, NEW v, NEW o
  PROVE  Cardinality(RowHolders([row EXCEPT ![d] = v], o)) =
           Cardinality(RowHolders(row, o)) - (IF row[d] = o THEN 1 ELSE 0)
             + (IF v = o THEN 1 ELSE 0)
<1> DEFINE with == RowHolders([row EXCEPT ![d] = v], o)
           rest == RowHolders(row, o) \ {d}
<1>1. RowHolders(row, o) = IF row[d] = o THEN rest \cup {d} ELSE rest
  BY DEF RowHolders
<1>2. with = IF v = o THEN rest \cup {d} ELSE rest
  BY DEF RowHolders
<1>3. IsFiniteSet(rest) /\ d \notin rest
  BY FiniteRow, FS_RemoveElement
<1> HIDE DEF rest
<1>4. Cardinality(rest) \in Nat /\ Cardinality(rest \cup {d}) = Cardinality(rest) + 1
  BY <1>3, FS_AddElement, FS_CardinalityType
<1> QED
  BY <1>1, <1>2, <1>4

-----------------------------------------------------------------------------
(* The inductive invariant, a part for each group of variables.            *)

\* The tallies count the places that hold a description.
Counted ==
  /\ fds \in FdTables
  /\ tally \in [Ofds -> Nat]
  /\ \A o \in Ofds : tally[o] = Cardinality(Holders(fds, o))

\* The pipes and their bytes.
Buffered ==
  /\ nonblock \in [Ofds -> BOOLEAN]
  /\ buffer \in [Pipes -> Seq(0 .. Stamps - 1)]
  /\ \A k \in Pipes : Len(buffer[k]) <= Capacity
  /\ sent \in [Pipes -> 0 .. Stamps - 1]
  /\ got \in [Pipes -> 0 .. Stamps - 1]
  /\ BytesInOrder

\* A dead process holds nothing.  A process that waits has a wait record and a
\* call; its read is of a read end, and its write is also woken by a hangup.
Waiting(p) ==
  /\ wait[p] \in Waits /\ call[p] \in Calls
  /\ call[p].op = "read" => /\ fds[p][call[p].fd] # None
                            /\ fds[p][call[p].fd][2] = "r"
  /\ call[p].op = "write" => call[p].fd \in wait[p].except

Blocking ==
  /\ wait \in [Procs -> Waits \cup {None}]
  /\ call \in [Procs -> Calls \cup {None}]
  /\ phase \in [Procs -> {"run", "wait", "handler", "dead"}]
  /\ sig \in [Procs -> BOOLEAN]
  /\ delivered \in [Procs -> BOOLEAN]
  /\ \A p \in Procs : /\ phase[p] = "dead" => \A d \in Fds : fds[p][d] = None
                      /\ phase[p] = "wait" => Waiting(p)

IInv == Counted /\ Buffered /\ Blocking

-----------------------------------------------------------------------------
(* What keeps each part.                                                   *)

\* The descriptors of one process are replaced, and the tallies follow.
LEMMA RowCounted ==
  ASSUME Counted, NEW p \in Procs, NEW row \in [Fds -> Ofds \cup {None}],
         fds' = [fds EXCEPT ![p] = row],
         tally' = [o \in Ofds |-> tally'[o]],
         \A o \in Ofds : tally'[o] = tally[o] - Cardinality(RowHolders(fds[p], o))
                                       + Cardinality(RowHolders(row, o))
  PROVE  Counted'
<1>1. fds' \in FdTables
  BY DEF Counted, FdTables
<1>2. ASSUME NEW o \in Ofds
      PROVE  tally'[o] = Cardinality(Holders(fds', o)) /\ tally'[o] \in Nat
  <2>1. Cardinality(Holders(fds', o)) =
           Cardinality(Holders(fds, o)) - Cardinality(RowHolders(fds[p], o))
             + Cardinality(RowHolders(row, o))
    BY RowReplaced, Zenon DEF Counted
  <2>2. Cardinality(Holders(fds', o)) \in Nat
    BY FiniteHolders
  <2>3. tally[o] = Cardinality(Holders(fds, o))
    BY DEF Counted
  <2> QED
    BY <2>1, <2>2, <2>3
<1>3. tally' \in [Ofds -> Nat]
  BY <1>2
<1> QED
  BY <1>1, <1>2, <1>3, Zenon DEF Counted

\* A process that runs changes its own descriptors only, and nobody's wait.
LEMMA OwnDescriptors ==
  ASSUME Blocking, NEW p \in Procs, phase[p] \in {"run", "handler"},
         \A q \in Procs \ {p} : fds'[q] = fds[q],
         UNCHANGED waitVars
  PROVE  Blocking'
<1>1. UNCHANGED <<wait, call, phase, sig, delivered>>
  BY DEF waitVars
<1>2. ASSUME NEW q \in Procs
      PROVE  /\ phase'[q] = "dead" => \A d \in Fds : fds'[q][d] = None
             /\ phase'[q] = "wait" => Waiting(q)'
  <2>1. CASE q = p
    BY <2>1, <1>1
  <2>2. CASE q # p
    BY <2>2, <1>1 DEF Blocking, Waiting
  <2> QED
    BY <2>1, <2>2
<1> QED
  BY <1>1, <1>2 DEF Blocking

\* A call ends, or is interrupted: its process is not waiting any more.
LEMMA Ended ==
  ASSUME Blocking, NEW p \in Procs, UNCHANGED fds,
         NEW ph \in {"run", "handler"}, phase' = [phase EXCEPT ![p] = ph],
         NEW c \in Calls \cup {None}, call' = [call EXCEPT ![p] = c],
         NEW w \in Waits \cup {None}, wait' = [wait EXCEPT ![p] = w],
         NEW s \in BOOLEAN, sig' = [sig EXCEPT ![p] = s],
         NEW t \in BOOLEAN, delivered' = [delivered EXCEPT ![p] = t]
  PROVE  Blocking'
<1>1. /\ wait' \in [Procs -> Waits \cup {None}]
      /\ call' \in [Procs -> Calls \cup {None}]
      /\ phase' \in [Procs -> {"run", "wait", "handler", "dead"}]
      /\ sig' \in [Procs -> BOOLEAN]
      /\ delivered' \in [Procs -> BOOLEAN]
  BY DEF Blocking
<1>2. ASSUME NEW q \in Procs
      PROVE  /\ phase'[q] = "dead" => \A d \in Fds : fds'[q][d] = None
             /\ phase'[q] = "wait" => Waiting(q)'
  <2>1. CASE q = p
    BY <2>1 DEF Blocking
  <2>2. CASE q # p
    <3>1. phase'[q] = phase[q] /\ call'[q] = call[q] /\ wait'[q] = wait[q]
      BY <2>2 DEF Blocking
    <3> QED
      BY <3>1 DEF Blocking, Waiting
  <2> QED
    BY <2>1, <2>2
<1> QED
  BY <1>1, <1>2 DEF Blocking

\* A call blocks with its wait record.
LEMMA Blocked ==
  ASSUME Blocking, NEW p \in Procs, UNCHANGED fds,
         NEW c \in Calls, NEW w \in Waits, Block(p, c, w),
         c.op = "read" => fds[p][c.fd] # None /\ fds[p][c.fd][2] = "r",
         c.op = "write" => c.fd \in w.except
  PROVE  Blocking'
<1>1. /\ phase' = [phase EXCEPT ![p] = "wait"]
      /\ call' = [call EXCEPT ![p] = c]
      /\ wait' = [wait EXCEPT ![p] = w]
      /\ sig' = sig /\ delivered' = delivered
  BY DEF Block
<1>2. /\ wait' \in [Procs -> Waits \cup {None}]
      /\ call' \in [Procs -> Calls \cup {None}]
      /\ phase' \in [Procs -> {"run", "wait", "handler", "dead"}]
      /\ sig' \in [Procs -> BOOLEAN]
      /\ delivered' \in [Procs -> BOOLEAN]
  BY <1>1 DEF Blocking
<1>3. ASSUME NEW q \in Procs
      PROVE  /\ phase'[q] = "dead" => \A d \in Fds : fds'[q][d] = None
             /\ phase'[q] = "wait" => Waiting(q)'
  <2>1. CASE q = p
    <3>1. phase'[q] = "wait" /\ call'[q] = c /\ wait'[q] = w
      BY <2>1, <1>1 DEF Blocking
    <3> QED
      BY <2>1, <3>1 DEF Waiting
  <2>2. CASE q # p
    <3>1. phase'[q] = phase[q] /\ call'[q] = call[q] /\ wait'[q] = wait[q]
      BY <2>2, <1>1 DEF Blocking
    <3> QED
      BY <3>1 DEF Blocking, Waiting
  <2> QED
    BY <2>1, <2>2
<1> QED
  BY <1>2, <1>3 DEF Blocking

\* The three ways a call ends, as functions of the one process.
LEMMA Returned ==
  ASSUME Blocking, NEW p \in Procs, UNCHANGED fds,
         Return(p) \/ ReturnOnly(p) \/ \E c \in Calls \cup {None} : Interrupt(p, c)
  PROVE  Blocking'
<1>1. sig = [sig EXCEPT ![p] = sig[p]] /\ delivered = [delivered EXCEPT ![p] = delivered[p]]
        /\ wait = [wait EXCEPT ![p] = wait[p]]
  BY DEF Blocking
<1>2. sig[p] \in BOOLEAN /\ delivered[p] \in BOOLEAN /\ wait[p] \in Waits \cup {None}
  BY DEF Blocking
<1>3. CASE Return(p)
  BY <1>1, <1>2, <1>3, Ended, Zenon DEF Return
<1>4. CASE ReturnOnly(p)
  BY <1>1, <1>2, <1>4, Ended, Zenon DEF ReturnOnly
<1>5. ASSUME NEW c \in Calls \cup {None}, Interrupt(p, c)
      PROVE  Blocking'
  BY <1>5, Ended, Zenon DEF Interrupt
<1> QED
  BY <1>3, <1>4, <1>5

-----------------------------------------------------------------------------
(* The bytes.                                                              *)

\* The bytes from number g up to number s, in order.
Run(g, s) == [i \in 1 .. (s - g) % Stamps |-> (g + i - 1) % Stamps]

\* Byte numbers go around a ring that is one larger than a buffer.
LEMMA StampsType == Stamps \in Nat \ {0} /\ Capacity = Stamps - 1
BY PipeAssumption DEF Stamps

\* A number that is at most once around the ring, and its place on it.
Place(x) == IF x < 0 THEN x + Stamps ELSE IF x < Stamps THEN x ELSE x - Stamps

\* The place of a number is its remainder.
LEMMA Ring ==
  ASSUME NEW x \in -Stamps .. 2 * Stamps - 1
  PROVE  x % Stamps = Place(x) /\ Place(x) \in 0 .. Stamps - 1
<1>1. Place(x) \in 0 .. Stamps - 1
  BY StampsType DEF Place
<1> QED
  BY <1>1, ModCases, StampsType, Zenon DEF Place

\* A run is a sequence of byte numbers that keeps to the capacity.
LEMMA RunType ==
  ASSUME NEW g \in 0 .. Stamps - 1, NEW s \in 0 .. Stamps - 1
  PROVE  /\ (s - g) % Stamps \in 0 .. Capacity
         /\ Run(g, s) \in Seq(0 .. Stamps - 1)
         /\ Len(Run(g, s)) = (s - g) % Stamps
<1>1. (s - g) % Stamps \in 0 .. Capacity
  <2>1. s - g \in -Stamps .. 2 * Stamps - 1
    BY StampsType
  <2>2. (s - g) % Stamps = Place(s - g) /\ Place(s - g) \in 0 .. Stamps - 1
    BY <2>1, Ring
  <2> QED
    BY <2>2, StampsType
<1>2. \A i \in 1 .. (s - g) % Stamps : (g + i - 1) % Stamps \in 0 .. Stamps - 1
  <2> SUFFICES ASSUME NEW i \in 1 .. (s - g) % Stamps
               PROVE  (g + i - 1) % Stamps \in 0 .. Stamps - 1
    OBVIOUS
  <2>1. g + i - 1 \in -Stamps .. 2 * Stamps - 1
    BY <1>1, StampsType
  <2>2. (g + i - 1) % Stamps = Place(g + i - 1) /\ Place(g + i - 1) \in 0 .. Stamps - 1
    BY <2>1, Ring
  <2> QED
    BY <2>2
<1> DEFINE m == (s - g) % Stamps
<1>3. m \in Nat /\ \A i \in 1 .. m : (g + i - 1) % Stamps \in 0 .. Stamps - 1
  BY <1>1, <1>2, StampsType
<1>4. Run(g, s) = [i \in 1 .. m |-> (g + i - 1) % Stamps]
  BY DEF Run
<1> HIDE DEF m
<1>5. Run(g, s) \in Seq(0 .. Stamps - 1) /\ Len(Run(g, s)) = m
  BY <1>3, <1>4
<1> QED
  BY <1>1, <1>5 DEF m

\* Taking n bytes off the front of a run leaves the run from n further on.
LEMMA RunTail ==
  ASSUME NEW g \in 0 .. Stamps - 1, NEW s \in 0 .. Stamps - 1,
         NEW n \in 0 .. (s - g) % Stamps
  PROVE  /\ (g + n) % Stamps \in 0 .. Stamps - 1
         /\ SubSeq(Run(g, s), n + 1, Len(Run(g, s))) = Run((g + n) % Stamps, s)
<1> DEFINE h == (g + n) % Stamps
           m == (s - g) % Stamps
<1>1. m \in 0 .. Capacity /\ Run(g, s) \in Seq(0 .. Stamps - 1) /\ Len(Run(g, s)) = m
  BY RunType
<1>2. m = IF s < g THEN s - g + Stamps ELSE s - g
  <2>1. s - g \in -Stamps .. 2 * Stamps - 1
    BY StampsType
  <2>2. m = Place(s - g)
    BY <2>1, Ring
  <2> QED
    BY <2>2, StampsType DEF Place
<1>3. n \in 0 .. m
  OBVIOUS
<1>4. h = IF g + n < Stamps THEN g + n ELSE g + n - Stamps
  <2>1. g + n \in -Stamps .. 2 * Stamps - 1
    BY <1>1, <1>3, StampsType
  <2>2. h = Place(g + n)
    BY <2>1, Ring
  <2> QED
    BY <2>2, <1>1, <1>3, StampsType DEF Place
<1> HIDE DEF h, m
<1>5. h \in 0 .. Stamps - 1
  BY <1>1, <1>3, <1>4, StampsType
<1>6. (s - h) % Stamps = m - n
  <2>1. s - h \in -Stamps .. 2 * Stamps - 1
    BY <1>5, StampsType
  <2>2. (s - h) % Stamps = Place(s - h)
    BY <2>1, Ring
  <2>3. Place(s - h) = IF s - h < 0 THEN s - h + Stamps ELSE s - h
    BY <2>1, <1>5, StampsType DEF Place
  <2>4. Place(s - h) = m - n
    BY <2>3, <1>1, <1>2, <1>3, <1>4, <1>5, StampsType, SMT, Z3
  <2> QED
    BY <2>2, <2>4
<1>7. ASSUME NEW i \in 1 .. m - n
      PROVE  (g + (n + i) - 1) % Stamps = (h + i - 1) % Stamps
  <2>1. g + (n + i) - 1 \in -Stamps .. 2 * Stamps - 1 /\ h + i - 1 \in -Stamps .. 2 * Stamps - 1
    BY <1>1, <1>3, <1>5, StampsType
  <2>2. (g + (n + i) - 1) % Stamps = Place(g + (n + i) - 1) /\ Place(g + (n + i) - 1) \in 0 .. Stamps - 1
    BY <2>1, Ring
  <2>3. (h + i - 1) % Stamps = Place(h + i - 1) /\ Place(h + i - 1) \in 0 .. Stamps - 1
    BY <2>1, Ring
  <2>4. Place(g + (n + i) - 1) = Place(h + i - 1)
    BY <2>1, <1>1, <1>3, <1>4, <1>5, StampsType DEF Place
  <2> QED
    BY <2>2, <2>3, <2>4
<1>8. ASSUME NEW i \in 1 .. m - n
      PROVE  Run(g, s)[n + i] = (h + i - 1) % Stamps
  <2>1. n + i \in 1 .. m
    BY <1>1, <1>3
  <2>2. Run(g, s)[n + i] = (g + (n + i) - 1) % Stamps
    BY <2>1 DEF Run, m
  <2> QED
    BY <2>2, <1>7
<1>9. SubSeq(Run(g, s), n + 1, m) = [i \in 1 .. m - n |-> Run(g, s)[n + i]]
  <2>1. SubSeq(Run(g, s), n + 1, m) = [i \in 1 .. m - (n + 1) + 1 |-> Run(g, s)[i + (n + 1) - 1]]
    BY <1>1, <1>3 
  <2>2. m - (n + 1) + 1 = m - n /\ \A i \in 1 .. m - n : i + (n + 1) - 1 = n + i
    BY <1>1, <1>3
  <2> QED
    BY <2>1, <2>2
<1>10. Run(h, s) = [i \in 1 .. m - n |-> (h + i - 1) % Stamps]
  BY <1>6 DEF Run
<1>11. SubSeq(Run(g, s), n + 1, m) = Run(h, s)
  BY <1>8, <1>9, <1>10
<1> QED
  BY <1>1, <1>5, <1>11 DEF h

\* Appending n bytes to a run that has room for them gives the run that ends n
\* further on.
LEMMA RunAppend ==
  ASSUME NEW g \in 0 .. Stamps - 1, NEW s \in 0 .. Stamps - 1, NEW n \in Nat,
         ((s - g) % Stamps) + n <= Capacity
  PROVE  /\ (s + n) % Stamps \in 0 .. Stamps - 1
         /\ Run(g, s) \o [i \in 1 .. n |-> (s + i - 1) % Stamps] = Run(g, (s + n) % Stamps)
<1> DEFINE u == (s + n) % Stamps
           m == (s - g) % Stamps
           more == [i \in 1 .. n |-> (s + i - 1) % Stamps]
<1>1. m \in 0 .. Capacity /\ Run(g, s) \in Seq(0 .. Stamps - 1) /\ Len(Run(g, s)) = m
  BY RunType
<1>2. m = IF s < g THEN s - g + Stamps ELSE s - g
  <2>1. s - g \in -Stamps .. 2 * Stamps - 1
    BY StampsType
  <2>2. m = Place(s - g)
    BY <2>1, Ring
  <2> QED
    BY <2>2, StampsType DEF Place
<1>3. m + n <= Capacity
  OBVIOUS
<1>4. u = IF s + n < Stamps THEN s + n ELSE s + n - Stamps
  <2>1. s + n \in -Stamps .. 2 * Stamps - 1
    BY <1>1, <1>3, StampsType
  <2>2. u = Place(s + n)
    BY <2>1, Ring
  <2> QED
    BY <2>2, <1>1, <1>3, StampsType DEF Place
<1>5. ASSUME NEW i \in 1 .. n
      PROVE  /\ (s + i - 1) % Stamps \in 0 .. Stamps - 1
             /\ (g + (m + i) - 1) % Stamps = (s + i - 1) % Stamps
  <2> HIDE DEF m
  <2>1. s + i - 1 \in -Stamps .. 2 * Stamps - 1 /\ g + (m + i) - 1 \in -Stamps .. 2 * Stamps - 1
    BY <1>1, <1>3, StampsType
  <2>2. (g + (m + i) - 1) % Stamps = Place(g + (m + i) - 1) /\ Place(g + (m + i) - 1) \in 0 .. Stamps - 1
    BY <2>1, Ring
  <2>3. (s + i - 1) % Stamps = Place(s + i - 1) /\ Place(s + i - 1) \in 0 .. Stamps - 1
    BY <2>1, Ring
  <2>4. Place(g + (m + i) - 1) = Place(s + i - 1)
    BY <2>1, <1>1, <1>2, <1>3, StampsType DEF Place
  <2> QED
    BY <2>2, <2>3, <2>4
<1>6. more \in Seq(0 .. Stamps - 1) /\ Len(more) = n
  <2>1. \A i \in 1 .. n : (s + i - 1) % Stamps \in 0 .. Stamps - 1
    BY <1>5, Zenon
  <2> QED
    BY <2>1
<1> HIDE DEF u, m
<1>7. u \in 0 .. Stamps - 1
  BY <1>1, <1>3, <1>4, StampsType
<1>8. (u - g) % Stamps = m + n
  <2>1. u - g \in -Stamps .. 2 * Stamps - 1
    BY <1>7, StampsType
  <2>2. (u - g) % Stamps = Place(u - g)
    BY <2>1, Ring
  <2>3. Place(u - g) = IF u - g < 0 THEN u - g + Stamps ELSE u - g
    BY <2>1, <1>7, StampsType DEF Place
  <2>4. Place(u - g) = m + n
    BY <2>3, <1>1, <1>2, <1>3, <1>4, <1>7, StampsType
  <2> QED
    BY <2>2, <2>4
<1>9. Run(g, u) = [i \in 1 .. m + n |-> (g + i - 1) % Stamps]
  BY <1>8 DEF Run
<1>10. ASSUME NEW i \in 1 .. m + n
       PROVE  (Run(g, s) \o more)[i] = (g + i - 1) % Stamps
  <2>1. CASE i <= m
    <3>1. i \in 1 .. m
      BY <1>1, <2>1
    <3>2. Run(g, s)[i] = (g + i - 1) % Stamps
      BY <3>1 DEF Run, m
    <3>3. (Run(g, s) \o more)[i] = Run(g, s)[i]
      BY <1>1, <1>6, <3>1
    <3> QED
      BY <3>2, <3>3, Zenon
  <2>2. CASE i > m
    <3> DEFINE j == i - m
    <3>1. j \in 1 .. n /\ i = m + j
      BY <1>1, <2>2
    <3>2. more[j] = (s + j - 1) % Stamps
      BY <3>1
    <3>3. (Run(g, s) \o more)[i] = more[j]
      BY <1>1, <1>6, <2>2, <3>1
    <3>4. (g + (m + j) - 1) % Stamps = (s + j - 1) % Stamps
      BY <1>5, <3>1
    <3> QED
      BY <3>1, <3>2, <3>3, <3>4, Zenon
  <2> QED
    BY <2>1, <2>2, <1>1
<1>11. Run(g, s) \o more \in Seq(0 .. Stamps - 1) /\ Len(Run(g, s) \o more) = m + n
  BY <1>1, <1>6
<1>12. Run(g, s) \o more = Run(g, u)
  <2>1. Run(g, u) \in Seq(0 .. Stamps - 1) /\ Len(Run(g, u)) = m + n
    BY <1>7, <1>8, RunType
  <2>2. \A i \in 1 .. m + n : Run(g, u)[i] = (g + i - 1) % Stamps
    BY <1>9
  <2> QED
    BY <2>1, <2>2, <1>10, <1>11, SeqEqual, Zenon
<1> QED
  BY <1>7, <1>12, Zenon DEF u

\* One pipe changes to another run of bytes.
LEMMA PipeChanged ==
  ASSUME Buffered, NEW k \in Pipes,
         NEW g \in 0 .. Stamps - 1, NEW s \in 0 .. Stamps - 1,
         buffer' = [buffer EXCEPT ![k] = Run(g, s)],
         got' = [got EXCEPT ![k] = g],
         sent' = [sent EXCEPT ![k] = s],
         nonblock' \in [Ofds -> BOOLEAN]
  PROVE  Buffered'
<1>1. Run(g, s) \in Seq(0 .. Stamps - 1) /\ Len(Run(g, s)) <= Capacity
  BY RunType, StampsType
<1>2. /\ buffer' \in [Pipes -> Seq(0 .. Stamps - 1)]
      /\ sent' \in [Pipes -> 0 .. Stamps - 1]
      /\ got' \in [Pipes -> 0 .. Stamps - 1]
  BY <1>1 DEF Buffered
<1>3. ASSUME NEW j \in Pipes
      PROVE  Len(buffer'[j]) <= Capacity /\ buffer'[j] = Run(got'[j], sent'[j])
  <2>1. CASE j = k
    BY <2>1, <1>1 DEF Buffered
  <2>2. CASE j # k
    <3>1. buffer'[j] = buffer[j] /\ got'[j] = got[j] /\ sent'[j] = sent[j]
      BY <2>2 DEF Buffered
    <3>2. Len(buffer[j]) <= Capacity /\ buffer[j] = Run(got[j], sent[j])
      BY DEF Buffered, BytesInOrder, Run
    <3> QED
      BY <3>1, <3>2
  <2> QED
    BY <2>1, <2>2
<1>4. BytesInOrder'
  BY <1>3 DEF BytesInOrder, Run
<1> QED
  BY <1>2, <1>3, <1>4 DEF Buffered

\* What the invariant says of one pipe.
LEMMA PipeRun ==
  ASSUME Buffered, NEW k \in Pipes
  PROVE  /\ got[k] \in 0 .. Stamps - 1 /\ sent[k] \in 0 .. Stamps - 1
         /\ buffer[k] = Run(got[k], sent[k])
         /\ Len(buffer[k]) = (sent[k] - got[k]) % Stamps
         /\ Len(buffer[k]) \in 0 .. Capacity
<1>1. got[k] \in 0 .. Stamps - 1 /\ sent[k] \in 0 .. Stamps - 1
  BY DEF Buffered
<1>2. buffer[k] = Run(got[k], sent[k])
  BY DEF Buffered, BytesInOrder, Run
<1> QED
  BY <1>1, <1>2, RunType

\* A read takes bytes off the front.
LEMMA BytesRead ==
  ASSUME Buffered, NEW k \in Pipes, NEW n \in 0 .. Len(buffer[k]),
         buffer' = [buffer EXCEPT ![k] = Received(k, n)],
         got' = [got EXCEPT ![k] = (got[k] + n) % Stamps],
         UNCHANGED <<nonblock, sent>>
  PROVE  Buffered'
<1> DEFINE g == (got[k] + n) % Stamps
<1>1. g \in 0 .. Stamps - 1 /\ Received(k, n) = Run(g, sent[k])
  BY PipeRun, RunTail, Zenon DEF Received
<1>2. sent = [sent EXCEPT ![k] = sent[k]] /\ nonblock \in [Ofds -> BOOLEAN]
  BY DEF Buffered
<1>3. sent[k] \in 0 .. Stamps - 1
  BY PipeRun
<1> HIDE DEF g
<1>4. buffer' = [buffer EXCEPT ![k] = Run(g, sent[k])] /\ got' = [got EXCEPT ![k] = g]
  BY <1>1 DEF g
<1> QED
  BY <1>1, <1>2, <1>3, <1>4, PipeChanged, Zenon

\* A write appends bytes for which there is room.
LEMMA BytesWritten ==
  ASSUME Buffered, NEW k \in Pipes, NEW n \in Nat, Len(buffer[k]) + n <= Capacity,
         buffer' = [buffer EXCEPT ![k] = buffer[k] \o Sent(k, n)],
         sent' = [sent EXCEPT ![k] = (sent[k] + n) % Stamps],
         UNCHANGED <<nonblock, got>>
  PROVE  Buffered'
<1> DEFINE s == (sent[k] + n) % Stamps
<1>1. s \in 0 .. Stamps - 1 /\ buffer[k] \o Sent(k, n) = Run(got[k], s)
  BY PipeRun, RunAppend, Zenon DEF Sent
<1>2. got = [got EXCEPT ![k] = got[k]] /\ nonblock \in [Ofds -> BOOLEAN]
  BY DEF Buffered
<1>3. got[k] \in 0 .. Stamps - 1
  BY PipeRun
<1> HIDE DEF s
<1>4. buffer' = [buffer EXCEPT ![k] = Run(got[k], s)] /\ sent' = [sent EXCEPT ![k] = s]
  BY <1>1 DEF s
<1> QED
  BY <1>1, <1>2, <1>3, <1>4, PipeChanged, Zenon

\* A new pipe is empty.
LEMMA EmptyRun == 0 \in 0 .. Stamps - 1 /\ Run(0, 0) = <<>>
<1>1. 0 \in 0 .. Stamps - 1 /\ 0 - 0 \in -Stamps .. 2 * Stamps - 1 /\ 0 - 0 = 0
  BY StampsType
<1>2. (0 - 0) % Stamps = Place(0 - 0)
  BY <1>1, Ring
<1>3. (0 - 0) % Stamps = 0
  BY <1>1, <1>2, StampsType DEF Place
<1> QED
  BY <1>1, <1>3 DEF Run

\* The pipes are left alone.
LEMMA PipesKept ==
  ASSUME UNCHANGED pipeVars, Buffered
  PROVE  Buffered'
BY DEF pipeVars, Buffered, BytesInOrder

\* The descriptors are left alone.
LEMMA CountsKept ==
  ASSUME UNCHANGED <<fds, tally>>, Counted
  PROVE  Counted'
BY DEF Counted

-----------------------------------------------------------------------------
(* The imports.                                                            *)

\* read: end of file, bytes, EAGAIN, an interruption or a wait.
LEMMA ReadStep ==
  ASSUME IInv, NEW p \in Procs, NEW c \in Calls, c.op = "read", UNCHANGED fds,
         Read(p, c)
  PROVE  Buffered' /\ Blocking'
<1> DEFINE o == fds[p][c.fd]
           k == o[1]
<1>1. c.fd \in Fds /\ c.count \in 1 .. MaxCount
  BY DEF Calls
<1>2. o \in Ofds \cup {None}
  BY <1>1 DEF IInv, Counted, FdTables
<1>3. CASE o = None \/ o[2] = "w"
  <2>1. ReturnOnly(p) /\ UNCHANGED pipeVars
    BY <1>3 DEF Read
  <2> QED
    BY <2>1, PipesKept, Returned, Zenon DEF IInv
<1>4. CASE o # None /\ o[2] # "w"
  <2>1. o \in Ofds /\ k \in Pipes /\ o[2] = "r"
    BY <1>2, <1>4 DEF Ofds
  <2>2. CASE buffer[k] # <<>>
    <3> DEFINE n == Min({c.count, Len(buffer[k])})
    <3>1. /\ buffer' = [buffer EXCEPT ![k] = Received(k, n)]
          /\ got' = [got EXCEPT ![k] = (got[k] + n) % Stamps]
          /\ Return(p)
          /\ UNCHANGED <<nonblock, sent>>
      BY <1>4, <2>2 DEF Read
    <3>2. Len(buffer[k]) \in Nat /\ c.count \in Nat
      BY <1>1, <2>1, PipeRun, PipeAssumption DEF IInv
    <3>3. n \in 0 .. Len(buffer[k])
      <4>1. n \in {c.count, Len(buffer[k])} /\ n <= Len(buffer[k])
        BY <3>2, MinOfTwo, Zenon
      <4> QED
        BY <3>2, <4>1
    <3> HIDE DEF n
    <3>4. Buffered'
      BY <2>1, <3>1, <3>3, BytesRead, Zenon DEF IInv
    <3>5. Blocking'
      BY <3>1, Returned DEF IInv
    <3> QED
      BY <3>4, <3>5, Zenon
  <2>3. CASE buffer[k] = <<>>
    <3> DEFINE w == IF wait[p] # None THEN wait[p]
                    ELSE [read |-> {c.fd}, write |-> {}, except |-> {}, timed |-> FALSE]
    <3>1. /\ UNCHANGED pipeVars
          /\ ReturnOnly(p) \/ Return(p) \/ Interrupt(p, c) \/ Block(p, c, w)
      BY <1>4, <2>3 DEF Read
    <3>2. w \in Waits
      <4>1. wait[p] \in Waits \cup {None}
        BY DEF IInv, Blocking
      <4>2. [read |-> {c.fd}, write |-> {}, except |-> {}, timed |-> FALSE] \in Waits
        BY <1>1 DEF Waits
      <4> QED
        BY <4>1, <4>2
    <3> HIDE DEF w
    <3>3. CASE Block(p, c, w)
      <4>1. Blocking'
        BY <2>1, <1>4, <3>2, <3>3, Blocked DEF IInv
      <4> QED
        BY <3>1, <4>1, PipesKept DEF IInv
    <3>4. CASE ReturnOnly(p) \/ Return(p) \/ Interrupt(p, c)
      BY <3>1, <3>4, PipesKept, Returned DEF IInv
    <3> QED
      BY <3>1, <3>3, <3>4, Zenon
  <2> QED
    BY <2>2, <2>3
<1> QED
  BY <1>3, <1>4

\* write: EPIPE, bytes, EAGAIN, an interruption or a wait.
LEMMA WriteStep ==
  ASSUME IInv, NEW p \in Procs, NEW c \in Calls, c.op = "write", UNCHANGED fds,
         Write(p, c)
  PROVE  Buffered' /\ Blocking'
<1> DEFINE o == fds[p][c.fd]
           k == o[1]
<1>1. c.fd \in Fds /\ c.count \in 1 .. MaxCount
  BY DEF Calls
<1>2. o \in Ofds \cup {None}
  BY <1>1 DEF IInv, Counted, FdTables
<1>3. CASE o = None \/ o[2] = "r" \/ tally[R(k)] = 0
  <2>1. ReturnOnly(p) /\ UNCHANGED pipeVars
    BY <1>3, Zenon DEF Write
  <2> QED
    BY <2>1, PipesKept, Returned DEF IInv
<1>4. CASE ~(o = None \/ o[2] = "r" \/ tally[R(k)] = 0)
  <2>1. o \in Ofds /\ k \in Pipes
    BY <1>2, <1>4 DEF Ofds
  <2>2. CASE ~MustWait(o, c.count)
    <3> DEFINE n == Accepted(k, c.count)
    <3>1. /\ buffer' = [buffer EXCEPT ![k] = buffer[k] \o Sent(k, n)]
          /\ sent' = [sent EXCEPT ![k] = (sent[k] + n) % Stamps]
          /\ Return(p)
          /\ UNCHANGED <<nonblock, got>>
      BY <1>4, <2>2, Zenon DEF Write
    <3>2. Len(buffer[k]) \in 0 .. Capacity /\ c.count \in Nat
      BY <1>1, <2>1, PipeRun, PipeAssumption DEF IInv
    <3>3. n \in Nat /\ Len(buffer[k]) + n <= Capacity
      <4> DEFINE room == Capacity - Len(buffer[k])
      <4>1. room \in Nat /\ Len(buffer[k]) + room = Capacity
        BY <3>2, PipeAssumption
      <4>2. n = Min({c.count, room})
        BY DEF Accepted
      <4> HIDE DEF room, n
      <4>3. n \in {c.count, room} /\ n <= room
        BY <3>2, <4>1, <4>2, MinOfTwo
      <4> QED
        BY <3>2, <4>1, <4>3
    <3> HIDE DEF n
    <3>4. Buffered'
      BY <2>1, <3>1, <3>3, BytesWritten, ZenonT(60) DEF IInv
    <3>5. Blocking'
      BY <3>1, Returned DEF IInv
    <3> QED
      BY <3>4, <3>5
  <2>3. CASE MustWait(o, c.count)
    <3> DEFINE w == [read |-> {}, write |-> {c.fd}, except |-> {c.fd},
                     timed |-> wait[p] # None /\ wait[p].timed]
               Consumed == /\ phase' = [phase EXCEPT ![p] = "run"]
                           /\ call' = [call EXCEPT ![p] = None]
                           /\ wait' = [wait EXCEPT ![p] = None]
                           /\ sig' = [sig EXCEPT ![p] = FALSE]
                           /\ delivered' = [delivered EXCEPT ![p] = TRUE]
    <3>1. UNCHANGED pipeVars /\ (Return(p) \/ Consumed \/ Block(p, c, w))
      BY <1>4, <2>3, Zenon DEF Write
    <3>2. w \in Waits /\ c.fd \in w.except
      <4>1. wait[p] \in Waits \cup {None}
        BY DEF IInv, Blocking
      <4>2. (wait[p] # None /\ wait[p].timed) \in BOOLEAN
        BY <4>1 DEF Waits
      <4> QED
        BY <1>1, <4>2 DEF Waits
    <3> HIDE DEF w
    <3>3. CASE Block(p, c, w)
      <4>1. Blocking'
        BY <3>2, <3>3, Blocked DEF IInv
      <4> QED
        BY <3>1, <4>1, PipesKept DEF IInv
    <3>4. CASE Return(p)
      BY <3>1, <3>4, PipesKept, Returned DEF IInv
    <3>5. CASE Consumed
      <4>1. Blocking'
        BY <3>5, Ended, Zenon DEF IInv
      <4> QED
        BY <3>1, <4>1, PipesKept DEF IInv
    <3> QED
      BY <3>1, <3>3, <3>4, <3>5, Zenon
  <2> QED
    BY <2>2, <2>3
<1> QED
  BY <1>3, <1>4

\* select: ready descriptors, zero, an interruption or a wait.
LEMMA SelectStep ==
  ASSUME IInv, NEW p \in Procs, NEW c \in Calls, c.op = "select", UNCHANGED fds,
         Select(p, c)
  PROVE  Buffered' /\ Blocking'
<1> DEFINE w == [read |-> c.read, write |-> c.write, except |-> {},
                 timed |-> IF wait[p] # None THEN wait[p].timed ELSE c.timeout = "some"]
<1>1. UNCHANGED pipeVars /\ (Interrupt(p, c) \/ Return(p) \/ Block(p, c, w))
  BY DEF Select
<1>2. w \in Waits
  <2>1. wait[p] \in Waits \cup {None}
    BY DEF IInv, Blocking
  <2>2. (IF wait[p] # None THEN wait[p].timed ELSE c.timeout = "some") \in BOOLEAN
    BY <2>1, Zenon DEF Waits
  <2>3. c.read \in SUBSET Fds /\ c.write \in SUBSET Fds
    BY DEF Calls
  <2> QED
    BY <2>2, <2>3 DEF Waits
<1> HIDE DEF w
<1>3. Buffered'
  BY <1>1, PipesKept DEF IInv
<1>4. CASE Block(p, c, w)
  <2>1. Blocking'
    BY <1>2, <1>4, Blocked DEF IInv
  <2> QED
    BY <1>3, <2>1
<1>5. CASE Interrupt(p, c) \/ Return(p)
  BY <1>3, <1>5, Returned DEF IInv
<1> QED
  BY <1>1, <1>4, <1>5

\* Any of the three, at the first call and when it is called again.
LEMMA ImportStep ==
  ASSUME IInv, NEW p \in Procs, NEW c \in Calls, Import(p, c), UNCHANGED <<fds, tally>>
  PROVE  IInv'
<1>1. c.op \in {"read", "write", "select"}
  BY DEF Calls
<1>2. CASE c.op = "read"
  <2>1. Read(p, c)
    BY <1>2 DEF Import
  <2> QED
    BY <1>2, <2>1, ReadStep, CountsKept DEF IInv
<1>3. CASE c.op = "write"
  <2>1. Write(p, c)
    BY <1>3 DEF Import
  <2> QED
    BY <1>3, <2>1, WriteStep, CountsKept DEF IInv
<1>4. CASE c.op = "select"
  <2>1. Select(p, c)
    BY <1>4 DEF Import
  <2> QED
    BY <1>4, <2>1, SelectStep, CountsKept DEF IInv
<1> QED
  BY <1>1, <1>2, <1>3, <1>4

-----------------------------------------------------------------------------
(* Descriptors.                                                            *)

\* The row of a process, and what a description is.
LEMMA RowType ==
  ASSUME IInv, NEW p \in Procs
  PROVE  /\ fds[p] \in [Fds -> Ofds \cup {None}]
         /\ \A d \in Fds : fds[p][d] # None => fds[p][d] \in Ofds
BY NoneAssumption DEF IInv, Counted, FdTables

\* Nobody holds a description that is counted zero times.
LEMMA NoneHeld ==
  ASSUME IInv, NEW o \in Ofds, tally[o] = 0
  PROVE  Holders(fds, o) = {} /\ \A p \in Procs : RowHolders(fds[p], o) = {}
<1>1. Cardinality(Holders(fds, o)) = 0
  BY DEF IInv, Counted
<1>2. Holders(fds, o) = {}
  BY <1>1, FiniteHolders, FS_EmptySet
<1>3. ASSUME NEW p \in Procs, NEW d \in RowHolders(fds[p], o)
      PROVE  FALSE
  <2>1. <<p, d>> \in Procs \X Fds /\ fds[p][d] = o
    BY <1>3 DEF RowHolders
  <2>2. <<p, d>> \in Holders(fds, o)
    BY <2>1 DEF Holders
  <2> QED
    BY <1>2, <2>2
<1> QED
  BY <1>2, <1>3

\* The two lowest free descriptors of a process that has two.
LEMMA TwoFree ==
  ASSUME NEW p \in Procs, Cardinality(Free(p, 0)) >= 2
  PROVE  LET rfd == Min(Free(p, 0))
             wfd == Min(Free(p, rfd + 1))
         IN  /\ rfd \in Fds /\ wfd \in Fds /\ rfd # wfd
             /\ fds[p][rfd] = None /\ fds[p][wfd] = None
<1> DEFINE rfd == Min(Free(p, 0))
           wfd == Min(Free(p, rfd + 1))
<1>1. Free(p, 0) \in SUBSET Nat /\ Free(p, 0) \subseteq Fds
  BY PipeAssumption DEF Free, Fds
<1>2. Free(p, 0) # {}
  BY FS_EmptySet
<1>3. rfd \in Free(p, 0) /\ \A y \in Free(p, 0) : rfd <= y
  BY <1>1, <1>2, MinIsLeast
<1> HIDE DEF rfd
<1>4. rfd \in Nat
  BY <1>1, <1>3
<1>5. Free(p, 0) # {rfd}
  <2>1. Cardinality({rfd}) = 1
    BY FS_Singleton, Zenon
  <2> QED
    BY <2>1
<1>6. PICK e \in Free(p, 0) : e # rfd
  BY <1>3, <1>5
<1>7. e >= rfd + 1
  BY <1>1, <1>3, <1>4, <1>6
<1>8. e \in Free(p, rfd + 1)
  BY <1>6, <1>7 DEF Free
<1>9. Free(p, rfd + 1) \in SUBSET Nat
  BY PipeAssumption DEF Free, Fds
<1>10. wfd \in Free(p, rfd + 1)
  BY <1>8, <1>9, MinIsLeast
<1> HIDE DEF wfd
<1>11. wfd \in Fds /\ wfd >= rfd + 1 /\ fds[p][wfd] = None /\ wfd \in Nat
  BY <1>9, <1>10 DEF Free
<1>12. rfd # wfd
  BY <1>4, <1>11
<1>13. fds[p][rfd] = None /\ rfd \in Fds
  BY <1>3 DEF Free
<1> QED
  BY <1>11, <1>12, <1>13 DEF rfd, wfd

\* pipe takes two free descriptors.
LEMMA PipeStep ==
  ASSUME IInv, NEW p \in Procs, NEW k \in Pipes, Pipe(p, k)
  PROVE  IInv'
<1> DEFINE rfd == Min(Free(p, 0))
           wfd == Min(Free(p, rfd + 1))
           row1 == [fds[p] EXCEPT ![rfd] = R(k)]
           row2 == [row1 EXCEPT ![wfd] = W(k)]
<1>1. /\ rfd \in Fds /\ wfd \in Fds /\ rfd # wfd
      /\ fds[p][rfd] = None /\ fds[p][wfd] = None
  BY TwoFree DEF Pipe
<1>2. /\ R(k) \in Ofds /\ W(k) \in Ofds /\ R(k) # W(k)
      /\ R(k) # None /\ W(k) # None
  BY NoneAssumption DEF Ofds, R, W
<1>3. /\ phase[p] \in {"run", "handler"}
      /\ tally[R(k)] = 0 /\ tally[W(k)] = 0
      /\ fds' = [fds EXCEPT ![p] = row2]
      /\ tally' = [tally EXCEPT ![R(k)] = 1, ![W(k)] = 1]
      /\ nonblock' = [nonblock EXCEPT ![R(k)] = FALSE, ![W(k)] = FALSE]
      /\ buffer' = [buffer EXCEPT ![k] = <<>>]
      /\ sent' = [sent EXCEPT ![k] = 0]
      /\ got' = [got EXCEPT ![k] = 0]
      /\ UNCHANGED waitVars
  BY DEF Pipe, Active
<1> HIDE DEF rfd, wfd
<1>4. row1 \in [Fds -> Ofds \cup {None}] /\ row2 \in [Fds -> Ofds \cup {None}]
  BY <1>1, <1>2, RowType
<1>5. row1[rfd] = R(k) /\ row1[wfd] = None
  BY <1>1, RowType
<1>6. ASSUME NEW o \in Ofds
      PROVE  tally'[o] = tally[o] - Cardinality(RowHolders(fds[p], o))
                                       + Cardinality(RowHolders(row2, o))
  <2>1. Cardinality(RowHolders(row1, o)) = Cardinality(RowHolders(fds[p], o))
                      - (IF fds[p][rfd] = o THEN 1 ELSE 0) + (IF R(k) = o THEN 1 ELSE 0)
    <3>1. fds[p] \in [Fds -> Ofds \cup {None}]
      BY RowType
    <3> QED
      BY <1>1, <3>1, RowCell, SMT, Z3
  <2>2. Cardinality(RowHolders(row2, o)) = Cardinality(RowHolders(row1, o))
                      - (IF row1[wfd] = o THEN 1 ELSE 0) + (IF W(k) = o THEN 1 ELSE 0)
    BY <1>1, <1>4, RowCell, SMT, Z3
  <2>3. None # o
    BY NoneAssumption
  <2>4. Cardinality(RowHolders(row2, o)) = Cardinality(RowHolders(fds[p], o))
                      + (IF o = R(k) \/ o = W(k) THEN 1 ELSE 0)
    BY <1>1, <1>2, <1>5, <2>1, <2>2, <2>3, FiniteRow
  <2>5. tally'[o] = tally[o] + (IF o = R(k) \/ o = W(k) THEN 1 ELSE 0)
    BY <1>2, <1>3 DEF IInv, Counted
  <2> QED
    BY <2>4, <2>5, FiniteRow DEF IInv, Counted
<1> HIDE DEF row1, row2
<1>7. Counted'
  <2>1. tally' = [o \in Ofds |-> tally'[o]]
    BY <1>3, Zenon DEF IInv, Counted
  <2> QED
    BY <1>3, <1>4, <1>6, <2>1, RowCounted, Zenon DEF IInv
<1>8. Buffered'
  <2>1. nonblock' \in [Ofds -> BOOLEAN]
    BY <1>3, Zenon DEF IInv, Buffered
  <2> QED
    BY <1>3, <2>1, EmptyRun, PipeChanged, Zenon DEF IInv
<1>9. Blocking'
  <2>1. \A q \in Procs \ {p} : fds'[q] = fds[q]
    BY <1>3 DEF IInv, Counted, FdTables
  <2> QED
    BY <1>3, <2>1, OwnDescriptors DEF IInv
<1> QED
  BY <1>7, <1>8, <1>9 DEF IInv

\* One descriptor d of p goes from one description to v, which may be none.
Moves(p, d, v) ==
  /\ fds' = [fds EXCEPT ![p] = [fds[p] EXCEPT ![d] = v]]
  /\ tally' = [o \in Ofds |-> tally'[o]]
  /\ \A o \in Ofds : tally'[o] = tally[o] - (IF fds[p][d] = o THEN 1 ELSE 0)
                                          + (IF v = o THEN 1 ELSE 0)

\* One descriptor of a running process changes, and the tallies with it.
LEMMA DescriptorStep ==
  ASSUME IInv, NEW p \in Procs, phase[p] \in {"run", "handler"},
         NEW d \in Fds, NEW v \in Ofds \cup {None},
         Moves(p, d, v), UNCHANGED <<pipeVars, waitVars>>
  PROVE  IInv'
<1> USE DEF Moves
<1> DEFINE row == [fds[p] EXCEPT ![d] = v]
<1>1. row \in [Fds -> Ofds \cup {None}]
  BY RowType
<1>2. ASSUME NEW o \in Ofds
      PROVE  tally'[o] = tally[o] - Cardinality(RowHolders(fds[p], o))
                                       + Cardinality(RowHolders(row, o))
  <2>1. Cardinality(RowHolders(row, o)) = Cardinality(RowHolders(fds[p], o))
                      - (IF fds[p][d] = o THEN 1 ELSE 0) + (IF v = o THEN 1 ELSE 0)
    <3>1. fds[p] \in [Fds -> Ofds \cup {None}]
      BY RowType
    <3> QED
      BY <3>1, RowCell, SMT, Z3
  <2>2. tally[o] \in Nat /\ Cardinality(RowHolders(fds[p], o)) \in Nat
    BY FiniteRow DEF IInv, Counted
  <2> QED
    BY <2>1, <2>2
<1> HIDE DEF row
<1>3. Counted'
  BY <1>1, <1>2, RowCounted, Zenon DEF IInv, row
<1>4. \A q \in Procs \ {p} : fds'[q] = fds[q]
  BY DEF IInv, Counted, FdTables
<1>5. Blocking'
  BY <1>4, OwnDescriptors DEF IInv
<1> QED
  BY <1>3, <1>5, PipesKept DEF IInv

\* close of an open descriptor.
LEMMA CloseStep ==
  ASSUME IInv, NEW p \in Procs, NEW d \in Fds, Close(p, d)
  PROVE  IInv'
<1>1. /\ phase[p] \in {"run", "handler"} /\ fds[p][d] # None
      /\ fds' = [fds EXCEPT ![p][d] = None]
      /\ tally' = [tally EXCEPT ![fds[p][d]] = tally[fds[p][d]] - 1]
      /\ UNCHANGED <<pipeVars, waitVars>>
  BY DEF Close, Active
<1>2. fds[p][d] \in Ofds
  BY <1>1, RowType
<1>3. fds' = [fds EXCEPT ![p] = [fds[p] EXCEPT ![d] = None]]
  BY <1>1
<1>4. tally' = [o \in Ofds |-> tally'[o]]
  BY <1>1, Zenon DEF IInv, Counted
<1>5. ASSUME NEW o \in Ofds
      PROVE  tally'[o] = tally[o] - (IF fds[p][d] = o THEN 1 ELSE 0)
                                  + (IF None = o THEN 1 ELSE 0)
  BY <1>1, <1>2, NoneAssumption DEF IInv, Counted
<1>6. Moves(p, d, None)
  BY <1>3, <1>4, <1>5 DEF Moves
<1> QED
  BY <1>1, <1>6, DescriptorStep

\* dup2 closes its target first.
LEMMA Dup2Step ==
  ASSUME IInv, NEW p \in Procs, NEW old \in Fds, NEW new \in Fds, Dup2(p, old, new)
  PROVE  IInv'
<1> DEFINE a == fds[p][old]
           b == fds[p][new]
           closed == IF b = None THEN tally ELSE [tally EXCEPT ![b] = tally[b] - 1]
<1>1. /\ phase[p] \in {"run", "handler"} /\ a # None
      /\ fds' = [fds EXCEPT ![p][new] = a]
      /\ tally' = [closed EXCEPT ![a] = closed[a] + 1]
      /\ UNCHANGED <<pipeVars, waitVars>>
  BY DEF Dup2, Active
<1>2. a \in Ofds /\ b \in Ofds \cup {None}
  BY <1>1, RowType
<1>3. fds' = [fds EXCEPT ![p] = [fds[p] EXCEPT ![new] = a]]
  BY <1>1
<1> HIDE DEF a
<1>4. closed \in [Ofds -> Int]
  BY <1>2 DEF IInv, Counted
<1>5. ASSUME NEW o \in Ofds
      PROVE  closed[o] = tally[o] - (IF b = o THEN 1 ELSE 0)
  <2>1. CASE b = None
    BY <2>1, NoneAssumption DEF IInv, Counted
  <2>2. CASE b # None
    BY <2>2, <1>2 DEF IInv, Counted
  <2> QED
    BY <2>1, <2>2
<1> HIDE DEF closed
<1>6. tally' = [o \in Ofds |-> tally'[o]]
  BY <1>1, <1>4, Zenon
<1>7. ASSUME NEW o \in Ofds
      PROVE  tally'[o] = tally[o] - (IF b = o THEN 1 ELSE 0) + (IF a = o THEN 1 ELSE 0)
  <2>1. tally[o] \in Nat
    BY DEF IInv, Counted
  <2>2. closed[o] = tally[o] - (IF b = o THEN 1 ELSE 0)
    BY <1>5
  <2>3. CASE a = o
    BY <2>1, <2>2, <2>3, <1>1, <1>2, <1>4
  <2>4. CASE a # o
    BY <2>1, <2>2, <2>4, <1>1, <1>2, <1>4
  <2> QED
    BY <2>3, <2>4
<1>8. Moves(p, new, a)
  BY <1>3, <1>6, <1>7 DEF Moves
<1> QED
  BY <1>1, <1>2, <1>8, DescriptorStep

\* dup takes a free descriptor.
LEMMA DupStep ==
  ASSUME IInv, NEW p \in Procs, NEW old \in Fds, NEW least \in Fds, Dup(p, old, least)
  PROVE  IInv'
<1> DEFINE a == fds[p][old]
           d == Min(Free(p, least))
<1>1. /\ phase[p] \in {"run", "handler"} /\ a # None /\ Free(p, least) # {}
      /\ fds' = [fds EXCEPT ![p][d] = a]
      /\ tally' = [tally EXCEPT ![a] = tally[a] + 1]
      /\ UNCHANGED <<pipeVars, waitVars>>
  BY DEF Dup, Active
<1>2. d \in Fds /\ fds[p][d] = None
  <2>1. Free(p, least) \in SUBSET Nat
    BY PipeAssumption DEF Free, Fds
  <2>2. d \in Free(p, least)
    BY <1>1, <2>1, MinIsLeast
  <2> QED
    BY <2>2 DEF Free
<1>3. a \in Ofds
  BY <1>1, RowType
<1> HIDE DEF a, d
<1>4. fds' = [fds EXCEPT ![p] = [fds[p] EXCEPT ![d] = a]]
  BY <1>1
<1>5. tally' = [o \in Ofds |-> tally'[o]]
  BY <1>1, Zenon DEF IInv, Counted
<1>6. ASSUME NEW o \in Ofds
      PROVE  tally'[o] = tally[o] - (IF fds[p][d] = o THEN 1 ELSE 0) + (IF a = o THEN 1 ELSE 0)
  BY <1>1, <1>2, <1>3, NoneAssumption DEF IInv, Counted
<1>7. Moves(p, d, a)
  BY <1>4, <1>5, <1>6 DEF Moves
<1> QED
  BY <1>1, <1>2, <1>3, <1>7, DescriptorStep

\* The descriptors D of p are closed one by one.
LEMMA SetClosed ==
  ASSUME IInv, NEW p \in Procs, NEW D \in SUBSET Fds, CloseSet(p, D)
  PROVE  /\ Counted'
         /\ \A q \in Procs \ {p} : fds'[q] = fds[q]
         /\ \A d \in D : fds'[p][d] = None
<1> DEFINE row == [d \in Fds |-> IF d \in D THEN None ELSE fds[p][d]]
<1>1. /\ fds' = [fds EXCEPT ![p] = row]
      /\ tally' = [o \in Ofds |-> tally[o] - Cardinality(On(p, D, o))]
  BY DEF CloseSet
<1>2. row \in [Fds -> Ofds \cup {None}]
  BY RowType
<1>3. ASSUME NEW o \in Ofds
      PROVE  tally'[o] = tally[o] - Cardinality(RowHolders(fds[p], o))
                                       + Cardinality(RowHolders(row, o))
  <2>1. RowHolders(row, o) = RowHolders(fds[p], o) \ On(p, D, o)
    BY NoneAssumption DEF RowHolders, On
  <2>2. RowHolders(fds[p], o) \cap On(p, D, o) = On(p, D, o)
    BY DEF RowHolders, On
  <2>3. IsFiniteSet(On(p, D, o))
    <3>1. On(p, D, o) \in SUBSET Fds
      BY DEF On
    <3> QED
      BY <3>1, FiniteTables, FS_Subset
  <2>4. Cardinality(On(p, D, o)) \in Nat
    BY <2>3, FS_CardinalityType
  <2>5. Cardinality(RowHolders(row, o))
          = Cardinality(RowHolders(fds[p], o)) - Cardinality(On(p, D, o))
    <3> HIDE DEF row
    <3> QED
      BY <2>1, <2>2, FiniteRow, FS_Difference, Zenon
  <2>6. tally[o] \in Nat /\ Cardinality(RowHolders(fds[p], o)) \in Nat
    BY FiniteRow DEF IInv, Counted
  <2>7. tally'[o] = tally[o] - Cardinality(On(p, D, o))
    BY <1>1
  <2> QED
    BY <2>4, <2>5, <2>6, <2>7
<1>4. tally' = [o \in Ofds |-> tally'[o]]
  BY <1>1
<1>5. /\ \A q \in Procs \ {p} : fds'[q] = fds[q]
      /\ fds'[p] = row
  BY <1>1 DEF IInv, Counted, FdTables
<1>6. \A d \in D : fds'[p][d] = None
  BY <1>5
<1> HIDE DEF row
<1>7. Counted'
  BY <1>1, <1>2, <1>3, <1>4, RowCounted, Zenon DEF IInv
<1> QED
  BY <1>5, <1>6, <1>7

\* exec closes the descriptors that are marked.
LEMMA ExecStep ==
  ASSUME IInv, NEW p \in Procs, NEW D \in SUBSET Fds, Exec(p, D)
  PROVE  IInv'
<1>1. /\ phase[p] = "run" /\ CloseSet(p, D)
      /\ delivered' = [delivered EXCEPT ![p] = FALSE]
      /\ UNCHANGED <<pipeVars, wait, call, phase, sig>>
  BY DEF Exec
<1>2. Counted' /\ \A q \in Procs \ {p} : fds'[q] = fds[q]
  BY <1>1, SetClosed
<1>3. ASSUME NEW q \in Procs
      PROVE  /\ phase'[q] = "dead" => \A d \in Fds : fds'[q][d] = None
             /\ phase'[q] = "wait" => Waiting(q)'
  <2>1. CASE q = p
    BY <2>1, <1>1, Zenon
  <2>2. CASE q # p
    BY <2>2, <1>1, <1>2 DEF IInv, Blocking, Waiting
  <2> QED
    BY <2>1, <2>2
<1>4. Blocking'
  BY <1>1, <1>3 DEF IInv, Blocking
<1>5. Buffered'
  BY <1>1, PipesKept DEF IInv
<1> QED
  BY <1>2, <1>4, <1>5 DEF IInv

\* exit and death by signal close all of them.
LEMMA ExitStep ==
  ASSUME IInv, NEW p \in Procs, Exit(p)
  PROVE  IInv'
<1>1. /\ CloseSet(p, Fds)
      /\ wait' = [wait EXCEPT ![p] = None]
      /\ call' = [call EXCEPT ![p] = None]
      /\ phase' = [phase EXCEPT ![p] = "dead"]
      /\ sig' = [sig EXCEPT ![p] = FALSE]
      /\ delivered' = [delivered EXCEPT ![p] = FALSE]
      /\ UNCHANGED pipeVars
  BY DEF Exit
<1>2. /\ Counted' /\ \A q \in Procs \ {p} : fds'[q] = fds[q]
      /\ \A d \in Fds : fds'[p][d] = None
  BY <1>1, SetClosed
<1>3. ASSUME NEW q \in Procs
      PROVE  /\ phase'[q] = "dead" => \A d \in Fds : fds'[q][d] = None
             /\ phase'[q] = "wait" => Waiting(q)'
  <2>1. CASE q = p
    BY <2>1, <1>1, <1>2, Zenon DEF IInv, Blocking
  <2>2. CASE q # p
    <3>1. phase'[q] = phase[q] /\ call'[q] = call[q] /\ wait'[q] = wait[q]
      BY <2>2, <1>1 DEF IInv, Blocking
    <3> QED
      BY <2>2, <3>1, <1>2 DEF IInv, Blocking, Waiting
  <2> QED
    BY <2>1, <2>2
<1>4. /\ wait' \in [Procs -> Waits \cup {None}]
      /\ call' \in [Procs -> Calls \cup {None}]
      /\ phase' \in [Procs -> {"run", "wait", "handler", "dead"}]
      /\ sig' \in [Procs -> BOOLEAN]
      /\ delivered' \in [Procs -> BOOLEAN]
  BY <1>1 DEF IInv, Blocking
<1>5. Blocking'
  BY <1>3, <1>4 DEF Blocking
<1>6. Buffered'
  BY <1>1, PipesKept DEF IInv
<1> QED
  BY <1>2, <1>5, <1>6 DEF IInv

\* fork copies the table into a slot that held none.
LEMMA ForkStep ==
  ASSUME IInv, NEW p \in Procs, NEW c \in Procs, Fork(p, c)
  PROVE  IInv'
<1>1. /\ phase[p] = "run" /\ phase[c] = "dead"
      /\ fds' = [fds EXCEPT ![c] = fds[p]]
      /\ tally' = [o \in Ofds |-> tally[o] + Cardinality(On(p, Fds, o))]
      /\ phase' = [phase EXCEPT ![c] = "run"]
      /\ UNCHANGED <<pipeVars, wait, call, sig, delivered>>
  BY DEF Fork
<1>2. ASSUME NEW o \in Ofds
      PROVE  tally'[o] = tally[o] - Cardinality(RowHolders(fds[c], o))
                                       + Cardinality(RowHolders(fds[p], o))
  <2>1. RowHolders(fds[c], o) = {}
    BY <1>1, NoneAssumption DEF IInv, Blocking, RowHolders
  <2>2. On(p, Fds, o) = RowHolders(fds[p], o)
    BY DEF On, RowHolders
  <2>3. Cardinality(RowHolders(fds[c], o)) = 0
    BY <2>1, FS_EmptySet
  <2>4. tally[o] \in Nat /\ Cardinality(RowHolders(fds[p], o)) \in Nat
    BY FiniteRow DEF IInv, Counted
  <2> QED
    BY <1>1, <2>2, <2>3, <2>4
<1>3. fds[p] \in [Fds -> Ofds \cup {None}]
  BY RowType
<1>4. tally' = [o \in Ofds |-> tally'[o]]
  BY <1>1
<1>5. Counted'
  BY <1>1, <1>2, <1>3, <1>4, RowCounted, Zenon DEF IInv
<1>6. ASSUME NEW q \in Procs
      PROVE  /\ phase'[q] = "dead" => \A d \in Fds : fds'[q][d] = None
             /\ phase'[q] = "wait" => Waiting(q)'
  <2>1. CASE q = c
    BY <2>1, <1>1, Zenon DEF IInv, Blocking
  <2>2. CASE q # c
    <3>1. phase'[q] = phase[q] /\ call'[q] = call[q] /\ wait'[q] = wait[q] /\ fds'[q] = fds[q]
      BY <2>2, <1>1 DEF IInv, Blocking, Counted, FdTables
    <3> QED
      BY <3>1 DEF IInv, Blocking, Waiting
  <2> QED
    BY <2>1, <2>2
<1>7. Blocking'
  BY <1>1, <1>6 DEF IInv, Blocking
<1>8. Buffered'
  BY <1>1, PipesKept DEF IInv
<1> QED
  BY <1>5, <1>7, <1>8 DEF IInv

\* fcntl sets the flag of a description.
LEMMA SetNonblockStep ==
  ASSUME IInv, NEW p \in Procs, NEW d \in Fds, SetNonblock(p, d)
  PROVE  IInv'
<1>1. /\ fds[p][d] # None
      /\ nonblock' = [nonblock EXCEPT ![fds[p][d]] = ~nonblock[fds[p][d]]]
      /\ UNCHANGED <<fds, tally, buffer, sent, got, waitVars>>
  BY DEF SetNonblock
<1>2. fds[p][d] \in Ofds
  BY <1>1, RowType
<1>3. Buffered'
  <2>1. nonblock' \in [Ofds -> BOOLEAN]
    BY <1>1, <1>2, Zenon DEF IInv, Buffered
  <2> QED
    BY <1>1, <2>1 DEF IInv, Buffered, BytesInOrder
<1>4. Blocking'
  BY <1>1 DEF IInv, Blocking, Waiting, waitVars
<1> QED
  BY <1>1, <1>3, <1>4, CountsKept DEF IInv

-----------------------------------------------------------------------------
(* Waiting, signals and handlers.                                          *)

\* A waiter that is ready repeats its call.
LEMMA ResumeStep ==
  ASSUME IInv, NEW p \in Procs, Resume(p)
  PROVE  IInv'
<1>1. /\ phase[p] = "wait" /\ UNCHANGED <<fds, tally>>
      /\ Import(p, call[p]) \/ (Return(p) /\ UNCHANGED pipeVars)
  BY DEF Resume
<1>2. call[p] \in Calls
  BY <1>1 DEF IInv, Blocking, Waiting
<1>3. CASE Import(p, call[p])
  BY <1>1, <1>2, <1>3, ImportStep
<1>4. CASE Return(p) /\ UNCHANGED pipeVars
  BY <1>1, <1>4, PipesKept, Returned, CountsKept DEF IInv
<1> QED
  BY <1>1, <1>3, <1>4, Zenon

\* A handler returns.
LEMMA HandlerStep ==
  ASSUME IInv, NEW p \in Procs,
         HandlerReturns(p) \/ HandlerRestarts(p) \/ Checkpoint(p)
  PROVE  IInv'
<1>1. CASE HandlerReturns(p)
  <2>1. ReturnOnly(p) /\ UNCHANGED <<fds, tally, pipeVars>>
    BY <1>1 DEF HandlerReturns
  <2> QED
    BY <2>1, PipesKept, Returned, CountsKept, Zenon DEF IInv
<1>2. CASE HandlerRestarts(p)
  <2>1. /\ call[p] # None /\ call[p].op = "read" /\ Read(p, call[p])
        /\ UNCHANGED <<fds, tally>>
    BY <1>2 DEF HandlerRestarts
  <2>2. call[p] \in Calls
    BY <2>1 DEF IInv, Blocking
  <2> QED
    BY <2>1, <2>2, ReadStep, CountsKept DEF IInv
<1>3. CASE Checkpoint(p)
  <2>1. Interrupt(p, None) /\ UNCHANGED <<fds, tally, pipeVars>>
    BY <1>3 DEF Checkpoint
  <2> QED
    BY <2>1, PipesKept, Returned, CountsKept DEF IInv
<1> QED
  BY <1>1, <1>2, <1>3

\* A signal comes, or a handler takes one.
LEMMA SignalStep ==
  ASSUME IInv, NEW p \in Procs, HandlerAgain(p) \/ Signal(p)
  PROVE  IInv'
<1>1. PICK s \in BOOLEAN : sig' = [sig EXCEPT ![p] = s]
  BY Zenon DEF HandlerAgain, Signal
<1>2. UNCHANGED <<fds, tally, pipeVars, wait, call, phase, delivered>>
  BY Zenon DEF HandlerAgain, Signal
<1>3. Blocking'
  BY <1>1, <1>2 DEF IInv, Blocking, Waiting
<1> QED
  BY <1>2, <1>3, PipesKept, CountsKept DEF IInv

-----------------------------------------------------------------------------
(* The theorems.                                                           *)

\* No pipe is open at first.
LEMMA InitHolds == Init => IInv
<1> SUFFICES ASSUME Init PROVE IInv
  OBVIOUS
<1>1. Counted
  <2>1. fds \in FdTables /\ tally \in [Ofds -> Nat]
    BY DEF Init, FdTables
  <2>2. ASSUME NEW o \in Ofds
        PROVE  tally[o] = Cardinality(Holders(fds, o))
    <3>1. Holders(fds, o) = {}
      BY NoneAssumption DEF Init, Holders
    <3> QED
      BY <3>1, FS_EmptySet, Zenon DEF Init
  <2> QED
    BY <2>1, <2>2 DEF Counted
<1>2. Buffered
  <2>1. /\ nonblock \in [Ofds -> BOOLEAN]
        /\ sent \in [Pipes -> 0 .. Stamps - 1] /\ got \in [Pipes -> 0 .. Stamps - 1]
        /\ buffer \in [Pipes -> Seq(0 .. Stamps - 1)]
    BY EmptyRun DEF Init
  <2>2. \A k \in Pipes : Len(buffer[k]) <= Capacity
    BY PipeAssumption DEF Init
  <2>3. BytesInOrder
    BY EmptyRun DEF Init, BytesInOrder, Run
  <2> QED
    BY <2>1, <2>2, <2>3 DEF Buffered
<1>3. Blocking
  <2>1. phase \in [Procs -> {"run", "dead"}]
    BY DEF Init
  <2> QED
    BY <2>1 DEF Init, Blocking
<1> QED
  BY <1>1, <1>2, <1>3 DEF IInv

\* Every step of every process keeps the invariant.
LEMMA NextKeeps == IInv /\ [Next]_vars => IInv'
<1> SUFFICES ASSUME IInv, [Next]_vars PROVE IInv'
  OBVIOUS
<1>1. CASE UNCHANGED vars
  <2>1. UNCHANGED <<fds, tally>> /\ UNCHANGED pipeVars /\ UNCHANGED waitVars
    BY <1>1, Zenon DEF vars, pipeVars, waitVars
  <2>2. Blocking'
    BY <2>1 DEF IInv, Blocking, Waiting, waitVars
  <2> QED
    BY <2>1, <2>2, CountsKept, PipesKept DEF IInv
<1>2. ASSUME NEW p \in Procs, NEW k \in Pipes, Pipe(p, k) PROVE IInv'
  BY <1>2, PipeStep
<1>3. ASSUME NEW p \in Procs, NEW d \in Fds, Close(p, d) \/ SetNonblock(p, d) PROVE IInv'
  BY <1>3, CloseStep, SetNonblockStep
<1>4. ASSUME NEW p \in Procs, NEW d \in Fds, NEW e \in Fds, Dup2(p, d, e) \/ Dup(p, d, e)
      PROVE  IInv'
  BY <1>4, Dup2Step, DupStep
<1>5. ASSUME NEW p \in Procs, NEW D \in SUBSET Fds, Exec(p, D) PROVE IInv'
  BY <1>5, ExecStep
<1>6. ASSUME NEW p \in Procs, NEW c \in Procs, Fork(p, c) PROVE IInv'
  BY <1>6, ForkStep
<1>7. ASSUME NEW p \in Procs, NEW c \in Requests, Enter(p, c) PROVE IInv'
  <2>1. c \in Calls /\ Import(p, c) /\ UNCHANGED <<fds, tally>>
    BY <1>7, RequestsAssumption DEF Enter
  <2> QED
    BY <2>1, ImportStep
<1>8. ASSUME NEW p \in Procs, Exit(p) \/ Resume(p) PROVE IInv'
  BY <1>8, ExitStep, ResumeStep
<1>9. ASSUME NEW p \in Procs,
             HandlerReturns(p) \/ HandlerRestarts(p) \/ Checkpoint(p)
               \/ HandlerAgain(p) \/ Signal(p)
      PROVE  IInv'
  BY <1>9, HandlerStep, SignalStep
<1> QED
  BY <1>1, <1>2, <1>3, <1>4, <1>5, <1>6, <1>7, <1>8, <1>9, Zenon DEF Next

\* The inductive invariant holds: descriptors are counted, pipes are runs of
\* bytes, and a process that waits has what posix_kernel_wait_poll looks at.
THEOREM Invariance == Spec => []IInv
BY InitHolds, NextKeeps, PTL DEF Spec

\* pipe->readers and pipe->writers are the numbers of open descriptors, so that
\* end of file and EPIPE are reported exactly when the last one is closed.
THEOREM TalliesExact == Spec => []TallyExact
<1>1. IInv => TallyExact
  <2> SUFFICES ASSUME IInv PROVE TallyExact
    OBVIOUS
  <2>1. TypeOK
    BY DEF IInv, Counted, Buffered, Blocking, FdTables, TypeOK
  <2>2. \A o \in Ofds : tally[o] = Cardinality(Holders(fds, o))
    BY DEF IInv, Counted
  <2> QED
    BY <2>1, <2>2 DEF TallyExact, Holders
<1> QED
  BY <1>1, Invariance, PTL

\* What posix_kernel_pipe_read hands out is what posix_kernel_pipe_write took,
\* byte for byte and in order.
THEOREM PipeIsQueue == Spec => []BytesInOrder
<1>1. IInv => BytesInOrder
  BY Zenon DEF IInv, Buffered
<1> QED
  BY <1>1, Invariance, PTL

\* posix_kernel_wait_poll finds a registered call ready once nobody holds the
\* other end of its pipe.
THEOREM HangupReady == Spec => []HangupWakes
<1>1. IInv => HangupWakes
  <2> SUFFICES ASSUME IInv, NEW p \in Procs, NEW k \in Pipes,
                      phase[p] = "wait", call[p].op # "select"
               PROVE  LET o == fds[p][call[p].fd]
                          gone(end) == \A q \in Procs, d \in Fds : fds[q][d] # <<k, end>>
                      IN  /\ o = R(k) /\ call[p].fd \in wait[p].read /\ gone("w") => WaitPoll(p)
                          /\ o = W(k) /\ call[p].fd \in wait[p].write /\ gone("r") => WaitPoll(p)
    BY Zenon DEF HangupWakes
  <2> DEFINE c == call[p]
             o == fds[p][c.fd]
  <2>1. c \in Calls /\ Waiting(p)
    BY Zenon DEF IInv, Blocking, Waiting
  <2>2. c.op \in {"read", "write"} /\ c.fd \in Fds
    BY <2>1 DEF Calls
  <2>3. R(k) \in Ofds /\ W(k) \in Ofds /\ R(k) # None /\ W(k) # None
    BY NoneAssumption DEF R, W, Ofds
  <2>4. ASSUME NEW e \in Ofds, \A q \in Procs, d \in Fds : fds[q][d] # e
        PROVE  tally[e] = 0
    <3>1. Holders(fds, e) = {}
      BY <2>4 DEF Holders
    <3> QED
      BY <3>1, FS_EmptySet, Zenon DEF IInv, Counted
  <2>5. ASSUME o = R(k), c.fd \in wait[p].read,
               \A q \in Procs, d \in Fds : fds[q][d] # <<k, "w">>
        PROVE  WaitPoll(p)
    <3>1. tally[W(k)] = 0
      BY <2>3, <2>4, <2>5 DEF W
    <3>2. Readable(o)
      BY <2>5, <3>1 DEF Readable, R
    <3> QED
      BY <2>2, <2>3, <2>5, <3>2 DEF WaitPoll, WaitSetsReady
  <2>6. ASSUME o = W(k), c.fd \in wait[p].write,
               \A q \in Procs, d \in Fds : fds[q][d] # <<k, "r">>
        PROVE  WaitPoll(p)
    <3>1. tally[R(k)] = 0
      BY <2>3, <2>4, <2>6 DEF R
    <3>2. Broken(o)
      BY <2>6, <3>1 DEF Broken, W
    <3>3. c.op = "write"
      BY <2>1, <2>2, <2>6 DEF Waiting, W
    <3>4. c.fd \in wait[p].except
      BY <2>1, <3>3 DEF Waiting
    <3> QED
      BY <2>2, <2>3, <2>6, <3>2, <3>4, Zenon DEF WaitPoll, WaitSetsReady
  <2> QED
    BY <2>5, <2>6, Zenon
<1> QED
  BY <1>1, Invariance, PTL
=============================================================================
