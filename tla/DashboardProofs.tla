-------------------------- MODULE DashboardProofs --------------------------
(***************************************************************************)
(* What Dashboard guarantees for any number of jobs, whatever URLs they    *)
(* have, and for all bounds on queues, listeners and upsets.               *)
(***************************************************************************)
EXTENDS Dashboard, FiniteSetTheorems, SequenceTheorems, WellFoundedInduction, TLAPS

----------------------------------------------------------------------------
(* Positions                                                               *)

LEMMA SeqElements ==
  ASSUME NEW S, NEW q \in Seq(S)
  PROVE  Len(q) \in Nat /\ DOMAIN q = 1..Len(q) /\ \A i \in DOMAIN q : q[i] \in S
  OBVIOUS

LEMMA PositionsFinite ==
  ASSUME NEW n \in Nat, NEW T \in SUBSET (1..n)
  PROVE  IsFiniteSet(T) /\ Cardinality(T) \in Nat
  <1>1. IsFiniteSet(1..n)
    BY FS_Interval
  <1> QED BY <1>1, FS_Subset, FS_CardinalityType

LEMMA LeastElement ==
  ASSUME NEW T \in SUBSET Nat, T # {}
  PROVE  \E m \in T : \A k \in T : m <= k
  <1> DEFINE R == OpToRel(<, Nat)
  <1>1. IsWellFoundedOn(R, Nat)
    BY NatLessThanWellFounded
  <1>2. \A j, k \in Nat : j < k => <<j, k>> \in R
    BY DEF OpToRel
  <1> HIDE DEF R
  <1>3. PICK m \in T : \A k \in T : ~(<<k, m>> \in R)
    BY <1>1, WFMin
  <1>4. \A k \in T : ~(k < m)
    BY <1>2, <1>3
  <1> QED BY <1>4

Within(S, N) == S \subseteq 1..N

LEMMA PositionIs ==
  ASSUME NEW N \in Nat, NEW S, Within(S, N), NEW n \in 1..Cardinality(S)
  PROVE  Position(S, n) \in S /\ Cardinality({m \in S : m <= Position(S, n)}) = n
  <1> DEFINE Upto(k) == {m \in S : m <= k}
             T == {k \in Nat : n <= Cardinality(Upto(k))}
  <1>0. \A m \in S : m \in Int /\ 1 <= m /\ m <= N
    BY DEF Within
  <1>1. IsFiniteSet(S) /\ Cardinality(S) \in Nat
    BY PositionsFinite DEF Within
  <1>2. \A k \in Nat : IsFiniteSet(Upto(k)) /\ Cardinality(Upto(k)) \in Nat
    <2>1. \A k \in Nat : Upto(k) \in SUBSET (1..N)
      BY DEF Within
    <2> QED BY <2>1, PositionsFinite
  <1>3. Upto(N) = S /\ Upto(0) = {}
    BY <1>0
  <1>4. N \in T
    <2>1. n \in Nat /\ n <= Cardinality(S)
      BY <1>1
    <2> QED BY <1>3, <2>1
  <1>5. PICK k \in T : \A m \in T : k <= m
    BY <1>4, LeastElement
  <1>6. k # 0
    <2>1. Cardinality(Upto(0)) = 0
      BY <1>3, FS_EmptySet
    <2>2. n <= Cardinality(Upto(k)) /\ n >= 1
      BY <1>1, <1>5
    <2> HIDE DEF Upto
    <2> QED BY <1>1, <2>1, <2>2
  <1>7. k - 1 \in Nat /\ k - 1 \notin T
    BY <1>5, <1>6
  <1>8. ~(n <= Cardinality(Upto(k - 1)))
    BY <1>7
  <1>9. Upto(k) = IF k \in S THEN Upto(k - 1) \cup {k} ELSE Upto(k - 1)
    <2>1. \A m \in S : m <= k <=> m <= k - 1 \/ m = k
      BY <1>5, <1>0
    <2> QED BY <1>5, <2>1
  <1>10. k \notin Upto(k - 1)
    BY <1>5
  <1>11. n <= Cardinality(Upto(k)) /\ k \in Nat
    BY <1>5
  <1> HIDE DEF Upto
  <1>12. k \in S /\ Cardinality(Upto(k)) = Cardinality(Upto(k - 1)) + 1
    BY <1>2, <1>7, <1>8, <1>9, <1>10, <1>11, FS_AddElement
  <1>13. Cardinality(Upto(k)) = n
    BY <1>2, <1>7, <1>8, <1>11, <1>12
  <1>14. \E p \in S : Cardinality({m \in S : m <= p}) = n
    BY <1>12, <1>13 DEF Upto
  <1> QED BY <1>14 DEF Position

LEMMA RankIs ==
  ASSUME NEW N \in Nat, NEW S, Within(S, N), NEW k \in S
  PROVE  \E n \in 1..Cardinality(S) : Position(S, n) = k
  <1> DEFINE Upto(p) == {m \in S : m <= p}
             n == Cardinality(Upto(k))
  <1>0. \A m \in S : m \in Int
    BY DEF Within
  <1>1. \A p \in S : Upto(p) \in SUBSET S /\ p \in Upto(p)
    BY <1>0
  <1>2. IsFiniteSet(S) /\ Cardinality(S) \in Nat
    BY PositionsFinite DEF Within
  <1>3. \A p \in S : IsFiniteSet(Upto(p)) /\ Cardinality(Upto(p)) \in Nat
    BY <1>1, <1>2, FS_Subset, FS_CardinalityType
  <1>4. n <= Cardinality(S) /\ n # 0
    <2> HIDE DEF Upto
    <2>1. n <= Cardinality(S)
      BY <1>1, <1>2, FS_Subset
    <2>2. n # 0
      BY <1>1, <1>3, FS_EmptySet
    <2> QED BY <2>1, <2>2
  <1>5. n \in 1..Cardinality(S)
    BY <1>2, <1>3, <1>4
  <1>6. \A p, q \in S : p < q => Cardinality(Upto(p)) # Cardinality(Upto(q))
    <2> SUFFICES ASSUME NEW p \in S, NEW q \in S, p < q
                 PROVE  Cardinality(Upto(p)) # Cardinality(Upto(q))
      OBVIOUS
    <2>1. Upto(p) \in SUBSET Upto(q) /\ q \in Upto(q) /\ q \notin Upto(p)
      BY <1>0
    <2> HIDE DEF Upto
    <2>2. IsFiniteSet(Upto(q)) /\ Upto(p) # Upto(q)
      BY <1>3, <2>1
    <2> QED BY <2>1, <2>2, FS_Subset
  <1>7. Position(S, n) \in S /\ Cardinality(Upto(Position(S, n))) = n
    BY <1>5, PositionIs
  <1> HIDE DEF Upto
  <1>8. ~(Position(S, n) < k) /\ ~(k < Position(S, n))
    BY <1>6, <1>7
  <1>9. Position(S, n) \in Int /\ k \in Int
    BY <1>7, <1>0
  <1>10. Position(S, n) = k
    BY <1>8, <1>9
  <1> QED BY <1>5, <1>10
----------------------------------------------------------------------------
(* The inductive invariant                                                 *)

Statuses == {"pending", "processing", "completed", "failed"}
RowShape ==
  [id : Jobs \cup {Opt}, url : Urls \cup {""}, status : Statuses, key : Nat,
   path : Jobs \cup {Opt}, save : BOOLEAN, bar : BOOLEAN,
   ask : {"no", "asked", "sent", "deleted", "refused"}]
EventShape == [id : Jobs, status : Statuses]

\* The jobs the form has nothing to do with, and the jobs that were deleted.
Plain == {j \in Jobs : urlOf[j] \notin FormUrls}
Gone  == {j \in Jobs : job[j] = "deleted"}

UniqueId(rs, id) == \A m, n \in DOMAIN rs : rs[m].id = id /\ rs[n].id = id => m = n
UniqueAsk(rs) == \A m, n \in DOMAIN rs : rs[m].ask = "asked" /\ rs[n].ask = "asked" => m = n

\* An optimistic row has a URL of the form; a row deletes the job it shows, but
\* for one that was optimistic; it is taken out only when its job is gone.
RowOK(r, gone, plain) ==
  /\ r \in RowShape
  /\ r.id = Opt => r.url \in FormUrls
  /\ r.save <=> r.status = "completed"
  /\ r.ask = "deleted" => r.path \in gone
  /\ r.id \in plain => r.path = r.id

Clean(rs, gone, plain) ==
  /\ rs \in Seq(RowShape)
  /\ \A k \in DOMAIN rs : RowOK(rs[k], gone, plain)
  /\ \A id \in plain \cup {Opt} : UniqueId(rs, id)
  /\ UniqueAsk(rs)

Tidy(rs) == ~HasRow(rs, Opt) /\ \A j \in Jobs : UniqueId(rs, j)

StreamInv ==
  /\ conn \in {"connecting", "open", "closed"} /\ heard \in {"none", "current", "former"}
  /\ retryCount \in 0..MaxBackoff /\ timer \in BOOLEAN
  /\ conn = "open" => heard = "current"

FormInv ==
  /\ form \in {"idle", "sent", "lost"} /\ response \in Jobs \cup {"none", "error"}
  /\ disabled = (form = "sent")
  /\ form = "sent" => formUrl \in FormUrls
  /\ form = "sent" /\ response \notin {"none", "error"} => urlOf[response] \in FormUrls
  /\ replace \in 0..MaxListeners /\ htmxPending \subseteq Jobs \cup {Opt}

\* Jobs are created one after the other; what is still to be published is the
\* status there is; only ends are told.
Created == {j \in Jobs : born[j] > 0}
ServerInv ==
  /\ urlOf \in [Jobs -> Urls] /\ born \in [Jobs -> Nat]
  /\ job \in [Jobs -> Statuses \cup {"absent", "deleted"}]
  /\ \A j \in Jobs : job[j] = "absent" <=> born[j] = 0
  /\ \A j \in Jobs : born[j] <= Cardinality(Created)
  /\ \A i, j \in Created : born[i] = born[j] => i = j
  /\ toPublish \in [Jobs -> Statuses \cup {"none"}] /\ told \subseteq Jobs
  /\ \A j \in Jobs : toPublish[j] # "none" => job[j] \in {toPublish[j], "deleted"}
  /\ \A j \in told : job[j] \in {"completed", "failed", "deleted"}

QueueInv == statusQ \in Seq(EventShape) /\ progressQ \in Seq(Jobs)

\* An event for a plain job is passed over only if the job has a row or is gone.
PendingInv == \A j \in Plain \cap htmxPending : HasRow(rows, j) \/ j \in Gone

\* The last event under way for a job whose end was told tells that end, or none
\* is under way and a row shows it.
EndKnown(j) ==
  \/ \E n \in DOMAIN statusQ :
       /\ statusQ[n] = [id |-> j, status |-> job[j]]
       /\ \A m \in DOMAIN statusQ : m > n => statusQ[m].id # j
  \/ /\ \A n \in DOMAIN statusQ : statusQ[n].id # j
     /\ \E k \in DOMAIN rows : rows[k].id = j /\ rows[k].status = job[j]
EndsInv ==
  conn = "open" =>
    \A j \in Plain \cap told : job[j] \in {"completed", "failed"} => EndKnown(j)

RowsInv == Clean(rows, Gone, Plain) /\ (form = "idle" => Tidy(rows))

DashInv ==
  StreamInv /\ FormInv /\ ServerInv /\ QueueInv /\ RowsInv /\ PendingInv /\ EndsInv

----------------------------------------------------------------------------
(* Rows                                                                    *)

\* The rows with these ids are still there, with their status.
Stay(rs, new, ids) ==
  \A k \in DOMAIN rs : rs[k].id \in ids =>
    \E n \in DOMAIN new : new[n].id = rs[k].id /\ new[n].status = rs[k].status

LEMMA RowAtIs ==
  ASSUME NEW rs \in Seq(RowShape), NEW id, HasRow(rs, id)
  PROVE  /\ RowAt(rs, id) \in DOMAIN rs /\ rs[RowAt(rs, id)].id = id
         /\ \A k \in Positions(rs, id) : RowAt(rs, id) <= k
  <1> DEFINE P == Positions(rs, id)
  <1>1. P \in SUBSET Nat /\ P # {}
    BY SeqElements DEF Positions, HasRow
  <1>2. \E k \in P : \A m \in P : k <= m
    BY <1>1, LeastElement
  <1>3. First(P) \in P /\ \A m \in P : First(P) <= m
    BY <1>2 DEF First
  <1> QED BY <1>3 DEF RowAt, Positions

LEMMA RowsAtIs ==
  ASSUME NEW rs \in Seq(RowShape), NEW S \in SUBSET DOMAIN rs
  PROVE  /\ RowsAt(rs, S) \in Seq(RowShape)
         /\ \A n \in DOMAIN RowsAt(rs, S) :
              Position(S, n) \in S /\ RowsAt(rs, S)[n] = rs[Position(S, n)]
         /\ \A m, n \in DOMAIN RowsAt(rs, S) : Position(S, m) = Position(S, n) => m = n
         /\ \A k \in S : \E n \in DOMAIN RowsAt(rs, S) : Position(S, n) = k
  <1> DEFINE c == Cardinality(S)
             new == RowsAt(rs, S)
  <1>1. Len(rs) \in Nat /\ DOMAIN rs = 1..Len(rs) /\ \A i \in DOMAIN rs : rs[i] \in RowShape
    BY SeqElements
  <1>2. Within(S, Len(rs))
    BY <1>1 DEF Within
  <1>3. c \in Nat
    BY <1>1, PositionsFinite
  <1>4. DOMAIN new = 1..c /\ \A n \in 1..c : new[n] = rs[Position(S, n)]
    BY DEF RowsAt
  <1>5. \A n \in 1..c : Position(S, n) \in S /\ Cardinality({m \in S : m <= Position(S, n)}) = n
    BY <1>1, <1>2, PositionIs
  <1>6. \A k \in S : \E n \in 1..c : Position(S, n) = k
    BY <1>1, <1>2, RankIs
  <1>7. new = [n \in 1..c |-> rs[Position(S, n)]]
    BY DEF RowsAt
  <1> HIDE DEF new, c
  <1>8. \A n \in 1..c : rs[Position(S, n)] \in RowShape
    BY <1>1, <1>5
  <1>9. new \in Seq(RowShape)
    BY <1>3, <1>7, <1>8
  <1>10. \A m, n \in 1..c : Position(S, m) = Position(S, n) => m = n
    BY <1>5
  <1> QED BY <1>4, <1>5, <1>6, <1>9, <1>10 DEF new

LEMMA RowsAtKeeps ==
  ASSUME NEW gone, NEW plain, NEW rs, Clean(rs, gone, plain), NEW S \in SUBSET DOMAIN rs
  PROVE  /\ Clean(RowsAt(rs, S), gone, plain)
         /\ \A id : UniqueId(rs, id) => UniqueId(RowsAt(rs, S), id)
         /\ \A n \in DOMAIN RowsAt(rs, S) : \E k \in S : RowsAt(rs, S)[n] = rs[k]
         /\ \A k \in S : \E n \in DOMAIN RowsAt(rs, S) : RowsAt(rs, S)[n] = rs[k]
  <1> DEFINE new == RowsAt(rs, S)
             p(n) == Position(S, n)
  <1>1. rs \in Seq(RowShape)
    BY DEF Clean
  <1>2. /\ new \in Seq(RowShape)
        /\ \A n \in DOMAIN new : p(n) \in S /\ p(n) \in DOMAIN rs /\ new[n] = rs[p(n)]
        /\ \A m, n \in DOMAIN new : p(m) = p(n) => m = n
        /\ \A k \in S : \E n \in DOMAIN new : p(n) = k
    BY <1>1, RowsAtIs
  <1> SUFFICES /\ Clean(new, gone, plain)
               /\ \A id : UniqueId(rs, id) => UniqueId(new, id)
               /\ \A n \in DOMAIN new : \E k \in S : new[n] = rs[k]
               /\ \A k \in S : \E n \in DOMAIN new : new[n] = rs[k]
    OBVIOUS
  <1> HIDE DEF new, p
  <1>3. \A id : UniqueId(rs, id) => UniqueId(new, id)
    BY <1>2 DEF UniqueId
  <1>4. \A n \in DOMAIN new : RowOK(new[n], gone, plain)
    BY <1>2 DEF Clean
  <1>5. UniqueAsk(new)
    BY <1>2 DEF Clean, UniqueAsk
  <1>6. Clean(new, gone, plain)
    BY <1>2, <1>3, <1>4, <1>5 DEF Clean
  <1> QED BY <1>2, <1>3, <1>6

LEMMA RemoveOptimisticKeeps ==
  ASSUME NEW gone, NEW plain \in SUBSET Jobs, NEW rs, Clean(rs, gone, plain)
  PROVE  /\ Clean(RemoveOptimistic(rs), gone, plain)
         /\ ~HasRow(RemoveOptimistic(rs), Opt)
         /\ Stay(rs, RemoveOptimistic(rs), Jobs)
  <1> DEFINE S == {k \in DOMAIN rs : rs[k].id # Opt}
             new == RowsAt(rs, S)
  <1>0. S \in SUBSET DOMAIN rs
    OBVIOUS
  <1>1. /\ Clean(new, gone, plain)
        /\ \A n \in DOMAIN new : \E k \in S : new[n] = rs[k]
        /\ \A k \in S : \E n \in DOMAIN new : new[n] = rs[k]
    <2> HIDE DEF S
    <2> QED BY <1>0, RowsAtKeeps
  <1>2. \A k \in DOMAIN rs : rs[k].id \in Jobs => k \in S
    BY DashboardAssumption
  <1>3. \A k \in S : rs[k].id # Opt
    OBVIOUS
  <1>4. RemoveOptimistic(rs) = new
    BY DEF RemoveOptimistic
  <1> HIDE DEF new, S
  <1>5. ~HasRow(new, Opt)
    BY <1>1, <1>3 DEF HasRow, Positions
  <1>6. Stay(rs, new, Jobs)
    BY <1>1, <1>2 DEF Stay
  <1> QED BY <1>1, <1>4, <1>5, <1>6

\* The rows of a job that has only one stay.
LEMMA DedupeKeeps ==
  ASSUME NEW gone, NEW plain \in SUBSET Jobs, NEW rs, Clean(rs, gone, plain)
  PROVE  Clean(Dedupe(rs), gone, plain) /\ Tidy(Dedupe(rs)) /\ Stay(rs, Dedupe(rs), plain)
  <1> DEFINE S == {k \in DOMAIN rs : rs[k].id # Opt /\ k = RowAt(rs, rs[k].id)}
             new == RowsAt(rs, S)
             p(n) == Position(S, n)
  <1>0. S \in SUBSET DOMAIN rs
    OBVIOUS
  <1>1. /\ Clean(new, gone, plain)
        /\ \A k \in S : \E n \in DOMAIN new : new[n] = rs[k]
    <2> HIDE DEF S
    <2> QED BY <1>0, RowsAtKeeps
  <1>2. rs \in Seq(RowShape)
    BY DEF Clean
  <1>3. /\ \A n \in DOMAIN new : p(n) \in S /\ new[n] = rs[p(n)]
        /\ \A m, n \in DOMAIN new : p(m) = p(n) => m = n
    <2> HIDE DEF S
    <2> QED BY <1>0, <1>2, RowsAtIs
  <1>4. \A k \in S : rs[k].id # Opt /\ k = RowAt(rs, rs[k].id)
    OBVIOUS
  <1>5. ASSUME NEW k \in DOMAIN rs, rs[k].id \in plain
        PROVE  k \in S
    <2>1. HasRow(rs, rs[k].id) /\ rs[k].id # Opt
      BY <1>5, DashboardAssumption DEF HasRow, Positions
    <2>2. RowAt(rs, rs[k].id) \in DOMAIN rs /\ rs[RowAt(rs, rs[k].id)].id = rs[k].id
      BY <1>2, <2>1, RowAtIs
    <2>3. k = RowAt(rs, rs[k].id)
      BY <1>5, <2>2 DEF Clean, UniqueId
    <2> QED BY <2>1, <2>3
  <1>6. Dedupe(rs) = new
    BY DEF Dedupe
  <1> HIDE DEF new, S, p
  <1>7. Tidy(new)
    <2>1. ~HasRow(new, Opt)
      BY <1>3, <1>4 DEF HasRow, Positions
    <2>2. \A j \in Jobs : UniqueId(new, j)
      BY <1>3, <1>4 DEF UniqueId
    <2> QED BY <2>1, <2>2 DEF Tidy
  <1>8. Stay(rs, new, plain)
    BY <1>1, <1>5 DEF Stay
  <1> QED BY <1>1, <1>6, <1>7, <1>8

\* The row is put between two rows, or at an end.
Inserted(new, rs, row) ==
  \E p \in 1..(Len(rs) + 1) :
    /\ new \in Seq(RowShape) /\ Len(new) = Len(rs) + 1
    /\ new[p] = row
    /\ \A n \in 1..(p - 1) : new[n] = rs[n]
    /\ \A n \in (p + 1)..(Len(rs) + 1) : new[n] = rs[n - 1]

LEMMA PrependIs ==
  ASSUME NEW rs \in Seq(RowShape), NEW row \in RowShape
  PROVE  Inserted(<<row>> \o rs, rs, row)
  <1> DEFINE new == <<row>> \o rs
  <1>1. Len(rs) \in Nat
    BY SeqElements
  <1>2. <<row>> \in Seq(RowShape) /\ Len(<<row>>) = 1 /\ <<row>>[1] = row
    OBVIOUS
  <1>3. /\ new \in Seq(RowShape) /\ Len(new) = Len(<<row>>) + Len(rs)
        /\ \A i \in 1..(Len(<<row>>) + Len(rs)) :
             new[i] = IF i <= Len(<<row>>) THEN <<row>>[i] ELSE rs[i - Len(<<row>>)]
    BY <1>2, ConcatProperties
  <1> HIDE DEF new
  <1>4. \A i \in 1..(Len(rs) + 1) : new[i] = IF i <= 1 THEN row ELSE rs[i - 1]
    BY <1>1, <1>2, <1>3
  <1>5. /\ 1 \in 1..(Len(rs) + 1) /\ Len(new) = Len(rs) + 1 /\ new[1] = row
        /\ \A n \in 1..(1 - 1) : new[n] = rs[n]
        /\ \A n \in (1 + 1)..(Len(rs) + 1) : new[n] = rs[n - 1]
    BY <1>1, <1>2, <1>3, <1>4
  <1> QED BY <1>3, <1>5 DEF new, Inserted

LEMMA InsertIs ==
  ASSUME NEW rs \in Seq(RowShape), NEW row \in RowShape
  PROVE  Inserted(insertRowSorted(rs, row), rs, row)
  <1> DEFINE smaller == {k \in DOMAIN rs : rs[k].key < row.key}
  <1>1. Len(rs) \in Nat /\ DOMAIN rs = 1..Len(rs) /\ \A k \in DOMAIN rs : rs[k] \in RowShape
    BY SeqElements
  <1>2. CASE smaller = {}
    <2>1. insertRowSorted(rs, row) = Append(rs, row)
      BY <1>2 DEF insertRowSorted
    <2>2. /\ Append(rs, row) \in Seq(RowShape) /\ Len(Append(rs, row)) = Len(rs) + 1
          /\ Append(rs, row)[Len(rs) + 1] = row
          /\ \A n \in 1..Len(rs) : Append(rs, row)[n] = rs[n]
      BY <1>1
    <2>3. Len(rs) + 1 \in 1..(Len(rs) + 1) /\ (Len(rs) + 1) - 1 = Len(rs)
          /\ (Len(rs) + 1 + 1)..(Len(rs) + 1) = {}
      BY <1>1
    <2> QED BY <2>1, <2>2, <2>3 DEF Inserted
  <1>3. CASE smaller # {}
    <2>1. smaller \in SUBSET Nat
      BY <1>1
    <2>2. \E k \in smaller : \A m \in smaller : k <= m
      BY <1>3, <2>1, LeastElement
    <2>3. First(smaller) \in smaller
      BY <2>2 DEF First
    <2>4. PICK p \in 1..Len(rs) : p = First(smaller)
      BY <1>1, <2>3
    <2>5. insertRowSorted(rs, row) = SubSeq(rs, 1, p - 1) \o <<row>> \o SubSeq(rs, p, Len(rs))
      BY <1>3, <2>4 DEF insertRowSorted, InsertAt
    <2> DEFINE a == SubSeq(rs, 1, p - 1)
               b == SubSeq(rs, p, Len(rs))
               c == a \o <<row>>
    <2>6. /\ a \in Seq(RowShape) /\ Len(a) = p - 1
          /\ \A i \in 1..(p - 1) : a[i] = rs[i]
      <3>1. \A i \in 1..(p - 1) : rs[i] \in RowShape
        BY <1>1
      <3>2. /\ a \in Seq(RowShape) /\ Len(a) = (IF 1 <= p - 1 THEN p - 1 - 1 + 1 ELSE 0)
            /\ \A i \in 1..(p - 1 - 1 + 1) : a[i] = rs[1 + i - 1]
        BY <3>1, SubSeqProperties
      <3> HIDE DEF a
      <3> QED BY <3>2
    <2>7. /\ b \in Seq(RowShape) /\ Len(b) = Len(rs) - p + 1
          /\ \A i \in 1..(Len(rs) - p + 1) : b[i] = rs[p + i - 1]
      <3>1. \A i \in p..Len(rs) : rs[i] \in RowShape
        BY <1>1
      <3>2. /\ b \in Seq(RowShape) /\ Len(b) = (IF p <= Len(rs) THEN Len(rs) - p + 1 ELSE 0)
            /\ \A i \in 1..(Len(rs) - p + 1) : b[i] = rs[p + i - 1]
        BY <1>1, <3>1, SubSeqProperties
      <3> HIDE DEF b
      <3> QED BY <1>1, <3>2
    <2> HIDE DEF a, b
    <2>8. /\ c \in Seq(RowShape) /\ Len(c) = p
          /\ \A i \in 1..(p - 1) : c[i] = rs[i]
          /\ c[p] = row
      <3>1. <<row>> \in Seq(RowShape) /\ Len(<<row>>) = 1 /\ <<row>>[1] = row
        OBVIOUS
      <3>2. /\ c \in Seq(RowShape) /\ Len(c) = Len(a) + Len(<<row>>)
            /\ \A i \in 1..(Len(a) + Len(<<row>>)) :
                 c[i] = IF i <= Len(a) THEN a[i] ELSE <<row>>[i - Len(a)]
        BY <2>6, <3>1, ConcatProperties
      <3>3. Len(c) = p /\ \A i \in 1..p : c[i] = IF i <= p - 1 THEN a[i] ELSE <<row>>[i - (p - 1)]
        BY <2>6, <3>1, <3>2
      <3> HIDE DEF c
      <3>4. c[p] = row
        BY <3>1, <3>3
      <3> QED BY <2>6, <3>2, <3>3, <3>4
    <2> HIDE DEF c
    <2>9. /\ c \o b \in Seq(RowShape) /\ Len(c \o b) = Len(c) + Len(b)
          /\ \A i \in 1..(Len(c) + Len(b)) :
               (c \o b)[i] = IF i <= Len(c) THEN c[i] ELSE b[i - Len(c)]
      BY <2>7, <2>8, ConcatProperties
    <2>10. insertRowSorted(rs, row) = c \o b
      BY <2>5 DEF a, b, c
    <2> DEFINE new == c \o b
    <2>11. new \in Seq(RowShape) /\ Len(new) = Len(rs) + 1
      BY <1>1, <2>7, <2>8, <2>9
    <2>12. \A i \in 1..(Len(rs) + 1) : new[i] = IF i <= p THEN c[i] ELSE b[i - p]
      BY <1>1, <2>7, <2>8, <2>9
    <2> HIDE DEF new
    <2>13. new[p] = row /\ \A n \in 1..(p - 1) : new[n] = rs[n]
      BY <1>1, <2>8, <2>12
    <2>14. \A n \in (p + 1)..(Len(rs) + 1) : new[n] = rs[n - 1]
      <3>1. TAKE n \in (p + 1)..(Len(rs) + 1)
      <3>2. n \in 1..(Len(rs) + 1) /\ ~(n <= p) /\ n - p \in 1..(Len(rs) - p + 1)
            /\ p + (n - p) - 1 = n - 1
        BY <1>1
      <3>3. new[n] = b[n - p] /\ b[n - p] = rs[p + (n - p) - 1]
        BY <2>7, <2>12, <3>2
      <3> QED BY <3>2, <3>3
    <2>15. p \in 1..(Len(rs) + 1)
      BY <1>1
    <2> QED BY <2>10, <2>11, <2>13, <2>14, <2>15 DEF new, Inserted
  <1> QED BY <1>2, <1>3

LEMMA InsertKeeps ==
  ASSUME NEW gone, NEW plain, NEW rs, Clean(rs, gone, plain),
         NEW row, RowOK(row, gone, plain), row.ask # "asked",
         row.id \in plain \cup {Opt} => ~HasRow(rs, row.id),
         NEW new, Inserted(new, rs, row)
  PROVE  /\ Clean(new, gone, plain) /\ Stay(rs, new, Jobs \cup {Opt})
         /\ \E n \in DOMAIN new : new[n] = row
         /\ Tidy(rs) /\ row.id # Opt /\ ~HasRow(rs, row.id) => Tidy(new)
  <1> DEFINE L == Len(rs)
  <1>1. rs \in Seq(RowShape) /\ row \in RowShape
    BY DEF Clean, RowOK
  <1>2. L \in Nat /\ DOMAIN rs = 1..L
    BY <1>1, SeqElements
  <1>3. PICK p \in 1..(L + 1) :
           /\ new \in Seq(RowShape) /\ Len(new) = L + 1
           /\ new[p] = row
           /\ \A n \in 1..(p - 1) : new[n] = rs[n]
           /\ \A n \in (p + 1)..(L + 1) : new[n] = rs[n - 1]
    BY DEF Inserted
  <1>4. DOMAIN new = 1..(L + 1)
    BY <1>3, SeqElements
  <1> DEFINE o(n) == IF n < p THEN n ELSE n - 1
  <1>5. \A n \in 1..(L + 1) : n # p => o(n) \in 1..L /\ new[n] = rs[o(n)]
    <2> SUFFICES ASSUME NEW n \in 1..(L + 1), n # p
                 PROVE  o(n) \in 1..L /\ new[n] = rs[o(n)]
      OBVIOUS
    <2>1. CASE n < p
      <3>1. n \in 1..(p - 1) /\ n \in 1..L
        BY <1>2, <2>1
      <3> QED BY <1>3, <2>1, <3>1
    <2>2. CASE ~(n < p)
      <3>1. n \in (p + 1)..(L + 1) /\ n - 1 \in 1..L
        BY <1>2, <2>2
      <3> QED BY <1>3, <2>2, <3>1
    <2> QED BY <2>1, <2>2
  <1>6. \A m, n \in 1..(L + 1) : m # p /\ n # p /\ o(m) = o(n) => m = n
    BY <1>2
  <1>7. \A k \in 1..L : \E n \in 1..(L + 1) : n # p /\ o(n) = k
    <2> SUFFICES ASSUME NEW k \in 1..L PROVE \E n \in 1..(L + 1) : n # p /\ o(n) = k
      OBVIOUS
    <2>1. CASE k < p
      <3>1. k \in 1..(L + 1) /\ k # p /\ o(k) = k
        BY <1>2, <2>1
      <3> QED BY <3>1
    <2>2. CASE ~(k < p)
      <3>1. k + 1 \in 1..(L + 1) /\ k + 1 # p /\ o(k + 1) = k
        BY <1>2, <2>2
      <3> QED BY <3>1
    <2> QED BY <2>1, <2>2
  <1> HIDE DEF o, L
  <1>8. \A n \in DOMAIN new : RowOK(new[n], gone, plain)
    BY <1>2, <1>3, <1>4, <1>5 DEF Clean
  <1>9. \A id : UniqueId(rs, id) /\ (row.id = id => ~HasRow(rs, id)) => UniqueId(new, id)
    <2> SUFFICES ASSUME NEW id, UniqueId(rs, id), row.id = id => ~HasRow(rs, id),
                        NEW m \in DOMAIN new, NEW n \in DOMAIN new,
                        new[m].id = id, new[n].id = id
                 PROVE  m = n
      BY DEF UniqueId
    <2>1. row.id = id => \A k \in DOMAIN rs : rs[k].id # id
      BY DEF HasRow, Positions
    <2>2. m = p <=> n = p
      BY <1>2, <1>3, <1>4, <1>5, <2>1
    <2>3. m # p /\ n # p => o(m) = o(n)
      BY <1>2, <1>4, <1>5 DEF UniqueId
    <2> QED BY <1>4, <1>6, <2>2, <2>3
  <1>10. UniqueAsk(new)
    <2> SUFFICES ASSUME NEW m \in DOMAIN new, NEW n \in DOMAIN new,
                        new[m].ask = "asked", new[n].ask = "asked"
                 PROVE  m = n
      BY DEF UniqueAsk
    <2>1. m # p /\ n # p
      BY <1>3
    <2>2. o(m) = o(n)
      BY <1>2, <1>4, <1>5, <2>1 DEF Clean, UniqueAsk
    <2> QED BY <1>4, <1>6, <2>1, <2>2
  <1>11. Clean(new, gone, plain)
    <2>1. \A id \in plain \cup {Opt} : UniqueId(new, id)
      BY <1>9 DEF Clean
    <2> QED BY <1>3, <1>8, <1>10, <2>1 DEF Clean
  <1>12. Stay(rs, new, Jobs \cup {Opt})
    BY <1>2, <1>4, <1>5, <1>7 DEF Stay
  <1>13. \E n \in DOMAIN new : new[n] = row
    BY <1>3, <1>4
  <1>14. ASSUME Tidy(rs), row.id # Opt, ~HasRow(rs, row.id)
         PROVE  Tidy(new)
    <2>1. \A k \in DOMAIN rs : rs[k].id # Opt
      BY <1>14 DEF Tidy, HasRow, Positions
    <2>2. \A n \in DOMAIN new : new[n].id # Opt
      BY <1>2, <1>3, <1>4, <1>5, <1>14, <2>1
    <2>3. \A j \in Jobs : UniqueId(new, j)
      BY <1>9, <1>14 DEF Tidy
    <2> QED BY <2>2, <2>3 DEF Tidy, HasRow, Positions
  <1> QED BY <1>11, <1>12, <1>13, <1>14

LEMMA EditKeeps ==
  ASSUME NEW gone, NEW plain, NEW rs, Clean(rs, gone, plain), NEW k \in DOMAIN rs,
         NEW r, RowOK(r, gone, plain),
         r.id = rs[k].id \/ r.id \notin plain \cup {Opt},
         r.ask = "asked" => rs[k].ask = "asked" \/ \A m \in DOMAIN rs : rs[m].ask # "asked"
  PROVE  /\ Clean([rs EXCEPT ![k] = r], gone, plain)
         /\ \A ids : rs[k].id \notin ids => Stay(rs, [rs EXCEPT ![k] = r], ids)
         /\ r.id = rs[k].id =>
              /\ Tidy(rs) => Tidy([rs EXCEPT ![k] = r])
              /\ \A id : HasRow(rs, id) => HasRow([rs EXCEPT ![k] = r], id)
              /\ r.status = rs[k].status =>
                   Stay(rs, [rs EXCEPT ![k] = r], Jobs \cup {Opt})
  <1> DEFINE new == [rs EXCEPT ![k] = r]
  <1>1. rs \in Seq(RowShape) /\ r \in RowShape
    BY DEF Clean, RowOK
  <1>2. /\ new \in Seq(RowShape) /\ DOMAIN new = DOMAIN rs /\ new[k] = r
        /\ \A n \in DOMAIN rs : n # k => new[n] = rs[n]
    <2>1. Len(rs) \in Nat /\ DOMAIN rs = 1..Len(rs) /\ \A i \in DOMAIN rs : rs[i] \in RowShape
      BY <1>1, SeqElements
    <2>2. rs \in [1..Len(rs) -> RowShape]
      BY <1>1
    <2>3. new \in [1..Len(rs) -> RowShape] /\ DOMAIN new = DOMAIN rs /\ new[k] = r
          /\ \A n \in DOMAIN rs : n # k => new[n] = rs[n]
      BY <1>1, <2>1, <2>2
    <2> HIDE DEF new
    <2>4. new \in Seq(RowShape)
      BY <2>1, <2>3
    <2> QED BY <2>3, <2>4
  <1> SUFFICES /\ Clean(new, gone, plain)
               /\ \A ids : rs[k].id \notin ids => Stay(rs, new, ids)
               /\ r.id = rs[k].id =>
                    /\ Tidy(rs) => Tidy(new)
                    /\ \A id : HasRow(rs, id) => HasRow(new, id)
                    /\ r.status = rs[k].status => Stay(rs, new, Jobs \cup {Opt})
    OBVIOUS
  <1> HIDE DEF new
  <1>3. \A n \in DOMAIN new : RowOK(new[n], gone, plain)
    BY <1>2 DEF Clean
  <1>4. \A id : UniqueId(rs, id) /\ (r.id = rs[k].id \/ r.id # id) => UniqueId(new, id)
    BY <1>2 DEF UniqueId
  <1>5. UniqueAsk(new)
    BY <1>2 DEF Clean, UniqueAsk
  <1>6. \A id \in plain \cup {Opt} : UniqueId(new, id)
    BY <1>4 DEF Clean
  <1>7. Clean(new, gone, plain)
    BY <1>2, <1>3, <1>5, <1>6 DEF Clean
  <1>8. \A ids : rs[k].id \notin ids => Stay(rs, new, ids)
    BY <1>2 DEF Stay
  <1>9. ASSUME r.id = rs[k].id
        PROVE  /\ Tidy(rs) => Tidy(new)
               /\ \A id : HasRow(rs, id) => HasRow(new, id)
               /\ r.status = rs[k].status => Stay(rs, new, Jobs \cup {Opt})
    <2>1. \A n \in DOMAIN rs : new[n].id = rs[n].id
      BY <1>2, <1>9
    <2>2. \A id : HasRow(rs, id) <=> HasRow(new, id)
      BY <1>2, <2>1 DEF HasRow, Positions
    <2>3. Tidy(rs) => Tidy(new)
      BY <1>4, <1>9, <2>2 DEF Tidy
    <2>4. r.status = rs[k].status => Stay(rs, new, Jobs \cup {Opt})
      BY <1>2, <1>9 DEF Stay
    <2> QED BY <2>2, <2>3, <2>4
  <1> QED BY <1>7, <1>8, <1>9
----------------------------------------------------------------------------
(* The server                                                              *)

LEMMA CreatedFinite ==
  IsFiniteSet(Created) /\ Cardinality(Created) \in Nat
  <1>1. IsFiniteSet(Jobs) /\ Created \in SUBSET Jobs
    BY DashboardAssumption DEF Created
  <1> QED BY <1>1, FS_Subset, FS_CardinalityType

LEMMA NowIs == Now = Cardinality(Created) + 1 /\ Now \in Nat
  <1>1. Now = Cardinality(Created) + 1
    BY DEF Now, Created
  <1> QED BY <1>1, CreatedFinite

\* No job has a new end that was told.
NoNewEnds ==
  /\ told' \subseteq told
  /\ \A j \in told' : job'[j] \in {"completed", "failed"} => job'[j] = job[j]

LEMMA CreateKeeps ==
  ASSUME ServerInv, NEW j \in Jobs, job[j] = "absent", Create(j)
  PROVE  /\ ServerInv' /\ Gone' = Gone /\ Plain' = Plain
         /\ NoNewEnds
  <1>1. /\ job' = [job EXCEPT ![j] = "pending"] /\ born' = [born EXCEPT ![j] = Now]
        /\ urlOf' = urlOf /\ toPublish' = toPublish /\ told' = told
    BY DEF Create
  <1>2. /\ born \in [Jobs -> Nat] /\ job \in [Jobs -> Statuses \cup {"absent", "deleted"}]
        /\ urlOf \in [Jobs -> Urls]
    BY DEF ServerInv
  <1>3. /\ job' \in [Jobs -> Statuses \cup {"absent", "deleted"}]
        /\ job'[j] = "pending" /\ \A i \in Jobs : i # j => job'[i] = job[i]
    BY <1>1, <1>2 DEF Statuses
  <1>4. /\ born' \in [Jobs -> Nat] /\ born'[j] = Now
        /\ \A i \in Jobs : i # j => born'[i] = born[i]
    BY <1>1, <1>2, NowIs
  <1>5. born[j] = 0
    BY DEF ServerInv
  <1>6. Created' = Created \cup {j} /\ j \notin Created
    BY <1>2, <1>4, <1>5, NowIs, CreatedFinite DEF Created
  <1>7. Cardinality(Created') = Now
    BY <1>6, CreatedFinite, NowIs, FS_AddElement
  <1>8. \A i \in Jobs : born[i] < Now /\ born[i] \in Nat
    BY <1>2, NowIs, CreatedFinite DEF ServerInv
  <1>9. \A i \in Jobs : born'[i] <= Now
    BY <1>4, <1>8, NowIs
  <1>10. \A i \in Jobs : job'[i] = "absent" <=> born'[i] = 0
    BY <1>3, <1>4, NowIs, CreatedFinite DEF ServerInv
  <1>11. \A i, k \in Created' : born'[i] = born'[k] => i = k
    <2> SUFFICES ASSUME NEW i \in Created', NEW k \in Created', born'[i] = born'[k]
                 PROVE  i = k
      OBVIOUS
    <2>1. i \in Jobs /\ k \in Jobs
      BY <1>6 DEF Created
    <2>2. i = j <=> k = j
      BY <1>4, <1>8, <2>1, NowIs
    <2>3. i # j /\ k # j => i \in Created /\ k \in Created /\ born[i] = born[k]
      BY <1>4, <1>6, <2>1
    <2> QED BY <2>2, <2>3 DEF ServerInv
  <1>12. toPublish[j] = "none" /\ j \notin told
    <2>1. toPublish[j] \in Statuses \cup {"none"}
      BY DEF ServerInv
    <2> QED BY <2>1 DEF ServerInv, Statuses
  <1>13. /\ toPublish' \in [Jobs -> Statuses \cup {"none"}] /\ told' \subseteq Jobs
         /\ \A i \in Jobs : toPublish'[i] # "none" => job'[i] \in {toPublish'[i], "deleted"}
         /\ \A i \in told' : job'[i] \in {"completed", "failed", "deleted"}
    BY <1>1, <1>3, <1>12 DEF ServerInv
  <1>14. ServerInv'
    BY <1>1, <1>2, <1>3, <1>4, <1>7, <1>9, <1>10, <1>11, <1>13 DEF ServerInv
  <1>15. Gone' = Gone /\ Plain' = Plain
    BY <1>1, <1>3 DEF Gone, Plain
  <1>16. NoNewEnds
    BY <1>1, <1>3, <1>12 DEF NoNewEnds, ServerInv
  <1> QED BY <1>14, <1>15, <1>16

\* The snapshot tells a job once, and as it is.
LEMMA SnapshotTells ==
  ASSUME ServerInv
  PROVE  /\ Snapshot \in Seq(EventShape)
         /\ \A n \in DOMAIN Snapshot :
              Snapshot[n] = [id |-> Snapshot[n].id, status |-> job[Snapshot[n].id]]
         /\ \A m, n \in DOMAIN Snapshot : Snapshot[m].id = Snapshot[n].id => m = n
  <1> DEFINE times == {born[j] : j \in Alive}
             c == Cardinality(times)
             P(n) == Position(times, c + 1 - n)
             Nth(n) == CHOOSE j \in Alive : born[j] = P(n)
             N == Cardinality(Created)
             d == IF c < SnapshotLimit THEN c ELSE SnapshotLimit
  <1>1. N \in Nat
    BY CreatedFinite
  <1>2. \A j \in Alive : j \in Jobs /\ j \in Created /\ job[j] \in Statuses /\ born[j] \in 1..N
    <2> SUFFICES ASSUME NEW j \in Alive
                 PROVE  j \in Jobs /\ j \in Created /\ job[j] \in Statuses /\ born[j] \in 1..N
      OBVIOUS
    <2>1. j \in Jobs /\ job[j] \notin {"absent", "deleted"}
      BY DEF Alive
    <2>2. job[j] \in Statuses /\ born[j] \in Nat /\ born[j] # 0 /\ born[j] <= N
      BY <2>1 DEF ServerInv
    <2>3. born[j] \in 1..N /\ born[j] > 0
      BY <1>1, <2>2
    <2> QED BY <2>1, <2>2, <2>3 DEF Created
  <1>3. Within(times, N)
    BY <1>2 DEF Within
  <1>4. c \in Nat
    <2>1. times \in SUBSET (1..N)
      BY <1>3 DEF Within
    <2> HIDE DEF times
    <2> QED BY <1>1, <2>1, PositionsFinite
  <1>5. ASSUME NEW n \in 1..c
        PROVE  P(n) \in times /\ Cardinality({m \in times : m <= P(n)}) = c + 1 - n
    <2>1. c + 1 - n \in 1..c
      BY <1>4
    <2> HIDE DEF times
    <2> QED BY <1>1, <1>3, <2>1, PositionIs
  <1>6. d \in Nat /\ \A n \in 1..d : n \in 1..c
    BY <1>4, DashboardAssumption
  <1>7. Snapshot = [n \in 1..d |-> [id |-> Nth(n), status |-> job[Nth(n)]]]
    BY DEF Snapshot
  <1>8. \A n \in 1..c : \E j \in Alive : born[j] = P(n)
    <2> SUFFICES ASSUME NEW n \in 1..c PROVE \E j \in Alive : born[j] = P(n)
      OBVIOUS
    <2>1. P(n) \in times
      BY <1>5
    <2> HIDE DEF P
    <2> QED BY <2>1
  <1>9. \A n \in 1..c : Nth(n) \in Alive /\ born[Nth(n)] = P(n)
    BY <1>8
  <1>11. \A m, n \in 1..c : Nth(m) = Nth(n) => m = n
    <2> SUFFICES ASSUME NEW m \in 1..c, NEW n \in 1..c, Nth(m) = Nth(n) PROVE m = n
      OBVIOUS
    <2>1. P(m) = P(n)
      BY <1>9
    <2>2. c + 1 - m = c + 1 - n
      <3> HIDE DEF P
      <3> QED BY <1>5, <2>1
    <2> QED BY <1>4, <2>2
  <1> HIDE DEF Nth, P, c, times, d
  <1>12. \A n \in 1..d : Nth(n) \in Jobs /\ job[Nth(n)] \in Statuses
    BY <1>2, <1>6, <1>9
  <1>13. Snapshot \in [1..d -> EventShape]
    BY <1>7, <1>12 DEF EventShape
  <1>14. Snapshot \in Seq(EventShape) /\ DOMAIN Snapshot = 1..d
    BY <1>6, <1>13
  <1>15. ASSUME NEW n \in 1..d
         PROVE  /\ Snapshot[n] = [id |-> Nth(n), status |-> job[Nth(n)]]
                /\ Snapshot[n].id = Nth(n)
    <2>1. Snapshot[n] = [id |-> Nth(n), status |-> job[Nth(n)]]
      BY <1>7
    <2>2. [id |-> Nth(n), status |-> job[Nth(n)]].id = Nth(n)
      OBVIOUS
    <2> QED BY <2>1, <2>2
  <1>16. \A n \in 1..d : Snapshot[n] = [id |-> Snapshot[n].id, status |-> job[Snapshot[n].id]]
    BY <1>15
  <1>17. \A m, n \in 1..d : Snapshot[m].id = Snapshot[n].id => m = n
    <2> SUFFICES ASSUME NEW m \in 1..d, NEW n \in 1..d, Snapshot[m].id = Snapshot[n].id
                 PROVE  m = n
      OBVIOUS
    <2>1. Nth(m) = Nth(n)
      BY <1>15
    <2>2. m \in 1..c /\ n \in 1..c
      BY <1>6
    <2> QED BY <1>11, <2>1, <2>2
  <1> QED BY <1>14, <1>16, <1>17

----------------------------------------------------------------------------
(* Steps that leave the events for the rows alone                          *)

LEMMA StaySame ==
  ASSUME NEW rs, NEW ids
  PROVE  Stay(rs, rs, ids)
  BY DEF Stay

LEMMA StayLess ==
  ASSUME NEW rs, NEW new, NEW ids, NEW fewer \in SUBSET ids, Stay(rs, new, ids)
  PROVE  Stay(rs, new, fewer)
  BY DEF Stay

LEMMA StayHas ==
  ASSUME NEW rs, NEW new, NEW ids, Stay(rs, new, ids), NEW id \in ids, HasRow(rs, id)
  PROVE  HasRow(new, id)
  BY DEF Stay, HasRow, Positions

LEMMA ServerKeeps ==
  ASSUME UNCHANGED <<urlOf, job, born, toPublish>>, told' \subseteq told
  PROVE  /\ ServerInv => ServerInv'
         /\ Gone' = Gone /\ Plain' = Plain /\ NoNewEnds
  BY DEF ServerInv, Created, Gone, Plain, NoNewEnds

LEMMA ServerSame ==
  ASSUME UNCHANGED server
  PROVE  /\ ServerInv => ServerInv'
         /\ Gone' = Gone /\ Plain' = Plain /\ NoNewEnds
  BY ServerKeeps DEF server

\* Ends that were known or shown stay so when no event comes or goes and the
\* rows of the other jobs stay.
LEMMA Frame ==
  ASSUME DashInv, StreamInv', FormInv', ServerInv', QueueInv', RowsInv',
         Plain' = Plain, Gone \subseteq Gone',
         Stay(rows, rows', Plain \ Gone'),
         \A j \in Plain \cap htmxPending' : j \in htmxPending \/ HasRow(rows', j),
         conn' = "open" => conn = "open" /\ statusQ' = statusQ,
         NoNewEnds
  PROVE  DashInv'
  <1>1. PendingInv'
    <2> SUFFICES ASSUME NEW j \in Plain', j \in htmxPending'
                 PROVE  HasRow(rows', j) \/ j \in Gone'
      BY DEF PendingInv
    <2>1. j \in Plain /\ (HasRow(rows, j) \/ j \in Gone \/ HasRow(rows', j))
      BY DEF DashInv, PendingInv
    <2>2. ASSUME HasRow(rows, j), j \notin Gone'
          PROVE  HasRow(rows', j)
      <3>1. j \in Plain \ Gone'
        BY <2>1, <2>2
      <3> QED BY <2>2, <3>1, StayHas
    <2> QED BY <2>1, <2>2
  <1>2. EndsInv'
    <2> SUFFICES ASSUME conn' = "open", NEW j \in Plain', j \in told',
                        job'[j] \in {"completed", "failed"}
                 PROVE  EndKnown(j)'
      BY DEF EndsInv
    <2>1. j \in Jobs /\ j \in Plain /\ j \in told /\ job'[j] = job[j]
      BY DEF Plain, NoNewEnds
    <2>2. EndKnown(j) /\ statusQ' = statusQ
      BY <2>1 DEF DashInv, EndsInv
    <2>3. j \in Plain \ Gone'
      BY <2>1 DEF Gone
    <2>4. \A k \in DOMAIN rows : rows[k].id = j =>
            \E n \in DOMAIN rows' : rows'[n].id = j /\ rows'[n].status = rows[k].status
      BY <2>3 DEF Stay
    <2> QED BY <2>1, <2>2, <2>4 DEF EndKnown
  <1> QED BY <1>1, <1>2 DEF DashInv
LEMMA StayTrans ==
  ASSUME NEW rs, NEW mid, NEW new, NEW ids, Stay(rs, mid, ids), Stay(mid, new, ids)
  PROVE  Stay(rs, new, ids)
  BY DEF Stay

LEMMA PlainAreJobs == Plain \in SUBSET Jobs /\ Opt \notin Plain
  BY DashboardAssumption DEF Plain

\* The rows and what they are judged by are left alone.
LEMMA RowsSame ==
  ASSUME DashInv, rows' = rows, Plain' = Plain, Gone' = Gone,
         form' = "idle" => form = "idle"
  PROVE  RowsInv' /\ Stay(rows, rows', Plain \ Gone')
  <1>1. Clean(rows', Gone', Plain')
    BY DEF DashInv, RowsInv
  <1>2. form' = "idle" => Tidy(rows')
    BY DEF DashInv, RowsInv
  <1> QED BY <1>1, <1>2, StaySame DEF RowsInv

----------------------------------------------------------------------------
(* The stream                                                              *)

LEMMA BackoffBounded ==
  ASSUME retryCount \in 0..MaxBackoff
  PROVE  NextBackoff \in 0..MaxBackoff
  <1>1. MaxBackoff \in Nat /\ MaxBackoff >= 1
    BY StreamAssumption
  <1>2. PICK r \in Int : r = retryCount /\ 0 <= r /\ r <= MaxBackoff
    OBVIOUS
  <1>3. PICK d \in Int : d = r * 2 /\ 0 <= d
    BY <1>2
  <1>4. NextBackoff = LET doubled == IF d < MaxBackoff THEN d ELSE MaxBackoff
                      IN  IF doubled < 1 THEN 1 ELSE doubled
    BY <1>2, <1>3 DEF NextBackoff
  <1> QED BY <1>1, <1>3, <1>4

LEMMA StreamEndsStep ==
  ASSUME DashInv, StreamEnds
  PROVE  DashInv'
  <1>0. StreamStep
    BY DEF StreamEnds
  <1>1. /\ UNCHANGED <<urlOf, job, born, toPublish>> /\ told' = {}
        /\ rows' = rows /\ UNCHANGED request /\ htmxPending' = htmxPending
    BY DEF StreamEnds, dash
  <1>2. /\ ServerInv' /\ Gone' = Gone /\ Plain' = Plain
        /\ NoNewEnds
    BY <1>1, ServerKeeps DEF DashInv
  <1>3. FormInv'
    BY <1>1 DEF DashInv, FormInv, request
  <1>4. RowsInv' /\ Stay(rows, rows', Plain \ Gone')
    BY <1>1, <1>2, RowsSame DEF request
  <1>5. QueueInv'
    <2>1. \/ statusQ' = <<>> /\ progressQ' = <<>>
          \/ statusQ' = statusQ /\ progressQ' = progressQ
      BY <1>0 DEF StreamStep, Drops, Refused, Reconnects, queues
    <2>2. statusQ \in Seq(EventShape) /\ progressQ \in Seq(Jobs)
      BY DEF DashInv, QueueInv
    <2>3. <<>> \in Seq(EventShape) /\ <<>> \in Seq(Jobs)
      OBVIOUS
    <2>4. CASE statusQ' = <<>> /\ progressQ' = <<>>
      BY <2>3, <2>4 DEF QueueInv
    <2>5. CASE statusQ' = statusQ /\ progressQ' = progressQ
      BY <2>2, <2>5 DEF QueueInv
    <2> QED BY <2>1, <2>4, <2>5
  <1>6. StreamInv' /\ conn' # "open"
    <2>1. CASE Drops
      BY <2>1 DEF Drops, DashInv, StreamInv
    <2>2. CASE Refused
      <3>1. conn' = "closed" /\ retryCount' = NextBackoff /\ timer' = TRUE /\ heard' = heard
        BY <2>2 DEF Refused, ArmTimer
      <3> QED BY <3>1, BackoffBounded DEF DashInv, StreamInv
    <2>3. CASE Reconnects
      BY <2>3 DEF Reconnects, DashInv, StreamInv
    <2> QED BY <1>0, <2>1, <2>2, <2>3 DEF StreamStep
  <1> QED BY <1>1, <1>2, <1>3, <1>4, <1>5, <1>6, Frame

\* What the snapshot tells of a job that is not replayed is the last event for it.
LEMMA StreamOpensStep ==
  ASSUME DashInv, StreamOpens
  PROVE  DashInv'
  <1>1. PICK a \in {Snapshot, <<>>}, b \in {<<>>} \cup {<<e>> : e \in Overtaken} :
          /\ Opens(a \o b) /\ told' = (Ends \cap Ids(a)) \ Ids(b)
          /\ UNCHANGED <<urlOf, job, born, toPublish, dash>>
    BY DEF StreamOpens
  <1>2. /\ rows' = rows /\ UNCHANGED request /\ htmxPending' = htmxPending
        /\ UNCHANGED <<urlOf, job, born, toPublish>>
    BY <1>1 DEF dash
  <1>3. ServerInv /\ Gone' = Gone /\ Plain' = Plain /\ job' = job
    BY <1>2 DEF DashInv, Gone, Plain
  <1>4. ServerInv'
    <2>1. told' \subseteq Jobs /\ \A j \in told' : job'[j] \in {"completed", "failed", "deleted"}
      BY <1>1, <1>2 DEF Ends
    <2> QED BY <1>2, <1>3, <2>1 DEF ServerInv, Created
  <1>5. FormInv'
    BY <1>2 DEF DashInv, FormInv, request
  <1>6. RowsInv'
    BY <1>2, <1>3, RowsSame DEF request
  <1>7. PendingInv'
    BY <1>2, <1>3 DEF DashInv, PendingInv
  <1>8. statusQ' = a \o b /\ progressQ' = <<>> /\ StreamInv'
    BY <1>1, StreamAssumption DEF Opens, attachSSE, DashInv, StreamInv
  <1>9. /\ a \in Seq(EventShape)
        /\ \A n \in DOMAIN a : a[n] = [id |-> a[n].id, status |-> job[a[n].id]]
        /\ \A m, n \in DOMAIN a : a[m].id = a[n].id => m = n
    <2>1. CASE a = Snapshot
      BY <1>3, <2>1, SnapshotTells
    <2>2. CASE a = <<>>
      BY <2>2
    <2> QED BY <1>1, <2>1, <2>2
  <1>10. b \in Seq(EventShape)
    <2>1. \A e \in Overtaken : e \in EventShape
      BY DEF Overtaken, EventShape, Statuses
    <2>2. CASE b = <<>>
      BY <2>2
    <2>3. CASE \E e \in Overtaken : b = <<e>>
      <3>1. PICK e \in EventShape : b = <<e>>
        BY <2>1, <2>3
      <3> QED BY <3>1
    <2> QED BY <2>2, <2>3
  <1>11. /\ Len(a) \in Nat /\ DOMAIN a = 1..Len(a)
         /\ Len(b) \in Nat /\ DOMAIN b = 1..Len(b)
    BY <1>9, <1>10, SeqElements
  <1>12. /\ a \o b \in Seq(EventShape) /\ DOMAIN (a \o b) = 1..(Len(a) + Len(b))
         /\ \A i \in 1..(Len(a) + Len(b)) :
              (a \o b)[i] = IF i <= Len(a) THEN a[i] ELSE b[i - Len(a)]
    BY <1>9, <1>10, <1>11, ConcatProperties
  <1>13. QueueInv'
    BY <1>8, <1>12 DEF QueueInv
  <1>14. ASSUME NEW j \in told'
         PROVE  EndKnown(j)'
    <2>1. PICK n \in DOMAIN a : a[n].id = j
      BY <1>1 DEF Ids
    <2>2. \A m \in DOMAIN b : b[m].id # j
      BY <1>1 DEF Ids
    <2>3. n \in DOMAIN statusQ' /\ statusQ'[n] = [id |-> j, status |-> job'[j]]
      <3>1. n \in 1..(Len(a) + Len(b)) /\ n <= Len(a)
        BY <1>11
      <3> QED BY <1>3, <1>8, <1>9, <1>12, <2>1, <3>1
    <2>4. ASSUME NEW m \in DOMAIN statusQ', m > n
          PROVE  statusQ'[m].id # j
      <3>1. m \in 1..(Len(a) + Len(b)) /\ n \in Int
        BY <1>8, <1>11, <1>12
      <3>2. CASE m <= Len(a)
        <4>1. m \in DOMAIN a /\ statusQ'[m] = a[m] /\ m # n
          BY <1>8, <1>11, <1>12, <2>4, <3>1, <3>2
        <4> QED BY <1>9, <2>1, <4>1
      <3>3. CASE ~(m <= Len(a))
        <4>1. m - Len(a) \in DOMAIN b /\ statusQ'[m] = b[m - Len(a)]
          BY <1>8, <1>11, <1>12, <3>1, <3>3
        <4> QED BY <2>2, <4>1
      <3> QED BY <3>2, <3>3
    <2> QED BY <2>3, <2>4 DEF EndKnown
  <1>15. EndsInv'
    BY <1>14 DEF EndsInv
  <1> QED BY <1>3, <1>4, <1>5, <1>6, <1>7, <1>8, <1>13, <1>15 DEF DashInv

----------------------------------------------------------------------------
(* The server's steps                                                      *)

\* The answer is the job the form asked for.
LEMMA CreateStep ==
  ASSUME DashInv, NEW j \in Jobs, CreatedElsewhere(j) \/ Accepts(j)
  PROVE  DashInv'
  <1>1. /\ job[j] = "absent" /\ Create(j) /\ UNCHANGED <<stream, urlOf>>
        /\ rows' = rows /\ form' = form /\ htmxPending' = htmxPending
    BY DEF CreatedElsewhere, Accepts, Create, dash, request
  <1>2. /\ ServerInv' /\ Gone' = Gone /\ Plain' = Plain
        /\ NoNewEnds
    BY <1>1, CreateKeeps DEF DashInv
  <1>3. StreamInv' /\ QueueInv' /\ conn' = conn /\ statusQ' = statusQ
    BY <1>1 DEF stream, source, link, queues, DashInv, StreamInv, QueueInv
  <1>4. FormInv'
    <2>1. CASE CreatedElsewhere(j)
      BY <1>1, <2>1 DEF CreatedElsewhere, dash, request, DashInv, FormInv
    <2>2. CASE Accepts(j)
      BY <1>1, <2>2 DEF Accepts, DashInv, FormInv
    <2> QED BY <2>1, <2>2
  <1>5. RowsInv' /\ Stay(rows, rows', Plain \ Gone')
    BY <1>1, <1>2, RowsSame
  <1> QED BY <1>1, <1>2, <1>3, <1>4, <1>5, Frame

LEMMA ProgressesStep ==
  ASSUME DashInv, NEW j \in Jobs, Progresses(j)
  PROVE  DashInv'
  <1>1. /\ UNCHANGED server /\ rows' = rows /\ UNCHANGED request /\ htmxPending' = htmxPending
        /\ UNCHANGED source /\ statusQ' = statusQ /\ progressQ' = Append(progressQ, j)
    BY DEF Progresses, dash
  <1>2. /\ ServerInv' /\ Gone' = Gone /\ Plain' = Plain
        /\ NoNewEnds
    BY <1>1, ServerSame DEF DashInv
  <1>3. FormInv' /\ StreamInv' /\ QueueInv' /\ conn' = conn
    BY <1>1 DEF DashInv, FormInv, StreamInv, QueueInv, request, server, source, link
  <1>4. RowsInv' /\ Stay(rows, rows', Plain \ Gone')
    BY <1>1, <1>2, RowsSame DEF request
  <1> QED BY <1>1, <1>2, <1>3, <1>4, Frame

\* The end of a job that goes on was not told yet.
LEMMA WorkerStepStep ==
  ASSUME DashInv, NEW j \in Jobs, NEW s \in {"processing", "completed", "failed"},
         WorkerStep(j, s)
  PROVE  DashInv'
  <1>1. /\ UNCHANGED <<stream, urlOf, born, told>> /\ rows' = rows /\ UNCHANGED request
        /\ htmxPending' = htmxPending /\ job' = [job EXCEPT ![j] = s]
        /\ toPublish' = [toPublish EXCEPT ![j] = s] /\ job[j] \in {"pending", "processing"}
    BY DEF WorkerStep, dash
  <1>2. /\ job \in [Jobs -> Statuses \cup {"absent", "deleted"}] /\ j \notin told
        /\ toPublish \in [Jobs -> Statuses \cup {"none"}]
    BY <1>1 DEF DashInv, ServerInv
  <1>3. /\ job' \in [Jobs -> Statuses \cup {"absent", "deleted"}]
        /\ job'[j] = s /\ \A i \in Jobs : i # j => job'[i] = job[i]
    BY <1>1, <1>2 DEF Statuses
  <1>4. /\ toPublish' \in [Jobs -> Statuses \cup {"none"}]
        /\ toPublish'[j] = s /\ \A i \in Jobs : i # j => toPublish'[i] = toPublish[i]
    BY <1>1, <1>2 DEF Statuses
  <1>5. Gone' = Gone /\ Plain' = Plain /\ Created' = Created
    BY <1>1, <1>3 DEF Gone, Plain, Created
  <1>6. told \subseteq Jobs /\ \A i \in told : job'[i] = job[i]
    BY <1>2, <1>3 DEF DashInv, ServerInv
  <1>7. ServerInv'
    <2>1. \A i \in Jobs : job'[i] = "absent" <=> born'[i] = 0
      BY <1>1, <1>3 DEF DashInv, ServerInv
    <2>2. \A i \in Jobs : toPublish'[i] # "none" => job'[i] \in {toPublish'[i], "deleted"}
      BY <1>3, <1>4 DEF DashInv, ServerInv
    <2> QED BY <1>1, <1>3, <1>4, <1>5, <1>6, <2>1, <2>2 DEF DashInv, ServerInv
  <1>8. FormInv' /\ StreamInv' /\ QueueInv' /\ conn' = conn /\ statusQ' = statusQ
    BY <1>1 DEF DashInv, FormInv, StreamInv, QueueInv, request, stream, source, link, queues
  <1>9. RowsInv' /\ Stay(rows, rows', Plain \ Gone')
    BY <1>1, <1>5, RowsSame DEF request
  <1>10. NoNewEnds
    BY <1>1, <1>6 DEF NoNewEnds
  <1> QED BY <1>1, <1>5, <1>7, <1>8, <1>9, <1>10, Frame

LEMMA PublishLostStep ==
  ASSUME DashInv, NEW j \in Jobs, PublishLost(j)
  PROVE  DashInv'
  <1>1. /\ UNCHANGED <<stream, urlOf, job, born, told>> /\ rows' = rows /\ UNCHANGED request
        /\ htmxPending' = htmxPending /\ toPublish' = [toPublish EXCEPT ![j] = "none"]
    BY DEF PublishLost, dash
  <1>2. /\ toPublish' \in [Jobs -> Statuses \cup {"none"}]
        /\ \A i \in Jobs : toPublish'[i] # "none" => toPublish'[i] = toPublish[i]
    BY <1>1 DEF DashInv, ServerInv
  <1>3. Gone' = Gone /\ Plain' = Plain /\ Created' = Created /\ NoNewEnds
    BY <1>1 DEF Gone, Plain, Created, NoNewEnds
  <1>4. ServerInv'
    BY <1>1, <1>2, <1>3 DEF DashInv, ServerInv
  <1>5. FormInv' /\ StreamInv' /\ QueueInv' /\ conn' = conn /\ statusQ' = statusQ
    BY <1>1 DEF DashInv, FormInv, StreamInv, QueueInv, request, stream, source, link, queues
  <1>6. RowsInv' /\ Stay(rows, rows', Plain \ Gone')
    BY <1>1, <1>3, RowsSame DEF request
  <1> QED BY <1>1, <1>3, <1>4, <1>5, <1>6, Frame

\* A job's end is told by the last event for it; the last events for the others
\* stay the last.
LEMMA PublishStep ==
  ASSUME DashInv, NEW j \in Jobs, Publish(j)
  PROVE  DashInv'
  <1>1. /\ UNCHANGED <<source, progressQ, urlOf, job, born>> /\ rows' = rows
        /\ UNCHANGED request /\ htmxPending' = htmxPending
        /\ toPublish[j] # "none" /\ toPublish' = [toPublish EXCEPT ![j] = "none"]
        /\ told' = told \cup ({j} \cap Ends)
    BY DEF Publish, dash
  <1>2. PICK s \in Statuses : s = toPublish[j] /\ job[j] \in {s, "deleted"}
    BY <1>1 DEF DashInv, ServerInv
  <1>3. /\ toPublish' \in [Jobs -> Statuses \cup {"none"}]
        /\ \A i \in Jobs : toPublish'[i] # "none" => toPublish'[i] = toPublish[i]
    BY <1>1 DEF DashInv, ServerInv
  <1>4. Gone' = Gone /\ Plain' = Plain /\ Created' = Created
    BY <1>1 DEF Gone, Plain, Created
  <1>5. ServerInv'
    <2>1. told' \subseteq Jobs /\ \A i \in told' : job[i] \in {"completed", "failed", "deleted"}
      BY <1>1 DEF Ends, DashInv, ServerInv
    <2> QED BY <1>1, <1>3, <1>4, <2>1 DEF DashInv, ServerInv
  <1>6. FormInv' /\ StreamInv' /\ conn' = conn
    BY <1>1 DEF DashInv, FormInv, StreamInv, request, source, link
  <1>7. RowsInv'
    BY <1>1, <1>4, RowsSame DEF request
  <1>8. PendingInv'
    BY <1>1, <1>4 DEF DashInv, PendingInv
  <1> DEFINE e == [id |-> j, status |-> s]
  <1>9. e \in EventShape /\ e.id = j
    BY DEF EventShape
  <1>10. statusQ' = Append(statusQ, e)
    BY <1>2 DEF Publish
  <1> HIDE DEF e
  <1>11. statusQ \in Seq(EventShape) /\ QueueInv'
    BY <1>1, <1>9, <1>10 DEF DashInv, QueueInv
  <1>12. EndsInv'
    <2> SUFFICES ASSUME conn = "open", NEW i \in Plain, i \in told',
                        job[i] \in {"completed", "failed"}
                 PROVE  EndKnown(i)'
      BY <1>1, <1>4, <1>6 DEF EndsInv
    <2>1. Len(statusQ) \in Nat /\ DOMAIN statusQ = 1..Len(statusQ)
      BY <1>11, SeqElements
    <2>2. /\ DOMAIN statusQ' = 1..(Len(statusQ) + 1) /\ statusQ'[Len(statusQ) + 1] = e
          /\ \A n \in 1..Len(statusQ) : statusQ'[n] = statusQ[n]
      BY <1>9, <1>10, <1>11
    <2>3. CASE i = j
      <3>1. Len(statusQ) + 1 \in DOMAIN statusQ' /\ \A m \in DOMAIN statusQ' : ~(m > Len(statusQ) + 1)
        BY <2>1, <2>2
      <3>2. statusQ'[Len(statusQ) + 1] = [id |-> i, status |-> job'[i]]
        BY <1>1, <1>2, <2>2, <2>3 DEF e
      <3> QED BY <3>1, <3>2 DEF EndKnown
    <2>4. CASE i # j
      <3>1. EndKnown(i) /\ job' = job
        BY <1>1, <2>4 DEF DashInv, EndsInv
      <3>2. \A n \in DOMAIN statusQ' : n \in DOMAIN statusQ \/ (n = Len(statusQ) + 1 /\ statusQ'[n].id # i)
        BY <1>9, <2>1, <2>2, <2>4
      <3>3. \A n \in DOMAIN statusQ : n \in DOMAIN statusQ' /\ statusQ'[n] = statusQ[n]
        BY <2>1, <2>2
      <3> QED BY <1>1, <3>1, <3>2, <3>3 DEF EndKnown
    <2> QED BY <2>3, <2>4
  <1> QED BY <1>4, <1>5, <1>6, <1>7, <1>8, <1>11, <1>12 DEF DashInv
----------------------------------------------------------------------------
(* Deleting                                                                *)

\* What is kept in rows when only the state of one row's delete request changes.
LEMMA AskKeeps ==
  ASSUME NEW gone, NEW plain \in SUBSET Jobs, NEW rs, Clean(rs, gone, plain),
         NEW k \in DOMAIN rs, NEW state \in {"no", "asked", "sent", "deleted", "refused"},
         state = "deleted" => rs[k].path \in gone,
         state = "asked" => \A m \in DOMAIN rs : rs[m].ask # "asked"
  PROVE  /\ Clean([rs EXCEPT ![k].ask = state], gone, plain)
         /\ Tidy(rs) => Tidy([rs EXCEPT ![k].ask = state])
         /\ Stay(rs, [rs EXCEPT ![k].ask = state], Jobs \cup {Opt})
         /\ \A id : HasRow(rs, id) => HasRow([rs EXCEPT ![k].ask = state], id)
  <1> DEFINE r == [rs[k] EXCEPT !.ask = state]
  <1>1. RowOK(rs[k], gone, plain) /\ rs[k] \in RowShape
    BY DEF Clean, RowOK
  <1>2. /\ r \in RowShape /\ r.id = rs[k].id /\ r.status = rs[k].status /\ r.url = rs[k].url
        /\ r.save = rs[k].save /\ r.path = rs[k].path /\ r.ask = state
    BY <1>1 DEF RowShape
  <1>3. [rs EXCEPT ![k].ask = state] = [rs EXCEPT ![k] = r]
    OBVIOUS
  <1> HIDE DEF r
  <1>4. RowOK(r, gone, plain)
    BY <1>1, <1>2 DEF RowOK
  <1>5. r.ask = "asked" => rs[k].ask = "asked" \/ \A m \in DOMAIN rs : rs[m].ask # "asked"
    BY <1>2
  <1>6. /\ Clean([rs EXCEPT ![k] = r], gone, plain)
        /\ Tidy(rs) => Tidy([rs EXCEPT ![k] = r])
        /\ \A id : HasRow(rs, id) => HasRow([rs EXCEPT ![k] = r], id)
        /\ Stay(rs, [rs EXCEPT ![k] = r], Jobs \cup {Opt})
    BY <1>2, <1>4, <1>5, EditKeeps
  <1> QED BY <1>3, <1>6

\* What is clean stays so when more jobs are gone.
LEMMA CleanMore ==
  ASSUME NEW gone, NEW more, gone \subseteq more, NEW plain, NEW rs, Clean(rs, gone, plain)
  PROVE  Clean(rs, more, plain)
  BY DEF Clean, RowOK

LEMMA AskStep ==
  ASSUME DashInv, NEW k \in DOMAIN rows,
         NEW state \in {"no", "asked", "sent", "refused"}, Ask(k, state),
         state = "asked" => \A m \in DOMAIN rows : rows[m].ask # "asked",
         UNCHANGED <<link, queues, server, request, htmxPending>>
  PROVE  DashInv'
  <1>1. rows' = [rows EXCEPT ![k].ask = state]
    BY DEF Ask
  <1>2. /\ ServerInv' /\ Gone' = Gone /\ Plain' = Plain
        /\ NoNewEnds
    BY ServerSame DEF DashInv
  <1>3. /\ FormInv' /\ StreamInv' /\ QueueInv' /\ conn' = conn /\ statusQ' = statusQ
        /\ form' = form
    BY DEF DashInv, FormInv, StreamInv, QueueInv, request, server, queues, link
  <1>4. Clean(rows, Gone, Plain) /\ (form = "idle" => Tidy(rows))
    BY DEF DashInv, RowsInv
  <1>5. /\ Clean(rows', Gone, Plain) /\ (Tidy(rows) => Tidy(rows'))
        /\ Stay(rows, rows', Jobs \cup {Opt})
    BY <1>1, <1>4, AskKeeps, PlainAreJobs
  <1>6. Clean(rows', Gone', Plain') /\ Stay(rows, rows', Plain \ Gone')
    BY <1>2, <1>5, StayLess, PlainAreJobs
  <1>7. RowsInv'
    BY <1>3, <1>4, <1>5, <1>6 DEF RowsInv
  <1> QED BY <1>2, <1>3, <1>6, <1>7, Frame

LEMMA ClickSteps ==
  ASSUME DashInv, NEW k \in DOMAIN rows, ClickDelete(k) \/ closeModal(k) \/ DeleteLost(k)
  PROVE  DashInv'
  <1>1. CASE ClickDelete(k)
    BY <1>1, AskStep DEF ClickDelete
  <1>2. CASE closeModal(k)
    <2>1. PICK answer \in {"sent", "no"} : Ask(k, answer)
      BY <1>2 DEF closeModal
    <2>2. UNCHANGED <<link, queues, server, request, htmxPending>>
      BY <1>2 DEF closeModal, stream, source
    <2> QED BY <2>1, <2>2, AskStep
  <1>3. CASE DeleteLost(k)
    <2>1. Ask(k, "no")
      BY <1>3 DEF DeleteLost
    <2>2. UNCHANGED <<link, queues, server, request, htmxPending>>
      BY <1>3 DEF DeleteLost, EnableAfterDelete, request, stream, source
    <2> QED BY <2>1, <2>2, AskStep
  <1> QED BY <1>1, <1>2, <1>3

LEMMA ServerDeletesStep ==
  ASSUME DashInv, NEW k \in DOMAIN rows, ServerDeletes(k)
  PROVE  DashInv'
  <1>1. UNCHANGED <<stream, urlOf, born, toPublish, told, request, htmxPending>>
    BY DEF ServerDeletes
  <1>2. CASE job' = job /\ Ask(k, "refused")
    <2>1. UNCHANGED <<link, queues, server, request, htmxPending>>
      BY <1>1, <1>2 DEF stream, source, server
    <2> QED BY <1>2, <2>1, AskStep
  <1>3. CASE /\ rows[k].path \in Jobs /\ job[rows[k].path] \in {"completed", "failed"}
             /\ job' = [job EXCEPT ![rows[k].path] = "deleted"] /\ Ask(k, "deleted")
    <2>1. PICK j \in Jobs : j = rows[k].path
      BY <1>3
    <2>2. job \in [Jobs -> Statuses \cup {"absent", "deleted"}]
      BY DEF DashInv, ServerInv
    <2>3. /\ job' \in [Jobs -> Statuses \cup {"absent", "deleted"}]
          /\ job'[j] = "deleted" /\ \A i \in Jobs : i # j => job'[i] = job[i]
      BY <1>3, <2>1, <2>2
    <2>4. job[j] # "absent"
      BY <1>3, <2>1
    <2>5. Gone' = Gone \cup {j} /\ Plain' = Plain /\ Created' = Created
      BY <1>1, <2>3 DEF Gone, Plain, Created
    <2>6. ServerInv'
      <3>1. \A i \in Jobs : toPublish[i] # "none" => job'[i] \in {toPublish[i], "deleted"}
        BY <2>3 DEF DashInv, ServerInv
      <3>2. told \subseteq Jobs /\ \A i \in told : job'[i] \in {"completed", "failed", "deleted"}
        BY <2>3 DEF DashInv, ServerInv
      <3>3. \A i \in Jobs : job'[i] = "absent" <=> born[i] = 0
        BY <2>3, <2>4 DEF DashInv, ServerInv
      <3> QED BY <1>1, <2>3, <2>5, <3>1, <3>2, <3>3 DEF DashInv, ServerInv
    <2>7. /\ FormInv' /\ StreamInv' /\ QueueInv' /\ conn' = conn /\ statusQ' = statusQ
          /\ form' = form
      BY <1>1 DEF DashInv, FormInv, StreamInv, QueueInv, request, stream, source, queues, link
    <2>8. rows' = [rows EXCEPT ![k].ask = "deleted"]
      BY <1>3 DEF Ask
    <2>9. Clean(rows, Gone, Plain) /\ (form = "idle" => Tidy(rows))
      BY DEF DashInv, RowsInv
    <2>10. Clean(rows, Gone', Plain) /\ rows[k].path \in Gone'
      BY <2>1, <2>5, <2>9, CleanMore
    <2>11. /\ Clean(rows', Gone', Plain) /\ (Tidy(rows) => Tidy(rows'))
           /\ Stay(rows, rows', Jobs \cup {Opt})
      BY <2>8, <2>10, AskKeeps, PlainAreJobs
    <2>12. Clean(rows', Gone', Plain') /\ Stay(rows, rows', Plain \ Gone')
      BY <2>5, <2>11, StayLess, PlainAreJobs
    <2>13. RowsInv'
      BY <2>7, <2>9, <2>11, <2>12 DEF RowsInv
    <2>14. NoNewEnds
      BY <1>1, <2>3 DEF NoNewEnds, DashInv, ServerInv
    <2> QED BY <1>1, <2>5, <2>6, <2>7, <2>12, <2>13, <2>14, Frame
  <1> QED BY <1>2, <1>3 DEF ServerDeletes

\* The row that is taken out is a gone job's, or one that was optimistic.
LEMMA DeleteLoadsStep ==
  ASSUME DashInv, NEW k \in DOMAIN rows, DeleteLoads(k)
  PROVE  DashInv'
  <1> DEFINE S == DOMAIN rows \ {k}
             mid == RowsAt(rows, S)
  <1>1. /\ rows' = Dedupe(mid) /\ rows[k].ask = "deleted"
        /\ UNCHANGED <<stream, server, request, htmxPending>>
    BY DEF DeleteLoads, EnableAfterDelete, request
  <1>2. /\ ServerInv' /\ Gone' = Gone /\ Plain' = Plain
        /\ NoNewEnds
    BY <1>1, ServerSame DEF DashInv
  <1>3. FormInv' /\ StreamInv' /\ QueueInv' /\ conn' = conn /\ statusQ' = statusQ
    BY <1>1 DEF DashInv, FormInv, StreamInv, QueueInv, request, server, stream, source, queues, link
  <1>4. Clean(rows, Gone, Plain)
    BY DEF DashInv, RowsInv
  <1>5. S \in SUBSET DOMAIN rows
    OBVIOUS
  <1>6. /\ Clean(mid, Gone, Plain)
        /\ \A i \in S : \E n \in DOMAIN mid : mid[n] = rows[i]
    <2> HIDE DEF S
    <2> QED BY <1>4, <1>5, RowsAtKeeps
  <1>7. rows[k].id \in Plain => rows[k].id \in Gone
    BY <1>1, <1>4 DEF Clean, RowOK
  <1>8. \A i \in DOMAIN rows : rows[i].id \in Plain \ Gone => i \in S
    BY <1>7
  <1> HIDE DEF S, mid
  <1>9. Stay(rows, mid, Plain \ Gone)
    BY <1>6, <1>8 DEF Stay
  <1>10. /\ Clean(rows', Gone, Plain) /\ Tidy(rows') /\ Stay(mid, rows', Plain)
    BY <1>1, <1>6, DedupeKeeps, PlainAreJobs
  <1>11. Stay(mid, rows', Plain \ Gone)
    BY <1>10, StayLess
  <1>12. Clean(rows', Gone', Plain') /\ Stay(rows, rows', Plain \ Gone')
    BY <1>2, <1>9, <1>10, <1>11, StayTrans
  <1>13. RowsInv'
    BY <1>10, <1>12 DEF RowsInv
  <1> QED BY <1>1, <1>2, <1>3, <1>12, <1>13, Frame

LEMMA DeleteRefusedStep ==
  ASSUME DashInv, NEW k \in DOMAIN rows, DeleteRefused(k)
  PROVE  DashInv'
  <1> DEFINE mid == [rows EXCEPT ![k].ask = "no"]
  <1>1. /\ rows' = Dedupe(mid) /\ htmxPending' = htmxPending \cup {rows[k].id}
        /\ UNCHANGED <<stream, server, request>>
    BY DEF DeleteRefused, EnableAfterDelete, request
  <1>2. /\ ServerInv' /\ Gone' = Gone /\ Plain' = Plain
        /\ NoNewEnds
    BY <1>1, ServerSame DEF DashInv
  <1>3. StreamInv' /\ QueueInv' /\ conn' = conn /\ statusQ' = statusQ
    BY <1>1 DEF DashInv, StreamInv, QueueInv, stream, source, queues, link
  <1>4. Clean(rows, Gone, Plain)
    BY DEF DashInv, RowsInv
  <1>5. rows[k].id \in Jobs \cup {Opt}
    BY <1>4 DEF Clean, RowOK, RowShape
  <1>6. FormInv'
    BY <1>1, <1>5 DEF DashInv, FormInv, request, server
  <1>7. Clean(mid, Gone, Plain) /\ Stay(rows, mid, Jobs \cup {Opt})
    BY <1>4, AskKeeps, PlainAreJobs
  <1> HIDE DEF mid
  <1>8. /\ Clean(rows', Gone, Plain) /\ Tidy(rows') /\ Stay(mid, rows', Plain)
    BY <1>1, <1>7, DedupeKeeps, PlainAreJobs
  <1>9. Stay(rows, rows', Plain)
    <2>1. Stay(rows, mid, Plain)
      BY <1>7, StayLess, PlainAreJobs
    <2> QED BY <1>8, <2>1, StayTrans
  <1>10. Clean(rows', Gone', Plain') /\ Stay(rows, rows', Plain \ Gone')
    BY <1>2, <1>8, <1>9, StayLess
  <1>11. RowsInv'
    BY <1>8, <1>10 DEF RowsInv
  <1>12. rows[k].id \in Plain => HasRow(rows', rows[k].id)
    <2>1. HasRow(rows, rows[k].id)
      BY DEF HasRow, Positions
    <2> QED BY <1>9, <2>1, StayHas
  <1>13. \A j \in Plain \cap htmxPending' : j \in htmxPending \/ HasRow(rows', j)
    BY <1>1, <1>12
  <1> QED BY <1>1, <1>2, <1>3, <1>6, <1>10, <1>11, <1>13, Frame
----------------------------------------------------------------------------
(* The create form and the timers                                          *)

Made(r, id, url, s, key) == r = Row(id, url, s, key, id)
ShownUrls == Urls \cup {""}

LEMMA RowIs ==
  ASSUME NEW gone, NEW plain, NEW id \in Jobs \cup {Opt}, NEW url \in ShownUrls,
         NEW s \in Statuses, NEW key \in Nat, id = Opt => url \in FormUrls,
         NEW r, Made(r, id, url, s, key)
  PROVE  RowOK(r, gone, plain) /\ r.id = id /\ r.status = s /\ r.ask = "no"
  <1>1. /\ r.id = id /\ r.url = url /\ r.status = s /\ r.key = key /\ r.path = id
        /\ r.save = (s = "completed") /\ r.bar = FALSE /\ r.ask = "no"
    BY DEF Row, Made
  <1>2. r \in RowShape
    BY DEF Row, RowShape, Made, ShownUrls
  <1>3. RowOK(r, gone, plain)
    BY <1>1, <1>2 DEF RowOK
  <1> QED BY <1>1, <1>3

\* The form's steps that leave the rows alone.
LEMMA QuietFormStep ==
  ASSUME DashInv, FormInv', UNCHANGED <<link, queues, server>>, rows' = rows,
         form' = "idle" => form = "idle", htmxPending' \subseteq htmxPending
  PROVE  DashInv'
  <1>1. /\ ServerInv' /\ Gone' = Gone /\ Plain' = Plain
        /\ NoNewEnds
    BY ServerSame DEF DashInv
  <1>2. StreamInv' /\ QueueInv' /\ conn' = conn /\ statusQ' = statusQ
    BY DEF DashInv, StreamInv, QueueInv, queues, link
  <1>3. RowsInv' /\ Stay(rows, rows', Plain \ Gone')
    BY <1>1, RowsSame
  <1> QED BY <1>1, <1>2, <1>3, Frame

LEMMA QuietFormSteps ==
  ASSUME DashInv,
         Rejects \/ CreateLost \/ ReplaceExpires \/ \E id \in htmxPending : PendingExpires(id)
  PROVE  DashInv'
  <1>1. /\ UNCHANGED <<link, queues, server>> /\ rows' = rows /\ urlOf' = urlOf
        /\ form' = "idle" => form = "idle"
        /\ htmxPending' \subseteq htmxPending
    BY DEF Rejects, CreateLost, ReplaceExpires, PendingExpires, stream, source, request, server
  <1>2. FormInv'
    <2>1. CASE Rejects
      BY <2>1 DEF Rejects, server, DashInv, FormInv
    <2>2. CASE CreateLost
      BY <2>2 DEF CreateLost, EnableAfterForm, server, DashInv, FormInv
    <2>3. CASE ReplaceExpires
      <3>1. replace' \in 0..MaxListeners
        BY <2>3, DashboardAssumption DEF ReplaceExpires, DashInv, FormInv
      <3> QED BY <2>3, <3>1 DEF ReplaceExpires, server, DashInv, FormInv
    <2>4. CASE \E id \in htmxPending : PendingExpires(id)
      BY <1>1, <2>4 DEF PendingExpires, request, server, DashInv, FormInv
    <2> QED BY <2>1, <2>2, <2>3, <2>4
  <1> QED BY <1>1, <1>2, QuietFormStep

LEMMA SubmitStep ==
  ASSUME DashInv, NEW url \in FormUrls, Submit(url)
  PROVE  DashInv'
  <1>1. /\ form # "sent" /\ replace < MaxListeners /\ form' = "sent" /\ formUrl' = url
        /\ response' = "none" /\ disabled' = TRUE
        /\ UNCHANGED <<link, queues, server, htmxPending>>
    BY DEF Submit
  <1>2. FormInv'
    <2>1. replace' \in 0..MaxListeners
      BY <1>1, DashboardAssumption DEF Submit, DashInv, FormInv
    <2> QED BY <1>1, <2>1 DEF server, DashInv, FormInv
  <1>3. CASE KnowsUrl(rows, url)
    BY <1>1, <1>2, <1>3, QuietFormStep DEF Submit
  <1>4. CASE ~KnowsUrl(rows, url)
    <2> DEFINE mid == RemoveOptimistic(rows)
               row == OptimisticRow(url)
    <2>1. rows' = insertRowSorted(mid, row)
      BY <1>4 DEF Submit
    <2>2. RowOK(row, Gone, Plain) /\ row.id = Opt /\ row.ask = "no"
      <3>0. PICK s \in Statuses : s = "pending"
        BY DEF Statuses
      <3>1. url \in Urls
        BY DashboardAssumption
      <3>2. Made(row, Opt, url, s, Now)
        BY <3>0 DEF OptimisticRow, Made
      <3> HIDE DEF row
      <3>3. Opt \in Jobs \cup {Opt} /\ url \in ShownUrls /\ Now \in Nat
        BY <3>1, NowIs DEF ShownUrls
      <3> QED BY <3>1, <3>2, <3>3, RowIs
    <2>3. Clean(rows, Gone, Plain)
      BY DEF DashInv, RowsInv
    <2>4. Clean(mid, Gone, Plain) /\ ~HasRow(mid, Opt) /\ Stay(rows, mid, Jobs)
      BY <2>3, RemoveOptimisticKeeps, PlainAreJobs
    <2> HIDE DEF mid, row
    <2>5. Inserted(rows', mid, row)
      <3>1. mid \in Seq(RowShape) /\ row \in RowShape
        BY <2>2, <2>4 DEF Clean, RowOK
      <3> QED BY <2>1, <3>1, InsertIs
    <2>6. Clean(rows', Gone, Plain) /\ Stay(mid, rows', Jobs \cup {Opt})
      BY <2>2, <2>4, <2>5, InsertKeeps
    <2>7. Stay(rows, rows', Jobs)
      <3>1. Stay(mid, rows', Jobs)
        BY <2>6, StayLess
      <3> QED BY <2>4, <3>1, StayTrans
    <2>8. /\ ServerInv' /\ Gone' = Gone /\ Plain' = Plain
          /\ NoNewEnds
      BY <1>1, ServerSame DEF DashInv
    <2>9. StreamInv' /\ QueueInv' /\ conn' = conn /\ statusQ' = statusQ
      BY <1>1 DEF DashInv, StreamInv, QueueInv, queues, link
    <2>10. RowsInv' /\ Stay(rows, rows', Plain \ Gone')
      <3>1. Clean(rows', Gone', Plain')
        BY <2>6, <2>8
      <3>2. Stay(rows, rows', Plain \ Gone')
        BY <2>7, StayLess, PlainAreJobs
      <3> QED BY <1>1, <3>1, <3>2 DEF RowsInv
    <2> QED BY <1>1, <1>2, <2>8, <2>9, <2>10, Frame
  <1> QED BY <1>3, <1>4

\* The row the answer brings is that of a job with a URL of the form.
LEMMA CreateLoadsStep ==
  ASSUME DashInv, CreateLoads
  PROVE  DashInv'
  <1>1. /\ form = "sent" /\ response # "none" /\ form' = "idle" /\ response' = "none"
        /\ disabled' = FALSE
        /\ UNCHANGED <<source, queues, server, formUrl, replace, htmxPending>>
    BY DEF CreateLoads, EnableAfterForm
  <1>2. FormInv'
    BY <1>1 DEF server, DashInv, FormInv
  <1>3. /\ ServerInv' /\ Gone' = Gone /\ Plain' = Plain
        /\ NoNewEnds
    BY <1>1, ServerSame DEF DashInv
  <1>4. StreamInv' /\ QueueInv' /\ conn' = conn /\ statusQ' = statusQ
    BY <1>1 DEF DashInv, StreamInv, QueueInv, queues, source, link
  <1>5. Clean(rows, Gone, Plain)
    BY DEF DashInv, RowsInv
  <1>6. \E mid : /\ rows' = Dedupe(mid) /\ Clean(mid, Gone, Plain)
                 /\ Stay(rows, mid, Plain)
    <2>1. CASE response = "error"
      <3>1. rows' = Dedupe(rows)
        BY <2>1 DEF CreateLoads
      <3> QED BY <1>5, <3>1, StaySame
    <2>2. CASE response # "error"
      <3> DEFINE row == ServerRow(response, "pending")
                 mid == <<row>> \o rows
      <3>1. rows' = Dedupe(mid)
        BY <2>2 DEF CreateLoads
      <3>2. response \in Jobs /\ urlOf[response] \in FormUrls
        BY <1>1, <2>2 DEF DashInv, FormInv
      <3>3. urlOf[response] \in Urls /\ response \notin Plain \cup {Opt}
        BY <3>2, DashboardAssumption DEF DashInv, ServerInv, Plain
      <3>4. RowOK(row, Gone, Plain) /\ row.id = response /\ row.ask = "no"
        <4>1. PICK s \in Statuses, zero \in Nat : s = "pending" /\ zero = 0
          BY DEF Statuses
        <4>2. Made(row, response, urlOf[response], s, zero)
          BY <4>1 DEF ServerRow, Made
        <4> HIDE DEF row
        <4>3. /\ response \in Jobs \cup {Opt} /\ urlOf[response] \in ShownUrls
              /\ response # Opt
          BY <3>2, <3>3 DEF ShownUrls
        <4> QED BY <4>1, <4>2, <4>3, RowIs
      <3>5. rows \in Seq(RowShape) /\ row \in RowShape
        BY <1>5, <3>4 DEF Clean, RowOK
      <3> HIDE DEF row
      <3>6. Inserted(mid, rows, row)
        BY <3>5, PrependIs
      <3> HIDE DEF mid
      <3>7. Clean(mid, Gone, Plain) /\ Stay(rows, mid, Jobs \cup {Opt})
        BY <1>5, <3>3, <3>4, <3>6, InsertKeeps
      <3> QED BY <3>1, <3>7, StayLess, PlainAreJobs
    <2> QED BY <2>1, <2>2
  <1>7. PICK mid : /\ rows' = Dedupe(mid) /\ Clean(mid, Gone, Plain)
                   /\ Stay(rows, mid, Plain)
    BY <1>6
  <1>8. Clean(rows', Gone, Plain) /\ Tidy(rows') /\ Stay(mid, rows', Plain)
    BY <1>7, DedupeKeeps, PlainAreJobs
  <1>9. Stay(rows, rows', Plain)
    BY <1>7, <1>8, StayTrans
  <1>10. Clean(rows', Gone', Plain') /\ Stay(rows, rows', Plain \ Gone')
    BY <1>3, <1>8, <1>9, StayLess
  <1>11. RowsInv'
    BY <1>8, <1>10 DEF RowsInv
  <1> QED BY <1>1, <1>2, <1>3, <1>4, <1>10, <1>11, Frame
----------------------------------------------------------------------------
(* Events                                                                  *)

LEMMA TailIs ==
  ASSUME NEW S, NEW q \in Seq(S), q # <<>>
  PROVE  /\ Len(q) \in Nat /\ Len(q) >= 1 /\ DOMAIN q = 1..Len(q)
         /\ Head(q) = q[1] /\ q[1] \in S
         /\ Tail(q) \in Seq(S) /\ DOMAIN Tail(q) = 1..(Len(q) - 1)
         /\ \A i \in 1..(Len(q) - 1) : Tail(q)[i] = q[i + 1]
  OBVIOUS

LEMMA UpdatedRow ==
  ASSUME NEW gone, NEW plain, NEW r, RowOK(r, gone, plain), NEW s \in Statuses,
         NEW new, new = updateDownloadRow(r, s)
  PROVE  /\ RowOK(new, gone, plain) /\ new.id = r.id /\ new.status = s
         /\ new.ask = r.ask /\ new.path = r.path /\ new.url = r.url
         /\ new.save <=> s = "completed"
  <1>1. r \in RowShape
    BY DEF RowOK
  <1>2. /\ new.id = r.id /\ new.status = s /\ new.ask = r.ask /\ new.path = r.path
        /\ new.url = r.url /\ new.save = (s = "completed")
    BY <1>1 DEF updateDownloadRow, RowShape
  <1>3. new \in RowShape
    BY <1>1 DEF updateDownloadRow, RowShape
  <1>4. RowOK(new, gone, plain)
    BY <1>2, <1>3 DEF RowOK
  <1> QED BY <1>2, <1>4

\* After an event for a plain job it is gone or has a row with that status.
LEMMA HandledKeeps ==
  ASSUME DashInv, NEW j \in Jobs, NEW s \in Statuses,
         NEW h, h = HandleJobUpdate(j, s)
  PROVE  /\ Clean(h, Gone, Plain) /\ Stay(rows, h, (Jobs \cup {Opt}) \ {j})
         /\ Tidy(rows) => Tidy(h)
         /\ HasRow(rows, j) => HasRow(h, j)
         /\ j \in Plain => \/ j \in Gone
                           \/ \E n \in DOMAIN h : h[n].id = j /\ h[n].status = s
  <1>1. Clean(rows, Gone, Plain) /\ rows \in Seq(RowShape)
    BY DEF DashInv, RowsInv, Clean
  <1>2. j # Opt
    BY DashboardAssumption
  <1>3. CASE HasRow(rows, j)
    <2> DEFINE k == RowAt(rows, j)
               r == updateDownloadRow(rows[k], s)
    <2>1. h = [rows EXCEPT ![k] = r]
      BY <1>3 DEF HandleJobUpdate
    <2>2. k \in DOMAIN rows /\ rows[k].id = j
      BY <1>1, <1>3, RowAtIs
    <2> HIDE DEF k
    <2>3. RowOK(rows[k], Gone, Plain)
      BY <1>1, <2>2 DEF Clean
    <2>4. RowOK(r, Gone, Plain) /\ r.id = rows[k].id /\ r.status = s /\ r.ask = rows[k].ask
      BY <2>3, UpdatedRow
    <2> HIDE DEF r
    <2>5. /\ Clean(h, Gone, Plain) /\ (Tidy(rows) => Tidy(h))
          /\ \A ids : rows[k].id \notin ids => Stay(rows, h, ids)
          /\ \A id : HasRow(rows, id) => HasRow(h, id)
      <3>1. /\ r.ask = "asked" => rows[k].ask = "asked" \/ \A m \in DOMAIN rows : rows[m].ask # "asked"
            /\ r.id = rows[k].id \/ r.id \notin Plain \cup {Opt}
        BY <2>4
      <3>2. /\ Clean([rows EXCEPT ![k] = r], Gone, Plain)
            /\ \A ids : rows[k].id \notin ids => Stay(rows, [rows EXCEPT ![k] = r], ids)
            /\ Tidy(rows) => Tidy([rows EXCEPT ![k] = r])
            /\ \A id : HasRow(rows, id) => HasRow([rows EXCEPT ![k] = r], id)
        BY <1>1, <2>2, <2>4, <3>1, EditKeeps
      <3> QED BY <2>1, <3>2
    <2>6. Stay(rows, h, (Jobs \cup {Opt}) \ {j})
      BY <2>2, <2>5
    <2>7. k \in DOMAIN h /\ h[k] = r
      BY <2>1, <2>2
    <2> QED BY <2>2, <2>4, <2>5, <2>6, <2>7
  <1>4. CASE ~HasRow(rows, j) /\ (j \in htmxPending \/ KnowsUrl(rows, urlOf[j]))
    <2>1. h = rows
      BY <1>4 DEF HandleJobUpdate
    <2>2. ASSUME j \in Plain PROVE j \in Gone
      <3>1. ~KnowsUrl(rows, urlOf[j])
        <4> SUFFICES ASSUME KnowsUrl(rows, urlOf[j]) PROVE FALSE
          OBVIOUS
        <4>1. HasRow(rows, Opt) /\ rows[RowAt(rows, Opt)].url = urlOf[j]
          BY DEF KnowsUrl
        <4>2. RowAt(rows, Opt) \in DOMAIN rows /\ rows[RowAt(rows, Opt)].id = Opt
          BY <1>1, <4>1, RowAtIs
        <4>3. urlOf[j] \in FormUrls
          BY <1>1, <4>1, <4>2 DEF Clean, RowOK
        <4> QED BY <2>2, <4>3 DEF Plain
      <3> QED BY <1>4, <2>2, <3>1 DEF DashInv, PendingInv
    <2> QED BY <1>1, <2>1, <2>2, StaySame
  <1>5. CASE ~HasRow(rows, j) /\ ~(j \in htmxPending \/ KnowsUrl(rows, urlOf[j]))
    <2> DEFINE row == NewRow(j, s, born[j])
    <2>1. h = insertRowSorted(rows, row)
      BY <1>5 DEF HandleJobUpdate
    <2>2. Made(row, j, urlOf[j], s, born[j])
      BY DEF NewRow, Made
    <2> HIDE DEF row
    <2>3. urlOf[j] \in ShownUrls /\ born[j] \in Nat /\ j \in Jobs \cup {Opt}
      BY DEF DashInv, ServerInv, ShownUrls
    <2>4. RowOK(row, Gone, Plain) /\ row.id = j /\ row.status = s /\ row.ask = "no"
      BY <1>2, <2>2, <2>3, RowIs
    <2>5. row \in RowShape
      BY <2>4 DEF RowOK
    <2>6. Inserted(h, rows, row)
      BY <1>1, <2>1, <2>5, InsertIs
    <2>7. /\ Clean(h, Gone, Plain) /\ Stay(rows, h, Jobs \cup {Opt})
          /\ \E n \in DOMAIN h : h[n] = row
          /\ Tidy(rows) => Tidy(h)
      <3>1. row.ask # "asked" /\ row.id # Opt /\ ~HasRow(rows, row.id)
        BY <1>2, <1>5, <2>4
      <3>2. Clean(h, Gone, Plain) /\ Stay(rows, h, Jobs \cup {Opt})
        BY <1>1, <2>4, <2>6, <3>1, InsertKeeps
      <3>3. \E n \in DOMAIN h : h[n] = row
        BY <1>1, <2>4, <2>6, <3>1, InsertKeeps
      <3>4. ASSUME Tidy(rows) PROVE Tidy(h)
        BY <1>1, <2>4, <2>6, <3>1, <3>4, InsertKeeps
      <3> QED BY <3>2, <3>3, <3>4
    <2>8. Stay(rows, h, (Jobs \cup {Opt}) \ {j})
      BY <2>7, StayLess
    <2> QED BY <1>5, <2>4, <2>7, <2>8
  <1> QED BY <1>3, <1>4, <1>5

\* Only a job with a URL of the form takes over an optimistic row.
LEMMA ConvertKeeps ==
  ASSUME NEW h, Clean(h, Gone, Plain), NEW j \in Jobs, NEW s \in Statuses, Replaces(h, j),
         NEW new, new = Convert(h, j, s)
  PROVE  /\ Clean(new, Gone, Plain) /\ Stay(h, new, Jobs)
         /\ j \notin Plain /\ ~Tidy(h)
  <1> DEFINE k == RowAt(h, Opt)
             u == updateDownloadRow(h[k], s)
             r == [u EXCEPT !.id = j]
  <1>1. HasRow(h, Opt) /\ h[k].url = urlOf[j] /\ h \in Seq(RowShape) /\ Opt \notin Jobs
    BY DashboardAssumption DEF Replaces, KnowsUrl, Clean
  <1>2. k \in DOMAIN h /\ h[k].id = Opt
    BY <1>1, RowAtIs
  <1>3. new = [h EXCEPT ![k] = r]
    BY DEF Convert
  <1> HIDE DEF k
  <1>4. RowOK(h[k], Gone, Plain)
    BY <1>2 DEF Clean
  <1>5. j \notin Plain
    BY <1>1, <1>2, <1>4 DEF RowOK, Plain
  <1>6. RowOK(u, Gone, Plain) /\ u.ask = h[k].ask
    BY <1>4, UpdatedRow
  <1> HIDE DEF u
  <1>7. u \in RowShape
    BY <1>6 DEF RowOK
  <1>8. /\ r \in RowShape /\ r.id = j /\ r.ask = u.ask /\ r.path = u.path
        /\ r.save = u.save /\ r.status = u.status
    BY <1>7 DEF RowShape
  <1> HIDE DEF r
  <1>9. RowOK(r, Gone, Plain)
    BY <1>1, <1>5, <1>6, <1>8 DEF RowOK
  <1>10. /\ Clean(new, Gone, Plain)
         /\ \A ids : h[k].id \notin ids => Stay(h, new, ids)
    <2>1. /\ r.ask = "asked" => h[k].ask = "asked" \/ \A m \in DOMAIN h : h[m].ask # "asked"
          /\ r.id = h[k].id \/ r.id \notin Plain \cup {Opt}
      BY <1>1, <1>5, <1>6, <1>8
    <2>2. /\ Clean([h EXCEPT ![k] = r], Gone, Plain)
          /\ \A ids : h[k].id \notin ids => Stay(h, [h EXCEPT ![k] = r], ids)
      BY <1>2, <1>9, <2>1, EditKeeps
    <2> QED BY <1>3, <2>2
  <1> QED BY <1>1, <1>2, <1>5, <1>10 DEF Tidy

LEMMA JobUpdateStep ==
  ASSUME DashInv, JobUpdate
  PROVE  DashInv'
  <1>1. /\ statusQ \in Seq(EventShape) /\ statusQ # <<>> /\ statusQ' = Tail(statusQ)
        /\ UNCHANGED <<source, progressQ, server, form, formUrl, response, disabled, htmxPending>>
    BY DEF JobUpdate, DashInv, QueueInv
  <1>2. /\ Len(statusQ) \in Nat /\ Len(statusQ) >= 1 /\ DOMAIN statusQ = 1..Len(statusQ)
        /\ Head(statusQ) = statusQ[1] /\ statusQ[1] \in EventShape
        /\ Tail(statusQ) \in Seq(EventShape) /\ DOMAIN Tail(statusQ) = 1..(Len(statusQ) - 1)
        /\ \A i \in 1..(Len(statusQ) - 1) : Tail(statusQ)[i] = statusQ[i + 1]
    BY <1>1, TailIs
  <1>3. PICK j \in Jobs, s \in Statuses : j = Head(statusQ).id /\ s = Head(statusQ).status
    BY <1>2 DEF EventShape
  <1>4. PICK h : h = HandleJobUpdate(j, s)
    OBVIOUS
  <1>5. \/ Replaces(h, j) /\ rows' = Convert(h, j, s) /\ replace' = replace - 1
        \/ ~Replaces(h, j) /\ rows' = h /\ replace' = replace
    BY <1>3, <1>4 DEF JobUpdate
  <1>6. /\ Clean(h, Gone, Plain) /\ Stay(rows, h, (Jobs \cup {Opt}) \ {j})
        /\ Tidy(rows) => Tidy(h)
        /\ HasRow(rows, j) => HasRow(h, j)
        /\ j \in Plain => \/ j \in Gone
                          \/ \E n \in DOMAIN h : h[n].id = j /\ h[n].status = s
    BY <1>4, HandledKeeps
  <1>7. /\ Clean(rows', Gone, Plain) /\ Stay(h, rows', Jobs)
        /\ j \in Plain => rows' = h
        /\ Tidy(h) => rows' = h
        /\ replace' \in 0..MaxListeners
    <2>1. CASE Replaces(h, j) /\ rows' = Convert(h, j, s) /\ replace' = replace - 1
      <3>1. /\ Clean(rows', Gone, Plain) /\ Stay(h, rows', Jobs)
            /\ j \notin Plain /\ ~Tidy(h)
        BY <1>6, <2>1, ConvertKeeps
      <3>2. replace' \in 0..MaxListeners
        BY <2>1, DashboardAssumption DEF Replaces, DashInv, FormInv
      <3> QED BY <3>1, <3>2
    <2>2. CASE ~Replaces(h, j) /\ rows' = h /\ replace' = replace
      BY <1>6, <2>2, StaySame DEF DashInv, FormInv
    <2> QED BY <1>5, <2>1, <2>2
  <1>8. ServerInv' /\ Gone' = Gone /\ Plain' = Plain /\ job' = job /\ told' = told
    BY <1>1, ServerSame DEF DashInv, server
  <1>9. StreamInv' /\ QueueInv' /\ conn' = conn /\ FormInv'
    BY <1>1, <1>2, <1>7 DEF DashInv, StreamInv, QueueInv, FormInv, server, source, link
  <1>10. RowsInv'
    <2>1. Clean(rows', Gone', Plain')
      BY <1>7, <1>8
    <2>2. form' = "idle" => Tidy(rows')
      BY <1>1, <1>6, <1>7 DEF DashInv, RowsInv
    <2> QED BY <2>1, <2>2 DEF RowsInv
  <1>11. Stay(rows, rows', Jobs \ {j})
    <2>1. Stay(rows, h, Jobs \ {j}) /\ Stay(h, rows', Jobs \ {j})
      BY <1>6, <1>7, StayLess
    <2> QED BY <2>1, StayTrans
  <1>12. PendingInv'
    <2> SUFFICES ASSUME NEW i \in Plain, i \in htmxPending
                 PROVE  HasRow(rows', i) \/ i \in Gone
      BY <1>1, <1>8 DEF PendingInv
    <2>1. HasRow(rows, i) \/ i \in Gone
      BY DEF DashInv, PendingInv
    <2>2. ASSUME HasRow(rows, i) PROVE HasRow(rows', i)
      <3>1. CASE i = j
        BY <1>6, <1>7, <2>2, <3>1
      <3>2. CASE i # j
        <4>1. i \in Jobs \ {j}
          BY <3>2, PlainAreJobs
        <4> QED BY <1>11, <2>2, <4>1, StayHas
      <3> QED BY <3>1, <3>2
    <2> QED BY <2>1, <2>2
  <1>13. EndsInv'
    <2> SUFFICES ASSUME conn = "open", NEW i \in Plain, i \in told,
                        job[i] \in {"completed", "failed"}
                 PROVE  EndKnown(i)'
      BY <1>8, <1>9 DEF EndsInv
    <2>1. EndKnown(i) /\ i \in Jobs /\ i \notin Gone
      BY DEF DashInv, EndsInv, Plain, Gone
    <2>2. /\ DOMAIN statusQ' = 1..(Len(statusQ) - 1)
          /\ \A n \in DOMAIN statusQ' : n + 1 \in DOMAIN statusQ /\ statusQ'[n] = statusQ[n + 1]
          /\ \A n \in DOMAIN statusQ : n # 1 => n - 1 \in DOMAIN statusQ' /\ statusQ'[n - 1] = statusQ[n]
      BY <1>1, <1>2
    <2>3. \A n \in DOMAIN statusQ' : n \in Int
      BY <2>2
    <2>4. 1 \in DOMAIN statusQ /\ \A n \in DOMAIN statusQ : n \in Int /\ n >= 1
      BY <1>2
    <2>5. statusQ[1].id = j /\ statusQ[1].status = s
      BY <1>2, <1>3
    <2>6. CASE \A n \in DOMAIN statusQ : statusQ[n].id # i
      <3>1. i # j /\ i \in Jobs \ {j}
        BY <2>1, <2>4, <2>5, <2>6
      <3>2. PICK k \in DOMAIN rows : rows[k].id = i /\ rows[k].status = job[i]
        BY <2>1, <2>6 DEF EndKnown
      <3>3. \E n \in DOMAIN rows' : rows'[n].id = i /\ rows'[n].status = job[i]
        BY <1>11, <3>1, <3>2 DEF Stay
      <3>4. \A n \in DOMAIN statusQ' : statusQ'[n].id # i
        BY <2>2, <2>6
      <3> QED BY <1>8, <3>3, <3>4 DEF EndKnown
    <2>7. CASE \E n \in DOMAIN statusQ :
                 /\ statusQ[n] = [id |-> i, status |-> job[i]]
                 /\ \A m \in DOMAIN statusQ : m > n => statusQ[m].id # i
      <3>1. PICK n \in DOMAIN statusQ :
                 /\ statusQ[n] = [id |-> i, status |-> job[i]]
                 /\ \A m \in DOMAIN statusQ : m > n => statusQ[m].id # i
        BY <2>7
      <3>2. CASE n = 1
        <4>1. i = j /\ job[i] = s
          BY <2>5, <3>1, <3>2
        <4>2. \E m \in DOMAIN rows' : rows'[m].id = i /\ rows'[m].status = job[i]
          BY <1>6, <1>7, <2>1, <4>1
        <4>3. \A m \in DOMAIN statusQ' : statusQ'[m].id # i
          <5>1. TAKE m \in DOMAIN statusQ'
          <5>2. m + 1 \in DOMAIN statusQ /\ m + 1 > n /\ statusQ'[m] = statusQ[m + 1]
            BY <1>2, <2>2, <3>2
          <5> QED BY <3>1, <5>2
        <4> QED BY <1>8, <4>2, <4>3 DEF EndKnown
      <3>3. CASE n # 1
        <4>1. n - 1 \in DOMAIN statusQ' /\ statusQ'[n - 1] = [id |-> i, status |-> job[i]]
          BY <2>2, <3>1, <3>3
        <4>2. \A m \in DOMAIN statusQ' : m > n - 1 => statusQ'[m].id # i
          <5> SUFFICES ASSUME NEW m \in DOMAIN statusQ', m > n - 1
                       PROVE  statusQ'[m].id # i
            OBVIOUS
          <5>1. m + 1 \in DOMAIN statusQ /\ statusQ'[m] = statusQ[m + 1]
            BY <2>2
          <5>2. m + 1 > n
            BY <2>3, <2>4
          <5> QED BY <3>1, <5>1, <5>2
        <4> QED BY <1>8, <4>1, <4>2 DEF EndKnown
      <3> QED BY <3>2, <3>3
    <2> QED BY <2>1, <2>6, <2>7 DEF EndKnown
  <1> QED BY <1>8, <1>9, <1>10, <1>12, <1>13 DEF DashInv

LEMMA ProgressUpdateStep ==
  ASSUME DashInv, ProgressUpdate
  PROVE  DashInv'
  <1>1. /\ progressQ \in Seq(Jobs) /\ progressQ # <<>> /\ progressQ' = Tail(progressQ)
        /\ UNCHANGED <<source, statusQ, server, request, htmxPending>>
    BY DEF ProgressUpdate, DashInv, QueueInv
  <1>2. PICK j \in Jobs : j = Head(progressQ)
    BY <1>1, TailIs
  <1> DEFINE row == [NewRow(j, "processing", Now) EXCEPT !.url = ""]
  <1>3. PICK seen : seen = IF HasRow(rows, j) THEN rows ELSE insertRowSorted(rows, row)
    OBVIOUS
  <1>4. rows' = [seen EXCEPT ![RowAt(seen, j)].bar = TRUE]
    BY <1>2, <1>3 DEF ProgressUpdate
  <1>5. Clean(rows, Gone, Plain) /\ rows \in Seq(RowShape) /\ j # Opt
    BY DashboardAssumption DEF DashInv, RowsInv, Clean
  <1>6. PICK s \in Statuses : s = "processing"
    BY DEF Statuses
  <1>7. PICK known : known = NewRow(j, s, Now)
    OBVIOUS
  <1>8. RowOK(row, Gone, Plain) /\ row.id = j /\ row.ask = "no"
    <2>1. Made(known, j, urlOf[j], s, Now) /\ j \in Jobs \cup {Opt} /\ urlOf[j] \in ShownUrls
      BY <1>7 DEF Made, NewRow, DashInv, ServerInv, ShownUrls
    <2>2. RowOK(known, Gone, Plain) /\ known.id = j /\ known.ask = "no"
      <3>1. Now \in Nat /\ j # Opt
        BY <1>5, NowIs
      <3> QED BY <2>1, <3>1, RowIs
    <2>3. row = [known EXCEPT !.url = ""]
      BY <1>6, <1>7
    <2> HIDE DEF row
    <2>4. known \in RowShape
      BY <2>2 DEF RowOK
    <2>5. /\ row \in RowShape /\ row.id = known.id /\ row.status = known.status
          /\ row.save = known.save /\ row.path = known.path /\ row.ask = known.ask
      BY <2>3, <2>4 DEF RowShape
    <2>6. RowOK(row, Gone, Plain)
      BY <1>5, <2>2, <2>5 DEF RowOK
    <2> QED BY <2>2, <2>5, <2>6
  <1> HIDE DEF row
  <1>9. /\ Clean(seen, Gone, Plain) /\ Stay(rows, seen, Jobs \cup {Opt})
        /\ Tidy(rows) => Tidy(seen)
        /\ HasRow(seen, j)
    <2>1. CASE HasRow(rows, j)
      BY <1>3, <1>5, <2>1, StaySame
    <2>2. CASE ~HasRow(rows, j)
      <3>1. row \in RowShape /\ seen = insertRowSorted(rows, row)
        BY <1>3, <1>8, <2>2 DEF RowOK
      <3>2. Inserted(seen, rows, row)
        BY <1>5, <3>1, InsertIs
      <3>3. /\ Clean(seen, Gone, Plain) /\ Stay(rows, seen, Jobs \cup {Opt})
            /\ \E n \in DOMAIN seen : seen[n] = row
            /\ Tidy(rows) => Tidy(seen)
        <4>1. row.ask # "asked" /\ row.id # Opt /\ ~HasRow(rows, row.id)
          BY <1>5, <1>8, <2>2
        <4>2. Clean(seen, Gone, Plain) /\ Stay(rows, seen, Jobs \cup {Opt})
          BY <1>5, <1>8, <3>2, <4>1, InsertKeeps
        <4>3. \E n \in DOMAIN seen : seen[n] = row
          BY <1>5, <1>8, <3>2, <4>1, InsertKeeps
        <4>4. ASSUME Tidy(rows) PROVE Tidy(seen)
          BY <1>5, <1>8, <3>2, <4>1, <4>4, InsertKeeps
        <4> QED BY <4>2, <4>3, <4>4
      <3> QED BY <1>8, <3>3 DEF HasRow, Positions
    <2> QED BY <2>1, <2>2
  <1> DEFINE k == RowAt(seen, j)
             r == [seen[k] EXCEPT !.bar = TRUE]
  <1>10. k \in DOMAIN seen
    BY <1>9, RowAtIs DEF Clean
  <1>11. rows' = [seen EXCEPT ![k] = r]
    BY <1>4
  <1> HIDE DEF k
  <1>12. RowOK(seen[k], Gone, Plain) /\ seen[k] \in RowShape
    BY <1>9, <1>10 DEF Clean, RowOK
  <1>13. /\ r \in RowShape /\ r.id = seen[k].id /\ r.status = seen[k].status
         /\ r.url = seen[k].url /\ r.save = seen[k].save /\ r.path = seen[k].path
         /\ r.ask = seen[k].ask
    BY <1>12 DEF RowShape
  <1> HIDE DEF r
  <1>14. RowOK(r, Gone, Plain)
    BY <1>12, <1>13 DEF RowOK
  <1>15. /\ Clean(rows', Gone, Plain) /\ (Tidy(seen) => Tidy(rows'))
         /\ Stay(seen, rows', Jobs \cup {Opt})
    BY <1>9, <1>10, <1>11, <1>13, <1>14, EditKeeps
  <1>16. /\ ServerInv' /\ Gone' = Gone /\ Plain' = Plain
         /\ NoNewEnds
    BY <1>1, ServerSame DEF DashInv
  <1>17. FormInv' /\ StreamInv' /\ conn' = conn /\ form' = form
    BY <1>1 DEF DashInv, FormInv, StreamInv, request, server, source, link
  <1>18. QueueInv'
    BY <1>1, TailIs DEF DashInv, QueueInv
  <1>19. Stay(rows, rows', Plain \ Gone')
    <2>1. Stay(rows, rows', Jobs \cup {Opt})
      BY <1>9, <1>15, StayTrans
    <2> QED BY <2>1, StayLess, PlainAreJobs
  <1>20. RowsInv'
    <2>1. Clean(rows', Gone', Plain')
      BY <1>15, <1>16
    <2> QED BY <1>9, <1>15, <1>17, <2>1 DEF DashInv, RowsInv
  <1> QED BY <1>1, <1>16, <1>17, <1>18, <1>19, <1>20, Frame
----------------------------------------------------------------------------
(* The inductive invariant holds                                           *)

\* The page as the server renders it: one download at most.
LEMMA DashInit == Init => DashInv
  <1> SUFFICES ASSUME Init PROVE DashInv
    OBVIOUS
  <1>1. PICK shown \in {{}} \cup {{j} : j \in Jobs} :
          /\ job = [j \in Jobs |-> IF j \in shown THEN "pending" ELSE "absent"]
          /\ born = [j \in Jobs |-> IF j \in shown THEN 1 ELSE 0]
          /\ IF shown = {} THEN rows = <<>>
             ELSE \E j \in shown : rows = <<ServerRow(j, "pending")>>
    BY DEF Init
  <1>2. /\ form = "idle" /\ formUrl = "none" /\ response = "none" /\ disabled = FALSE
        /\ replace = 0 /\ htmxPending = {} /\ urlOf \in [Jobs -> Urls]
        /\ conn = "connecting" /\ heard = "none" /\ retryCount = 0 /\ timer = FALSE
        /\ statusQ = <<>> /\ progressQ = <<>>
        /\ toPublish = [j \in Jobs |-> "none"] /\ told = {}
    BY DashboardAssumption DEF Init, InitStream
  <1>3. StreamInv
    <2>1. 0 \in 0..MaxBackoff
      BY StreamAssumption
    <2> QED BY <1>2, <2>1 DEF StreamInv
  <1>4. FormInv
    <2>1. 0 \in 0..MaxListeners
      BY DashboardAssumption
    <2> QED BY <1>2, <2>1 DEF FormInv
  <1>5. QueueInv
    BY <1>2 DEF QueueInv
  <1>6. PendingInv /\ EndsInv
    BY <1>2 DEF PendingInv, EndsInv
  <1>7. /\ shown \in SUBSET Jobs
        /\ \A i, j \in shown : i = j
    OBVIOUS
  <1>8. Created = shown
    BY <1>1, <1>7 DEF Created
  <1>9. \A j \in Jobs : born[j] <= Cardinality(Created)
    <2>1. Cardinality(Created) \in Nat /\ IsFiniteSet(Created)
      BY CreatedFinite
    <2>2. CASE shown = {}
      <3>1. \A j \in Jobs : born[j] = 0
        BY <1>1, <2>2
      <3> QED BY <2>1, <3>1
    <2>3. CASE shown # {}
      <3>1. Cardinality(Created) # 0
        BY <1>8, <2>1, <2>3, FS_EmptySet
      <3>2. \A j \in Jobs : born[j] \in {0, 1}
        BY <1>1
      <3> QED BY <2>1, <3>1, <3>2
    <2> QED BY <2>2, <2>3
  <1>10. ServerInv
    <2>1. born \in [Jobs -> Nat] /\ job \in [Jobs -> Statuses \cup {"absent", "deleted"}]
      BY <1>1 DEF Statuses
    <2>2. \A j \in Jobs : job[j] = "absent" <=> born[j] = 0
      BY <1>1
    <2>3. /\ toPublish \in [Jobs -> Statuses \cup {"none"}]
          /\ \A j \in Jobs : toPublish[j] = "none"
      BY <1>2
    <2> QED BY <1>2, <1>7, <1>8, <1>9, <2>1, <2>2, <2>3 DEF ServerInv
  <1>11. RowsInv
    <2>1. CASE rows = <<>>
      <3>1. rows \in Seq(RowShape) /\ DOMAIN rows = {}
        BY <2>1
      <3> QED BY <3>1 DEF RowsInv, Clean, Tidy, UniqueId, UniqueAsk, HasRow, Positions
    <2>2. CASE \E j \in shown : rows = <<ServerRow(j, "pending")>>
      <3>1. PICK j \in Jobs : rows = <<ServerRow(j, "pending")>>
        BY <1>7, <2>2
      <3>2. PICK s \in Statuses, zero \in Nat : s = "pending" /\ zero = 0
        BY DEF Statuses
      <3> DEFINE row == ServerRow(j, s)
      <3>3. Made(row, j, urlOf[j], s, zero)
        BY <3>2 DEF ServerRow, Made
      <3>4. rows = <<row>>
        BY <3>1, <3>2
      <3> HIDE DEF row
      <3>5. j # Opt /\ urlOf[j] \in ShownUrls /\ j \in Jobs \cup {Opt}
        BY <1>2, DashboardAssumption DEF ShownUrls
      <3>6. RowOK(row, Gone, Plain) /\ row.id = j
        BY <3>3, <3>5, RowIs
      <3>7. row \in RowShape
        BY <3>6 DEF RowOK
      <3>8. rows \in Seq(RowShape) /\ DOMAIN rows = {1} /\ rows[1] = row
        BY <3>4, <3>7
      <3>9. Clean(rows, Gone, Plain)
        BY <3>6, <3>8 DEF Clean, UniqueId, UniqueAsk
      <3>10. Tidy(rows)
        BY <3>5, <3>6, <3>8 DEF Tidy, UniqueId, HasRow, Positions
      <3> QED BY <3>9, <3>10 DEF RowsInv
    <2> QED BY <1>1, <2>1, <2>2
  <1> QED BY <1>3, <1>4, <1>5, <1>6, <1>10, <1>11 DEF DashInv

LEMMA DashStep == DashInv /\ [Next]_vars => DashInv'
  <1> SUFFICES ASSUME DashInv, [Next]_vars PROVE DashInv'
    OBVIOUS
  <1>1. CASE StreamOpens
    BY <1>1, StreamOpensStep
  <1>2. CASE StreamEnds
    BY <1>2, StreamEndsStep
  <1>3. CASE ServerStep
    BY <1>3, CreateStep, ProgressesStep, WorkerStepStep, PublishStep, PublishLostStep
       DEF ServerStep
  <1>4. CASE JobUpdate
    BY <1>4, JobUpdateStep
  <1>5. CASE ProgressUpdate
    BY <1>5, ProgressUpdateStep
  <1>6. CASE UserStep
    BY <1>6, SubmitStep, ClickSteps DEF UserStep
  <1>7. CASE AnswerStep
    BY <1>7, QuietFormSteps, CreateLoadsStep, ServerDeletesStep, DeleteLoadsStep,
       DeleteRefusedStep, ClickSteps DEF AnswerStep
  <1>8. CASE TimerStep
    BY <1>8, QuietFormSteps DEF TimerStep
  <1>9. CASE UNCHANGED vars
    <2>1. /\ UNCHANGED <<link, queues, server>> /\ rows' = rows /\ form' = form
          /\ htmxPending' = htmxPending
      BY <1>9 DEF vars, stream, source, dash, request
    <2>2. FormInv'
      BY <1>9 DEF vars, dash, request, server, DashInv, FormInv
    <2> QED BY <2>1, <2>2, QuietFormStep
  <1> QED BY <1>1, <1>2, <1>3, <1>4, <1>5, <1>6, <1>7, <1>8, <1>9 DEF Next

\* DashInv holds of every reachable state of the page.
THEOREM DashInvariant == Spec => []DashInv
  BY DashInit, DashStep, PTL DEF Spec

----------------------------------------------------------------------------
(* What follows from it                                                    *)

LEMMA AtMostOne ==
  ASSUME NEW n \in Nat, NEW T \in SUBSET (1..n), \A i, k \in T : i = k
  PROVE  Cardinality(T) <= 1
  <1>1. CASE T = {}
    BY <1>1, FS_EmptySet
  <1>2. CASE T # {}
    <2>1. PICK x \in T : T = {x}
      BY <1>2
    <2>2. Cardinality({x}) = 1
      BY FS_Singleton
    <2> QED BY <2>1, <2>2
  <1> QED BY <1>1, <1>2

LEMMA OneRow ==
  ASSUME DashInv, NEW id, UniqueId(rows, id)
  PROVE  Cardinality(Positions(rows, id)) <= 1
  <1>1. Len(rows) \in Nat /\ DOMAIN rows = 1..Len(rows)
    BY SeqElements DEF DashInv, RowsInv, Clean
  <1>2. Positions(rows, id) \in SUBSET (1..Len(rows))
    BY <1>1 DEF Positions
  <1>3. \A i, k \in Positions(rows, id) : i = k
    BY DEF Positions, UniqueId
  <1> QED BY <1>1, <1>2, <1>3, AtMostOne

\* Every variable keeps its type, there is one optimistic row at most, and the
\* modal asks about one row (dashboard.js 47-76, 363-411), with any number of
\* jobs, listeners and clicks.
THEOREM DashboardTypeCorrect == Spec => []TypeOK
  <1>1. DashInv => TypeOK
    <2> SUFFICES ASSUME DashInv PROVE TypeOK
      OBVIOUS
    <2>1. Clean(rows, Gone, Plain) /\ rows \in Seq(RowShape)
      BY DEF DashInv, RowsInv, Clean
    <2>2. Cardinality(Positions(rows, Opt)) <= 1
      BY <2>1, OneRow DEF Clean
    <2>3. Cardinality({k \in DOMAIN rows : rows[k].ask = "asked"}) <= 1
      <3> DEFINE T == {k \in DOMAIN rows : rows[k].ask = "asked"}
      <3>1. Len(rows) \in Nat /\ DOMAIN rows = 1..Len(rows)
        BY <2>1, SeqElements
      <3>2. T \in SUBSET (1..Len(rows)) /\ \A i, k \in T : i = k
        BY <2>1, <3>1 DEF Clean, UniqueAsk
      <3> HIDE DEF T
      <3>3. Cardinality(T) <= 1
        BY <3>1, <3>2, AtMostOne
      <3> QED BY <3>3 DEF T
    <2>4. /\ conn \in {"connecting", "open", "closed"} /\ heard \in {"none", "current", "former"}
          /\ retryCount \in 0..MaxBackoff /\ timer \in BOOLEAN
      BY DEF DashInv, StreamInv
    <2>5. /\ form \in {"idle", "sent", "lost"} /\ response \in Jobs \cup {"none", "error"}
          /\ disabled \in BOOLEAN
          /\ replace \in 0..MaxListeners /\ htmxPending \subseteq Jobs \cup {Opt}
      BY DEF DashInv, FormInv
    <2>6. {timer, disabled} \subseteq BOOLEAN
      BY <2>4, <2>5
    <2> QED BY <2>2, <2>3, <2>4, <2>5, <2>6 DEF TypeOK
  <1> QED BY <1>1, DashInvariant, PTL

\* Once the create request has been answered every job has one row at most and
\* the optimistic row is gone (dashboard.js 229-245), in whatever order the
\* answer and the events of any number of jobs came.
THEOREM RowsAreUnique == Spec => []OneRowPerJob
  <1>1. DashInv => OneRowPerJob
    BY OneRow DEF DashInv, RowsInv, Tidy, OneRowPerJob
  <1> QED BY <1>1, DashInvariant, PTL

\* The submit button is disabled exactly while a create request is under way
\* (dashboard.js 429-437), whatever the delete requests do meanwhile.
THEOREM SubmitLock == Spec => []SubmitLockedWhileSent
  <1>1. DashInv => SubmitLockedWhileSent
    BY DEF DashInv, FormInv, SubmitLockedWhileSent
  <1> QED BY <1>1, DashInvariant, PTL

\* The listeners are on the source that is open (dashboard.js 296-307, 334-336),
\* after any number of lost and refused connections.
THEOREM StreamHeard == Spec => []OpenStreamIsHeard
  <1>1. DashInv => OpenStreamIsHeard
    BY DEF DashInv, StreamInv, OpenStreamIsHeard
  <1> QED BY <1>1, DashInvariant, PTL

\* With the stream open and no job event under way, every job whose end this
\* connection has carried, and whose URL is none of the form's, is shown with
\* that end (dashboard.js 248-267, 661-673, 728-750, sse.py 67-107), however
\* many connections, snapshots and events were lost and however stale an event
\* was replayed before it.
THEOREM EndsAreShown == Spec => []QuietStreamShowsEnds
  <1>1. DashInv => QuietStreamShowsEnds
    <2> SUFFICES ASSUME DashInv, conn = "open", statusQ = <<>>, NEW j \in told, j \in Ends,
                        urlOf[j] \notin FormUrls
                 PROVE  ShowsEnd(j)
      BY DEF QuietStreamShowsEnds
    <2>1. EndKnown(j)
      BY DEF DashInv, EndsInv, Plain, Ends
    <2>2. DOMAIN statusQ = {}
      OBVIOUS
    <2>3. PICK k \in DOMAIN rows : rows[k].id = j /\ rows[k].status = job[j]
      BY <2>1, <2>2 DEF EndKnown
    <2>4. rows[k].save <=> rows[k].status = "completed"
      BY DEF DashInv, RowsInv, Clean, RowOK
    <2> QED BY <2>3, <2>4 DEF ShowsEnd
  <1> QED BY <1>1, DashInvariant, PTL
============================================================================
