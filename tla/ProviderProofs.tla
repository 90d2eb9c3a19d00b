--------------------------- MODULE ProviderProofs ---------------------------
(***************************************************************************)
(* Theorems about what deals with a provider: ProfileIntake, for every     *)
(* provider, file, scope and policy; ProviderGateway, for any number of    *)
(* requests, saves and addresses, and any gate; and TestSession, for any   *)
(* number of openers, any numbers of looks and any changes made by hand.   *)
(***************************************************************************)
EXTENDS
  ProfileIntake, ProviderGateway, TestSession, SequenceTheorems, WellFoundedInduction, TLAPS

Row == Profiles \cup {NoProfile}

\* Induction over the naturals, in the form the provers can use: the least exception.
LEMMA LeastRow ==
  ASSUME NEW T \in SUBSET Nat, T # {}
  PROVE  \E n \in T : \A m \in T : n <= m
<1>. DEFINE Less == {pair \in Nat \X Nat : pair[1] < pair[2]}
<1>1. IsWellFoundedOn(Less, Nat)
  BY NatLessThanWellFounded DEF OpToRel
<1>2. PICK n \in T : \A m \in T : <<m, n>> \notin Less
  BY <1>1, WFMin, Zenon
<1>3. ASSUME NEW m \in T PROVE n <= m
  <2>1. m \in Nat /\ n \in Nat
    OBVIOUS
  <2>2. ~(m < n)
    BY <1>2, <2>1
  <2>. QED
    BY <2>1, <2>2
<1>. QED
  BY <1>3

\* The recursion of WithId, step by step.
UpTo(rows, f, n) ==
  IF n = 0 THEN <<>> ELSE IF rows[n] = NoProfile THEN f[n - 1] ELSE Append(f[n - 1], rows[n])

LEMMA UpToExists ==
  ASSUME NEW rows \in Seq(Row)
  PROVE  \E f : f = [n \in 0..Len(rows) |-> UpTo(rows, f, n)]
<1>. DEFINE Reaches(n) == \E f \in [0..n -> Seq(Profiles)] :
                            \A i \in 0..n : f[i] = UpTo(rows, f, i)
            T == {n \in 0..Len(rows) : ~Reaches(n)}
<1>a. Len(rows) \in Nat
  OBVIOUS
<1>b. \A n : n \in T <=> n \in 0..Len(rows) /\ ~Reaches(n)
  OBVIOUS
<1>1. T = {}
  <2>1. SUFFICES ASSUME T # {} PROVE FALSE
    OBVIOUS
  <2>2. PICK n \in T : \A m \in T : n <= m
    <3>. T \in SUBSET Nat
      BY <1>a
    <3>. QED
      BY <2>1, LeastRow
  <2>. n \in 0..Len(rows) /\ ~Reaches(n)
    OBVIOUS
  <2>. HIDE DEF T
  <2>3. CASE n = 0
    <3>. DEFINE g == [i \in 0..0 |-> <<>>]
    <3>1. g \in [0..0 -> Seq(Profiles)]
      OBVIOUS
    <3>2. \A i \in 0..0 : g[i] = UpTo(rows, g, i)
      BY DEF UpTo
    <3>3. Reaches(0)
      BY <3>1, <3>2
    <3>. QED
      BY <2>3, <3>3
  <2>4. CASE n # 0
    <3>1. n - 1 \in 0..Len(rows) /\ Reaches(n - 1)
      <4>. HIDE DEF Reaches
      <4>. QED
        BY <1>a, <1>b, <2>2, <2>4
    <3>2. PICK f \in [0..(n - 1) -> Seq(Profiles)] :
            \A i \in 0..(n - 1) : f[i] = UpTo(rows, f, i)
      BY <3>1
    <3>. DEFINE g == [i \in 0..n |-> IF i = n THEN UpTo(rows, f, n) ELSE f[i]]
    <3>3. rows[n] \in Row /\ n \in 1..Len(rows)
      BY <2>4
    <3>4. UpTo(rows, f, n) \in Seq(Profiles)
      BY <2>4, <3>3 DEF UpTo, Row
    <3>5. g \in [0..n -> Seq(Profiles)]
      BY <3>4
    <3>6. ASSUME NEW i \in 0..n PROVE g[i] = UpTo(rows, g, i)
      <4>1. CASE i = 0
        BY <3>2, <4>1, <2>4 DEF UpTo
      <4>2. CASE i # 0
        <5>1. g[i - 1] = f[i - 1]
          BY <4>2
        <5>2. UpTo(rows, g, i) = UpTo(rows, f, i)
          BY <4>2, <5>1 DEF UpTo
        <5>. QED
          BY <3>2, <5>2
      <4>. QED
        BY <4>1, <4>2
    <3>7. Reaches(n)
      BY <3>5, <3>6
    <3>. QED
      BY <3>7
  <2>. QED
    BY <2>3, <2>4
<1>2. Len(rows) \in 0..Len(rows)
  OBVIOUS
<1>3. PICK f \in [0..Len(rows) -> Seq(Profiles)] :
        \A i \in 0..Len(rows) : f[i] = UpTo(rows, f, i)
  BY <1>1, <1>2
<1>4. f = [n \in 0..Len(rows) |-> UpTo(rows, f, n)]
  BY <1>3
<1>. QED
  BY <1>4

\* Storing a list leaves out the rows without an id and nothing else (WithId).
LEMMA KeepsRows ==
  ASSUME NEW rows \in Seq(Row)
  PROVE  WithId(rows) \in Seq(Profiles) /\ ListsAll(WithId(rows), rows)
<1>. DEFINE f == CHOOSE f : f = [n \in 0..Len(rows) |-> UpTo(rows, f, n)]
<1>1. f = [n \in 0..Len(rows) |-> UpTo(rows, f, n)]
  BY UpToExists, Zenon
<1>2. WithId(rows) = f[Len(rows)]
  BY DEF WithId, UpTo
<1>. HIDE DEF f
<1>3. Len(rows) \in Nat /\ \A i \in 1..Len(rows) : rows[i] \in Row
  OBVIOUS
<1>4. \A n \in 0..Len(rows) : f[n] = UpTo(rows, f, n)
  BY <1>1
\* f[n] is what is kept of the first n rows, at the positions that at gives.
<1>. DEFINE At(n, at) == /\ at \in [DOMAIN f[n] -> 1..n]
                         /\ {at[k] : k \in DOMAIN f[n]} = {i \in 1..n : rows[i] # NoProfile}
                         /\ \A k \in DOMAIN f[n] : f[n][k] = rows[at[k]]
                         /\ \A k, m \in DOMAIN f[n] : k < m => at[k] < at[m]
            Kept(n) == f[n] \in Seq(Profiles) /\ \E at : At(n, at)
<1>5. Kept(0)
  <2>1. f[0] = <<>>
    BY <1>3, <1>4 DEF UpTo
  <2>2. At(0, [k \in DOMAIN f[0] |-> 0])
    BY <2>1
  <2>3. f[0] \in Seq(Profiles)
    BY <2>1
  <2>. HIDE DEF At
  <2>. QED
    BY <2>2, <2>3
<1>6. ASSUME NEW n \in 1..Len(rows), Kept(n - 1) PROVE Kept(n)
  <2>1. f[n] = UpTo(rows, f, n) /\ n # 0 /\ rows[n] \in Row
    BY <1>3, <1>4
  <2>2. PICK at : At(n - 1, at)
    BY <1>6
  <2>3. CASE rows[n] = NoProfile
    <3>1. f[n] = f[n - 1]
      BY <2>1, <2>3 DEF UpTo
    <3>2. At(n, at)
      BY <2>2, <2>3, <3>1, <1>3
    <3>. QED
      BY <1>6, <3>1, <3>2
  <2>4. CASE rows[n] # NoProfile
    <3>. DEFINE last == Len(f[n - 1]) + 1
                next == [k \in 1..last |-> IF k = last THEN n ELSE at[k]]
    <3>1. rows[n] \in Profiles /\ f[n] = Append(f[n - 1], rows[n])
      BY <2>1, <2>4 DEF UpTo, Row
    <3>2. /\ f[n] \in Seq(Profiles) /\ DOMAIN f[n] = 1..last /\ last \in Nat \ {0}
          /\ DOMAIN f[n - 1] = 1..(last - 1)
          /\ f[n][last] = rows[n] /\ \A k \in 1..(last - 1) : f[n][k] = f[n - 1][k]
      BY <1>6, <3>1, AppendProperties
    <3>. HIDE DEF last
    <3>a. /\ at \in [1..(last - 1) -> 1..(n - 1)]
          /\ {at[k] : k \in 1..(last - 1)} = {i \in 1..(n - 1) : rows[i] # NoProfile}
          /\ \A k \in 1..(last - 1) : f[n - 1][k] = rows[at[k]]
          /\ \A k, m \in 1..(last - 1) : k < m => at[k] < at[m]
      BY <2>2, <3>2
    <3>3. /\ next[last] = n
          /\ \A k \in 1..(last - 1) : next[k] = at[k] /\ at[k] \in 1..(n - 1)
      BY <3>2, <3>a
    <3>b. \A k \in 1..last : k = last \/ k \in 1..(last - 1)
      BY <3>2
    <3>. DEFINE kept == {i \in 1..n : rows[i] # NoProfile}
    <3>4. next \in [1..last -> 1..n]
      <4>1. n \in Nat /\ 1 <= n
        BY <1>3
      <4>2. \A k \in 1..last : next[k] \in 1..n
        BY <3>3, <3>b, <4>1
      <4>. QED
        BY <4>2
    <3>. HIDE DEF next
    <3>5. {next[k] : k \in 1..last} = kept
      <4>1. {at[k] : k \in 1..(last - 1)} = {i \in 1..(n - 1) : rows[i] # NoProfile}
        BY <3>a
      <4>2. ASSUME NEW k \in 1..last PROVE next[k] \in kept
        BY <2>4, <3>3, <3>b, <4>1
      <4>3. ASSUME NEW i \in kept PROVE \E k \in 1..last : next[k] = i
        <5>1. CASE i = n
          BY <3>2, <3>3, <5>1
        <5>2. CASE i # n
          <6>1. PICK k \in 1..(last - 1) : at[k] = i
            BY <4>1, <5>2
          <6>. QED
            BY <3>2, <3>3, <6>1
        <5>. QED
          BY <5>1, <5>2
      <4>. QED
        BY <4>2, <4>3
    <3>6. \A k \in 1..last : f[n][k] = rows[next[k]]
      BY <3>2, <3>3, <3>a, <3>b
    <3>7. \A k, m \in 1..last : k < m => next[k] < next[m]
      <4>1. \A k, m \in 1..last : k < m => k \in 1..(last - 1)
        BY <3>2
      <4>. QED
        BY <3>3, <3>a, <3>b, <4>1
    <3>8. At(n, next)
      BY <3>2, <3>4, <3>5, <3>6, <3>7
    <3>. QED
      BY <3>2, <3>8
  <2>. QED
    BY <2>3, <2>4
<1>7. \A n \in 0..Len(rows) : Kept(n)
  <2>. HIDE DEF Kept
  <2>. DEFINE T == {n \in 0..Len(rows) : ~Kept(n)}
  <2>1. SUFFICES ASSUME T # {} PROVE FALSE
    OBVIOUS
  <2>2. T \in SUBSET Nat
    OBVIOUS
  <2>3. PICK n \in T : \A m \in T : n <= m
    BY <2>1, <2>2, LeastRow
  <2>4. n \in 1..Len(rows) /\ n - 1 \in 0..Len(rows) /\ n - 1 \notin T
    BY <1>5, <2>3
  <2>. QED
    BY <1>6, <2>3, <2>4
<1>8. Kept(Len(rows)) /\ DOMAIN rows = 1..Len(rows)
  BY <1>3, <1>7
<1>. QED
  BY <1>2, <1>8 DEF ListsAll
----------------------------------------------------------------------------
(***************************************************************************)
(* Types.  What is stored is a list of profiles because WithId leaves out  *)
(* the rows without an id.                                                 *)
(***************************************************************************)
FirstListing == [by |-> "none", total |-> "none", cap |-> 1]

\* No sync reads before there is a provider, and there are no tasks before there is a batch.
Met == /\ listing \in Listings \cup {FirstListing}
       /\ listing.by = "none" => \A s \in Syncs : sync[s].at = "idle"
       /\ batch.status = "none" => intakePc = "idle" /\ DOMAIN taskOf = {}

IntakeTyped == IntakeTypeOK /\ Met

LEMMA InitIntakeTyped == IntakeInit => IntakeTyped
BY IntakeAssumption DEF IntakeInit, IntakeTyped, IntakeTypeOK, Met, FirstListing

LEMMA LesserOf ==
  ASSUME NEW a \in Int, NEW b \in Int
  PROVE  Min({a, b}) = IF a <= b THEN a ELSE b
<1>1. \E x \in {a, b} : \A y \in {a, b} : x <= y
  OBVIOUS
<1>2. Min({a, b}) \in {a, b} /\ \A y \in {a, b} : Min({a, b}) <= y
  BY <1>1 DEF Min
<1>. QED
  BY <1>2

\* Where a page of the provider's list starts and ends.
LEMMA PageRange ==
  ASSUME IntakeTyped, NEW n \in Nat
  PROVE  LET lo == n * listing.cap
             up == (n + 1) * listing.cap
             hi == IF up <= Len(remote) THEN up ELSE Len(remote)
         IN /\ lo \in Nat /\ listing.cap \in Nat \ {0} /\ up = lo + listing.cap
            /\ hi \in Nat /\ Len(remote) \in Nat
            /\ PageAt(n) = SubSeq(remote, lo + 1, hi)
<1>1. listing.cap \in Nat \ {0}
  BY IntakeAssumption DEF IntakeTyped, Met, FirstListing
<1>2. Len(remote) \in Nat
  BY DEF IntakeTyped, IntakeTypeOK
<1>3. n * listing.cap \in Nat /\ (n + 1) * listing.cap = n * listing.cap + listing.cap
  BY <1>1
<1>4. (n + 1) * listing.cap \in Int
  BY <1>1, <1>3
<1>5. Min({(n + 1) * listing.cap, Len(remote)})
        = IF (n + 1) * listing.cap <= Len(remote) THEN (n + 1) * listing.cap ELSE Len(remote)
  BY <1>2, <1>4, LesserOf
<1>. DEFINE up == (n + 1) * listing.cap
            hi == IF up <= Len(remote) THEN up ELSE Len(remote)
<1>6. PageAt(n) = SubSeq(remote, n * listing.cap + 1, hi)
  BY <1>5, Zenon DEF PageAt
<1>7. hi \in Nat
  BY <1>1, <1>2, <1>3
<1>. QED
  BY <1>1, <1>2, <1>3, <1>6, <1>7, Zenon

LEMMA PageTyped ==
  ASSUME IntakeTyped, NEW n \in Nat
  PROVE  PageAt(n) \in Seq(Row)
<1>. DEFINE lo == n * listing.cap
            up == (n + 1) * listing.cap
            hi == IF up <= Len(remote) THEN up ELSE Len(remote)
<1>1. lo \in Nat /\ hi \in Nat /\ hi <= Len(remote) /\ PageAt(n) = SubSeq(remote, lo + 1, hi)
  <2>1. /\ lo \in Nat /\ listing.cap \in Nat \ {0} /\ up = lo + listing.cap
        /\ hi \in Nat /\ Len(remote) \in Nat /\ PageAt(n) = SubSeq(remote, lo + 1, hi)
    BY PageRange
  <2>. QED
    BY <2>1
<1>. HIDE DEF lo, hi
<1>2. remote \in Seq(Row)
  BY DEF IntakeTyped, IntakeTypeOK, Row
<1>3. \A i \in (lo + 1)..hi : remote[i] \in Row
  BY <1>1, <1>2
<1>. QED
  BY <1>1, <1>3, SubSeqProperties

LEMMA Shortened ==
  ASSUME NEW S, NEW s \in Seq(S), NEW i \in DOMAIN s
  PROVE  RemoveAt(s, i) \in Seq(S)
<1>1. i \in 1..Len(s) /\ Len(s) \in Nat
  OBVIOUS
<1>2. SubSeq(s, 1, i - 1) \in Seq(S)
  BY <1>1, SubSeqProperties
<1>3. SubSeq(s, i + 1, Len(s)) \in Seq(S)
  BY <1>1, SubSeqProperties
<1>. QED
  BY <1>2, <1>3, ConcatProperties DEF RemoveAt

\* The provider and the syncs.
LEMMA ListTyped ==
  ASSUME IntakeTyped, ChangeRemote \/ \E l \in Listings, r \in RemoteLists : MeetProvider(l, r)
  PROVE  IntakeTyped'
<1>1. remote' \in Seq(Row)
  <2>1. CASE \E l \in Listings, r \in RemoteLists : MeetProvider(l, r)
    BY <2>1, IntakeAssumption DEF MeetProvider, Row
  <2>2. CASE \E p \in Profiles \ ToSet(remote) : remote' = <<p>> \o remote
    BY <2>2, ConcatProperties DEF IntakeTyped, IntakeTypeOK, Row
  <2>3. CASE \E i \in DOMAIN remote : remote' = RemoveAt(remote, i)
    BY <2>3, Shortened DEF IntakeTyped, IntakeTypeOK, Row
  <2>. QED
    BY <2>1, <2>2, <2>3 DEF ChangeRemote
<1>2. edits' \in 0..MaxEdits
  BY IntakeAssumption DEF IntakeTyped, IntakeTypeOK, ChangeRemote, MeetProvider
<1>3. \/ listing' \in Listings /\ listing'.by # "none"
      \/ listing' = listing /\ listing.by # "none"
  <2>1. CASE ChangeRemote
    BY <2>1 DEF ChangeRemote
  <2>2. CASE \E l \in Listings, r \in RemoteLists : MeetProvider(l, r)
    <3>1. listing' \in Listings
      BY <2>2 DEF MeetProvider
    <3>2. \A l \in Listings : l.by # "none"
      BY IntakeAssumption
    <3>. QED
      BY <3>1, <3>2
  <2>. QED
    BY <2>1, <2>2
<1>4. /\ steady' \subseteq steady
      /\ UNCHANGED <<sync, cache, managed, batchVars, missing, barred>>
  BY DEF ChangeRemote, MeetProvider
<1>. QED
  BY <1>1, <1>2, <1>3, <1>4 DEF IntakeTyped, IntakeTypeOK, Met, Row, batchVars

LEMMA SyncTyped ==
  ASSUME IntakeTyped, NEW s \in Syncs, SyncNext(s)
  PROVE  IntakeTyped'
<1>. DEFINE Sync == [at : {"idle", "paging", "read", "over"}, page : 0..(PageLimit - 1),
                     rows : Seq(Row)]
<1>0. /\ sync \in [Syncs -> Sync] /\ cache \in Seq(Profiles) /\ missing \subseteq Profiles
      /\ sync[s] \in Sync /\ steady \subseteq Syncs /\ PageLimit \in Nat \ {0}
  BY IntakeAssumption DEF IntakeTyped, IntakeTypeOK, Row
<1>1. SyncOver \in Sync
  BY <1>0 DEF SyncOver
<1>2. /\ listing.by # "none"
      /\ \E r \in Sync : sync' = [sync EXCEPT ![s] = r]
      /\ cache' \in Seq(Profiles) /\ missing' \subseteq missing /\ steady' \subseteq Syncs
      /\ UNCHANGED <<listing, remote, managed, batchVars, barred, edits>>
  <2>1. CASE BeginSync(s)
    <3>1. [sync[s] EXCEPT !.at = "paging"] \in Sync
      BY <1>0
    <3>2. sync' = [sync EXCEPT ![s] = [sync[s] EXCEPT !.at = "paging"]]
      BY <2>1 DEF BeginSync
    <3>. QED
      BY <1>0, <2>1, <3>1, <3>2 DEF BeginSync
  <2>2. CASE ReadPage(s)
    <3>. DEFINE rows == sync[s].rows \o PageAt(sync[s].page)
    <3>1. rows \in Seq(Row)
      BY <1>0, PageTyped, ConcatProperties
    <3>. HIDE DEF rows
    <3>2. \E r \in {[at |-> "paging", page |-> sync[s].page + 1, rows |-> rows], SyncOver,
                    [at |-> "read", page |-> 0, rows |-> rows]} :
            /\ sync' = [sync EXCEPT ![s] = r]
            /\ r.at = "paging" => sync[s].page + 1 < PageLimit
      BY <2>2 DEF ReadPage, SyncOver, rows
    <3>3. \E r \in Sync : sync' = [sync EXCEPT ![s] = r]
      <4>1. sync[s].page + 1 < PageLimit =>
              [at |-> "paging", page |-> sync[s].page + 1, rows |-> rows] \in Sync
        BY <1>0, <3>1
      <4>2. [at |-> "read", page |-> 0, rows |-> rows] \in Sync
        BY <1>0, <3>1
      <4>3. PICK r : /\ sync' = [sync EXCEPT ![s] = r]
                     /\ r.at = "paging" => sync[s].page + 1 < PageLimit
                     /\ \/ r = [at |-> "paging", page |-> sync[s].page + 1, rows |-> rows]
                        \/ r = SyncOver
                        \/ r = [at |-> "read", page |-> 0, rows |-> rows]
        BY <3>2
      <4>4. r \in Sync
        BY <1>1, <4>1, <4>2, <4>3
      <4>. QED
        BY <4>3, <4>4
    <3>4. listing.by # "none"
      BY <2>2 DEF ReadPage, IntakeTyped, Met
    <3>. QED
      BY <1>0, <2>2, <3>3, <3>4 DEF ReadPage
  <2>3. CASE PageFails(s)
    BY <1>0, <1>1, <2>3 DEF PageFails, IntakeTyped, Met
  <2>4. CASE StoreSync(s)
    <3>1. WithId(sync[s].rows) \in Seq(Profiles)
      BY <1>0, KeepsRows
    <3>. QED
      BY <1>0, <1>1, <2>4, <3>1 DEF StoreSync, IntakeTyped, Met
  <2>. QED
    BY <2>1, <2>2, <2>3, <2>4 DEF SyncNext
<1>3. sync' \in [Syncs -> Sync]
  BY <1>0, <1>2
<1>. QED
  BY <1>0, <1>2, <1>3 DEF IntakeTyped, IntakeTypeOK, Met, Row, batchVars

\* The scope and the batch.
LEMMA ScopeTyped ==
  ASSUME IntakeTyped, NEW m \in Managed, SaveScope(m)
  PROVE  IntakeTyped'
BY IntakeAssumption
DEF SaveScope, IntakeTyped, IntakeTypeOK, Met, listVars, batchVars

\* Scope and policy let through stored profiles only; a mapping maps profiles only.
LEMMA ResolvedStored ==
  ASSUME IntakeTyped, NEW policy
  PROVE  Resolved(policy) \subseteq cached
BY DEF Resolved

LEMMA StoredTyped == ASSUME IntakeTyped PROVE Stored \subseteq Profiles
BY DEF IntakeTyped, IntakeTypeOK, Stored, ToSet

Mapped == [id : Row, to : Row]

LEMMA MappingTyped ==
  ASSUME IntakeTyped
  PROVE  Mapping(mapped) \in Seq(Mapped) /\ DOMAIN Mapping(mapped) = DOMAIN mapped
<1>1. /\ mapped \in Seq(Mapped) /\ DOMAIN mapped = 1..Len(mapped) /\ Len(mapped) \in Nat
  BY DEF IntakeTyped, IntakeTypeOK, Mapped, Row
<1>2. \A i \in DOMAIN mapped : mapped[i] \in Mapped
  BY <1>1
<1>3. ASSUME NEW i \in DOMAIN mapped, NEW to \in {mapped[i].id, NoProfile}
      PROVE  [mapped[i] EXCEPT !.to = to] \in Mapped
  BY <1>2 DEF Mapped, Row
<1>4. \A i \in DOMAIN mapped : Mapping(mapped)[i] \in Mapped
  BY <1>3 DEF Mapping
<1>5. DOMAIN Mapping(mapped) = 1..Len(mapped)
  BY <1>1 DEF Mapping
<1>6. Mapping(mapped) = [i \in 1..Len(mapped) |-> Mapping(mapped)[i]]
  BY <1>1 DEF Mapping
<1>. HIDE DEF Mapped
<1>. QED
  BY <1>1, <1>4, <1>5, <1>6, IsASeq

LEMMA StartTyped ==
  ASSUME IntakeTyped,
         \/ \E file \in Files, source \in {"file", "schedule"}, checked \in BOOLEAN :
              ImportBatch(file, source, checked)
         \/ \E policy \in Policies : BeginStart(policy)
         \/ ResolveForMap \/ ReadForValidation \/ CommitStart \/ RefuseStart
  PROVE  IntakeTyped'
<1>0. /\ IntakeTypeOK /\ Met /\ Stored \subseteq Profiles
  BY StoredTyped DEF IntakeTyped
<1>1. CASE \E file \in Files, source \in {"file", "schedule"}, checked \in BOOLEAN :
             ImportBatch(file, source, checked)
  <2>1. PICK file \in Files, source \in {"file", "schedule"} :
          /\ batch.status = "none"
          /\ batch' = [batch EXCEPT !.status = "DRAFT", !.source = source]
          /\ mapped' = Unchecked(file)
          /\ UNCHANGED <<listVars, managed, intakePc, cached, usable, taskOf, missing, barred, edits>>
    BY <1>1 DEF ImportBatch
  <2>2. Unchecked(file) \in Seq(Mapped)
    <3>1. file \in Seq(Row)
      BY IntakeAssumption DEF Row
    <3>2. /\ Len(file) \in Nat
          /\ \A i \in 1..Len(file) : [id |-> file[i], to |-> file[i]] \in Mapped
          /\ Unchecked(file) = [i \in 1..Len(file) |-> [id |-> file[i], to |-> file[i]]]
      BY <3>1 DEF Unchecked, Mapped
    <3>. HIDE DEF Mapped
    <3>. QED
      BY <3>2, IsASeq
  <2>. QED
    BY <1>0, <2>1, <2>2 DEF IntakeTyped, IntakeTypeOK, Met, listVars, Mapped, Row
<1>2. CASE \E policy \in Policies : BeginStart(policy)
  BY <1>0, <1>2 DEF BeginStart, IntakeTyped, IntakeTypeOK, Met, listVars
<1>3. CASE ResolveForMap
  BY <1>0, <1>3, ResolvedStored DEF ResolveForMap, IntakeTyped, IntakeTypeOK, Met, listVars
<1>4. CASE ReadForValidation
  BY <1>0, <1>4 DEF ReadForValidation, IntakeTyped, IntakeTypeOK, Met, listVars
<1>5. CASE CommitStart
  <2>1. mapped' \in Seq(Mapped) /\ DOMAIN taskOf' = {}
    BY <1>5, MappingTyped DEF CommitStart
  <2>2. missing' \subseteq Profiles /\ barred' \subseteq Profiles
    BY <1>5 DEF CommitStart
  <2>3. /\ batch' = [batch EXCEPT !.status = "READY"] /\ intakePc' = "run"
        /\ cached' = {} /\ usable' = {} /\ UNCHANGED <<listVars, managed, edits>>
    BY <1>5 DEF CommitStart
  <2>. QED
    BY <1>0, <2>1, <2>2, <2>3 DEF IntakeTyped, IntakeTypeOK, Met, listVars, Mapped, Row
<1>6. CASE RefuseStart
  BY <1>0, <1>6 DEF RefuseStart, IntakeTyped, IntakeTypeOK, Met, listVars
<1>. QED
  BY <1>1, <1>2, <1>3, <1>4, <1>5, <1>6

LEMMA RunTyped ==
  ASSUME IntakeTyped,
         \/ BeginRun \/ ResolveForRun \/ NothingToRun \/ CreateTasks
         \/ \E status \in {"COMPLETED", "FAILED"} : RunEndsWith(status)
  PROVE  IntakeTyped'
<1>0. /\ IntakeTypeOK /\ Met /\ Stored \subseteq Profiles
  BY StoredTyped DEF IntakeTyped
<1>1. CASE BeginRun
  BY <1>0, <1>1 DEF BeginRun, IntakeTyped, IntakeTypeOK, Met, listVars
<1>2. CASE ResolveForRun
  BY <1>0, <1>2, ResolvedStored DEF ResolveForRun, IntakeTyped, IntakeTypeOK, Met, listVars
<1>3. CASE NothingToRun
  BY <1>0, <1>3 DEF NothingToRun, EndWith, IntakeTyped, IntakeTypeOK, Met, listVars
<1>4. CASE CreateTasks
  <2>1. \A i \in Executable : i \in DOMAIN mapped /\ mapped[i].to \in Profiles
    BY <1>0 DEF Executable, IntakeTypeOK
  <2>2. taskOf' = [i \in Executable |-> mapped[i].to]
    BY <1>4 DEF CreateTasks
  <2>3. DOMAIN taskOf' \subseteq DOMAIN mapped /\ \A i \in DOMAIN taskOf' : taskOf'[i] \in Profiles
    BY <2>1, <2>2
  <2>. QED
    BY <1>0, <1>4, <2>3 DEF CreateTasks, IntakeTyped, IntakeTypeOK, Met, listVars
<1>5. CASE \E status \in {"COMPLETED", "FAILED"} : RunEndsWith(status)
  BY <1>0, <1>5 DEF RunEndsWith, EndWith, IntakeTyped, IntakeTypeOK, Met, listVars
<1>. QED
  BY <1>1, <1>2, <1>3, <1>4, <1>5

LEMMA StepIntakeTyped == IntakeTyped /\ [IntakeNext]_intakeVars => IntakeTyped'
<1>1. IntakeTyped /\ UNCHANGED intakeVars => IntakeTyped'
  BY DEF intakeVars, IntakeTyped, IntakeTypeOK, Met
<1>. QED
  BY <1>1, ListTyped, ScopeTyped, SyncTyped, StartTyped, RunTyped DEF IntakeNext
----------------------------------------------------------------------------
(***************************************************************************)
(* The tasks of a batch.  From the commit of a start to the end of its     *)
(* run, missing holds no stored and barred no managed profile; what the    *)
(* run has read of the cache and of the scope keeps clear of both, since   *)
(* they only shrink.                                                       *)
(***************************************************************************)
OwnWindow ==
  /\ \A i \in DOMAIN mapped : mapped[i].to \in {mapped[i].id, NoProfile}
  /\ \A i, k \in DOMAIN mapped : mapped[i].to = mapped[k].to /\ i # k => mapped[i].to = NoProfile

TasksOwn ==
  /\ \A i \in DOMAIN taskOf : taskOf[i] = mapped[i].id
  /\ \A i, k \in DOMAIN taskOf : taskOf[i] = taskOf[k] => i = k

StillOut == missing \cap Stored = {} /\ \A p \in barred : ~Manages(managed, p)

TasksKept ==
  /\ TasksOwn
  /\ intakePc \in {"run", "resolve", "create"} => OwnWindow
  /\ intakePc \in {"run", "resolve", "create", "work"} => StillOut
  /\ intakePc = "resolve" => cached \cap missing = {}
  /\ intakePc = "create" => usable \cap (missing \cup barred) = {}
  /\ intakePc = "work" => \A i \in DOMAIN taskOf : taskOf[i] \notin missing \cup barred

LEMMA InitTasksKept == IntakeInit => TasksKept
BY DEF IntakeInit, TasksKept, TasksOwn

\* Storing a list and saving a scope take out of missing and barred what they admit.
LEMMA OthersKeepTasks ==
  ASSUME IntakeTyped, TasksKept,
         \/ ChangeRemote \/ \E l \in Listings, r \in RemoteLists : MeetProvider(l, r)
         \/ \E s \in Syncs : SyncNext(s)
         \/ \E m \in Managed : SaveScope(m)
  PROVE  TasksKept'
<1>1. /\ UNCHANGED batchVars /\ missing' \subseteq missing /\ barred' \subseteq barred
  BY DEF ChangeRemote, MeetProvider, SyncNext, BeginSync, ReadPage, PageFails, StoreSync, SaveScope
<1>2. StillOut => StillOut'
  <2>1. CASE \E m \in Managed : SaveScope(m)
    BY <2>1 DEF SaveScope, StillOut, Stored, ToSet, listVars
  <2>2. CASE \E s \in Syncs : StoreSync(s)
    BY <2>2 DEF StoreSync, StillOut, Stored, ToSet, Manages
  <2>3. CASE UNCHANGED <<cache, managed, missing, barred>>
    BY <2>3 DEF StillOut, Stored, ToSet, Manages
  <2>4. \/ \E m \in Managed : SaveScope(m)
        \/ \E s \in Syncs : StoreSync(s)
        \/ UNCHANGED <<cache, managed, missing, barred>>
    BY DEF ChangeRemote, MeetProvider, SyncNext, BeginSync, ReadPage, PageFails
  <2>. QED
    BY <2>1, <2>2, <2>3, <2>4
<1>. QED
  BY <1>1, <1>2 DEF TasksKept, TasksOwn, OwnWindow, batchVars

\* Only the first row with an id is mapped.
LEMMA MappedOnce ==
  ASSUME IntakeTyped, mapped' = Mapping(mapped)
  PROVE  OwnWindow'
<1>0. /\ DOMAIN mapped' = DOMAIN mapped /\ DOMAIN mapped = 1..Len(mapped) /\ Len(mapped) \in Nat
      /\ \A i \in DOMAIN mapped : mapped[i] \in Mapped
  <2>1. mapped \in Seq(Mapped)
    BY DEF IntakeTyped, IntakeTypeOK, Mapped, Row
  <2>2. DOMAIN mapped' = DOMAIN mapped
    BY MappingTyped
  <2>. HIDE DEF Mapped
  <2>. QED
    BY <2>1, <2>2
<1>1. ASSUME NEW i \in DOMAIN mapped
      PROVE  /\ mapped'[i].id = mapped[i].id
             /\ mapped'[i].to \in {mapped[i].id, NoProfile}
             /\ mapped'[i].to # NoProfile => \A k \in 1..(i - 1) : mapped[k].id # mapped[i].id
  BY <1>0 DEF Mapping, Mapped
<1>2. ASSUME NEW i \in DOMAIN mapped, NEW k \in DOMAIN mapped,
             mapped'[i].to = mapped'[k].to, i # k
      PROVE  mapped'[i].to = NoProfile
  <2>1. SUFFICES ASSUME mapped'[i].to # NoProfile PROVE FALSE
    OBVIOUS
  <2>2. mapped[i].id = mapped[k].id
    BY <1>1, <1>2, <2>1
  <2>3. i \in 1..(k - 1) \/ k \in 1..(i - 1)
    BY <1>0, <1>2
  <2>. QED
    BY <1>1, <1>2, <2>1, <2>2, <2>3
<1>. QED
  BY <1>0, <1>1, <1>2 DEF OwnWindow

LEMMA StartKeepsTasks ==
  ASSUME IntakeTyped, TasksKept,
         \/ \E file \in Files, source \in {"file", "schedule"}, checked \in BOOLEAN :
              ImportBatch(file, source, checked)
         \/ \E policy \in Policies : BeginStart(policy)
         \/ ResolveForMap \/ ReadForValidation \/ CommitStart \/ RefuseStart
  PROVE  TasksKept'
<1>1. CASE \E file \in Files, source \in {"file", "schedule"}, checked \in BOOLEAN :
             ImportBatch(file, source, checked)
  BY <1>1 DEF ImportBatch, IntakeTyped, Met, TasksKept, TasksOwn
<1>2. CASE \/ \E policy \in Policies : BeginStart(policy)
           \/ ResolveForMap \/ ReadForValidation \/ RefuseStart
  <2>1. intakePc' \in {"idle", "map", "validate", "commit"} /\ UNCHANGED <<mapped, taskOf>>
    BY <1>2 DEF BeginStart, ResolveForMap, ReadForValidation, RefuseStart
  <2>. QED
    BY <2>1 DEF TasksKept, TasksOwn
<1>3. CASE CommitStart
  <2>1. OwnWindow'
    BY <1>3, MappedOnce DEF CommitStart
  <2>2. DOMAIN taskOf' = {} /\ intakePc' = "run"
    BY <1>3 DEF CommitStart
  <2>3. StillOut'
    BY <1>3 DEF CommitStart, StillOut, Stored, ToSet, Manages, listVars
  <2>. QED
    BY <2>1, <2>2, <2>3 DEF TasksKept, TasksOwn
<1>. QED
  BY <1>1, <1>2, <1>3

LEMMA RunKeepsTasks ==
  ASSUME IntakeTyped, TasksKept,
         \/ BeginRun \/ ResolveForRun \/ NothingToRun \/ CreateTasks
         \/ \E status \in {"COMPLETED", "FAILED"} : RunEndsWith(status)
  PROVE  TasksKept'
<1>1. CASE BeginRun
  <2>1. StillOut'
    BY <1>1 DEF BeginRun, TasksKept, StillOut, Stored, ToSet, Manages, listVars
  <2>. QED
    BY <1>1, <2>1 DEF BeginRun, TasksKept, TasksOwn, OwnWindow, StillOut
<1>2. CASE ResolveForRun
  <2>1. StillOut /\ StillOut'
    BY <1>2 DEF ResolveForRun, TasksKept, StillOut, Stored, ToSet, Manages, listVars
  <2>2. usable' \cap (missing' \cup barred') = {}
    BY <1>2, <2>1 DEF ResolveForRun, Resolved, TasksKept, StillOut
  <2>. QED
    BY <1>2, <2>1, <2>2 DEF ResolveForRun, TasksKept, TasksOwn, OwnWindow
<1>3. CASE NothingToRun \/ \E status \in {"COMPLETED", "FAILED"} : RunEndsWith(status)
  BY <1>3 DEF NothingToRun, RunEndsWith, EndWith, TasksKept, TasksOwn
<1>4. CASE CreateTasks
  <2>1. /\ StillOut' /\ UNCHANGED <<mapped, missing, barred>> /\ intakePc' = "work"
    BY <1>4 DEF CreateTasks, TasksKept, StillOut, Stored, ToSet, Manages, listVars
  <2>2. /\ taskOf' = [i \in Executable |-> mapped[i].to] /\ OwnWindow
        /\ usable \cap (missing \cup barred) = {} /\ usable \subseteq Profiles
    BY <1>4 DEF CreateTasks, TasksKept, IntakeTyped, IntakeTypeOK
  <2>3. \A i \in Executable :
          i \in DOMAIN mapped /\ mapped[i].to \in usable /\ mapped[i].to # NoProfile
    BY <2>2, IntakeAssumption DEF Executable
  <2>4. /\ DOMAIN taskOf' = Executable
        /\ \A i \in Executable : taskOf'[i] = mapped[i].to /\ mapped[i].to = mapped[i].id
    BY <2>2, <2>3 DEF OwnWindow
  <2>5. TasksOwn'
    BY <2>1, <2>2, <2>3, <2>4 DEF OwnWindow, TasksOwn
  <2>6. \A i \in DOMAIN taskOf' : taskOf'[i] \notin missing' \cup barred'
    BY <2>1, <2>2, <2>3, <2>4
  <2>. QED
    BY <2>1, <2>5, <2>6 DEF TasksKept
<1>. QED
  BY <1>1, <1>2, <1>3, <1>4

LEMMA StepTasksKept == IntakeTyped /\ TasksKept /\ [IntakeNext]_intakeVars => TasksKept'
<1>1. TasksKept /\ UNCHANGED intakeVars => TasksKept'
  BY DEF intakeVars, TasksKept, TasksOwn, OwnWindow, StillOut, Stored, ToSet, Manages
<1>. QED
  BY <1>1, OthersKeepTasks, StartKeepsTasks, RunKeepsTasks DEF IntakeNext
----------------------------------------------------------------------------
(***************************************************************************)
(* The paging.  While the list stays as it is, a sync has read its first   *)
(* pages, and it stops at the end of the list and not before.              *)
(***************************************************************************)
Paged ==
  \A s \in Syncs :
    /\ sync[s].at = "idle" => sync[s].page = 0 /\ sync[s].rows = <<>>
    /\ s \in steady /\ Followed =>
         /\ sync[s].at = "paging" =>
              /\ sync[s].page * listing.cap <= Len(remote)
              /\ sync[s].rows = SubSeq(remote, 1, sync[s].page * listing.cap)
         /\ sync[s].at = "read" => sync[s].rows = remote

LEMMA InitPaged == IntakeInit => Paged
BY DEF IntakeInit, Paged

\* A page is appended to the pages before it; it is the last one exactly at the end.
LEMMA PageRead ==
  ASSUME IntakeTyped, Paged, NEW s \in Syncs, s \in steady, Followed, ReadPage(s)
  PROVE  /\ sync'[s].at = "paging" =>
              /\ sync'[s].page * listing.cap <= Len(remote)
              /\ sync'[s].rows = SubSeq(remote, 1, sync'[s].page * listing.cap)
         /\ sync'[s].at = "read" => sync'[s].rows = remote
<1>. DEFINE n == sync[s].page
            lo == n * listing.cap
            up == (n + 1) * listing.cap
            hi == IF up <= Len(remote) THEN up ELSE Len(remote)
            page == PageAt(n)
            rows == sync[s].rows \o page
<1>0. /\ n \in 0..(PageLimit - 1) /\ n \in Nat /\ remote \in Seq(Row) /\ PageLimit \in Nat \ {0}
      /\ sync[s].at = "paging"
  BY IntakeAssumption DEF IntakeTyped, IntakeTypeOK, Row, ReadPage
<1>1. /\ lo \in Nat /\ listing.cap \in Nat \ {0} /\ up = lo + listing.cap
      /\ hi \in Nat /\ Len(remote) \in Nat /\ page = SubSeq(remote, lo + 1, hi)
  <2>. HIDE DEF n
  <2>. QED
    BY <1>0, PageRange
<1>2. lo <= Len(remote) /\ sync[s].rows = SubSeq(remote, 1, lo)
  BY <1>0 DEF Paged
<1>3. n + 1 = PageLimit => Len(remote) <= up
  BY DEF Followed
<1>4. /\ sync'[s] = IF ~LastPage(page, rows) /\ n + 1 < PageLimit
                      THEN [at |-> "paging", page |-> n + 1, rows |-> rows]
                      ELSE IF Rejects(rows) THEN SyncOver
                      ELSE [at |-> "read", page |-> 0, rows |-> rows]
  BY DEF ReadPage, IntakeTyped, IntakeTypeOK
<1>a. /\ up <= Len(remote) => hi = up
      /\ ~(up <= Len(remote)) => hi = Len(remote)
  OBVIOUS
<1>. HIDE DEF lo, up, hi, page, rows
<1>5. lo <= hi /\ hi <= Len(remote) /\ up \in Nat
  BY <1>1, <1>2, <1>a
<1>6. rows = SubSeq(remote, 1, hi)
  BY <1>0, <1>1, <1>2, <1>5, ConcatAdjacentSubSeq DEF rows
<1>7. Len(page) = hi - lo /\ Len(rows) = hi
  <2>1. \A i \in 1..hi : remote[i] \in Row
    BY <1>0, <1>1, <1>5
  <2>2. \A i \in (lo + 1)..hi : remote[i] \in Row
    BY <1>1, <2>1
  <2>3. Len(page) = IF lo + 1 <= hi THEN hi - (lo + 1) + 1 ELSE 0
    BY <1>1, <2>2, SubSeqProperties
  <2>4. Len(rows) = IF 1 <= hi THEN hi - 1 + 1 ELSE 0
    BY <1>1, <1>6, <2>1, SubSeqProperties
  <2>. QED
    BY <1>1, <1>5, <2>3, <2>4
<1>8. /\ page = <<>> => Len(page) = 0
      /\ listing.by # "ixbrowser" => listing.cap = PageSize /\ TotalOf(page) \in {Len(remote), -1}
      /\ listing.by = "ixbrowser" => TotalOf(page) = Len(remote)
  BY DEF Followed, TotalOf
<1>9. ~LastPage(page, rows) => hi = up
  BY <1>1, <1>5, <1>7, <1>8, <1>a DEF LastPage
<1>10. LastPage(page, rows) \/ n + 1 = PageLimit => hi = Len(remote)
  <2>1. n + 1 = PageLimit => hi = Len(remote)
    BY <1>1, <1>3, <1>5, <1>a
  <2>2. LastPage(page, rows) => hi = Len(remote)
    <3>1. page = <<>> => hi = Len(remote)
      BY <1>1, <1>5, <1>7, <1>8, <1>a
    <3>2. listing.by # "ixbrowser" /\ Len(page) < PageSize => hi = Len(remote)
      BY <1>1, <1>5, <1>7, <1>8, <1>a
    <3>3. TotalOf(page) # -1 /\ Len(rows) >= TotalOf(page) => hi = Len(remote)
      BY <1>1, <1>5, <1>7, <1>8
    <3>. QED
      BY <3>1, <3>2, <3>3 DEF LastPage
  <2>. QED
    BY <2>1, <2>2
<1>11. hi = Len(remote) => rows = remote
  BY <1>0, <1>6, SubSeqFull
<1>12. CASE ~LastPage(page, rows) /\ n + 1 < PageLimit
  <2>1. sync'[s].page * listing.cap = up /\ sync'[s].rows = rows /\ sync'[s].at = "paging"
    BY <1>4, <1>12 DEF up
  <2>. QED
    BY <1>5, <1>6, <1>9, <1>12, <2>1
<1>13. CASE ~(~LastPage(page, rows) /\ n + 1 < PageLimit)
  <2>1. sync'[s].at # "paging" /\ (sync'[s].at = "read" => sync'[s].rows = rows)
    BY <1>4, <1>13 DEF SyncOver
  <2>2. LastPage(page, rows) \/ n + 1 = PageLimit
    BY <1>0, <1>13
  <2>. QED
    BY <1>10, <1>11, <2>1, <2>2
<1>. QED
  BY <1>12, <1>13

LEMMA StepPaged == IntakeTyped /\ Paged /\ [IntakeNext]_intakeVars => Paged'
<1>. SUFFICES ASSUME IntakeTyped, Paged, [IntakeNext]_intakeVars PROVE Paged'
  OBVIOUS
<1>1. CASE UNCHANGED <<listing, remote, sync, steady>>
  BY <1>1 DEF Paged, Followed
<1>2. CASE ChangeRemote
  BY <1>2 DEF ChangeRemote, Paged
<1>3. CASE \E l \in Listings, r \in RemoteLists : MeetProvider(l, r)
  BY <1>3 DEF MeetProvider, Paged, IntakeTyped, Met
<1>4. ASSUME NEW s \in Syncs, SyncNext(s) PROVE Paged'
  <2>1. /\ UNCHANGED <<listing, remote>> /\ (Followed' <=> Followed)
        /\ steady' \subseteq steady \cup {s}
        /\ \A q \in Syncs \ {s} : sync'[q] = sync[q]
    BY <1>4 DEF SyncNext, BeginSync, ReadPage, PageFails, StoreSync, Followed, IntakeTyped, IntakeTypeOK
  <2>2. /\ sync'[s].at # "idle"
        /\ sync[s].at = "idle" => BeginSync(s)
        /\ sync'[s].at = "read" => ReadPage(s)
        /\ sync'[s].at = "paging" => BeginSync(s) \/ ReadPage(s)
    <3>0. s \in DOMAIN sync /\ SyncOver.at = "over"
      BY DEF IntakeTyped, IntakeTypeOK, SyncOver
    <3>1. CASE BeginSync(s)
      BY <3>0, <3>1 DEF BeginSync, IntakeTyped, IntakeTypeOK
    <3>2. CASE ReadPage(s)
      BY <3>0, <3>2 DEF ReadPage
    <3>3. CASE PageFails(s)
      BY <3>0, <3>3 DEF PageFails
    <3>4. CASE StoreSync(s)
      BY <3>0, <3>4 DEF StoreSync
    <3>. QED
      BY <1>4, <3>1, <3>2, <3>3, <3>4 DEF SyncNext
  <2>3. ASSUME BeginSync(s), Followed
        PROVE  /\ sync'[s].at = "paging"
               /\ sync'[s].page * listing.cap <= Len(remote)
               /\ sync'[s].rows = SubSeq(remote, 1, sync'[s].page * listing.cap)
    <3>1. /\ sync'[s] = [sync[s] EXCEPT !.at = "paging"]
          /\ sync[s].page = 0 /\ sync[s].rows = <<>>
      BY <2>3 DEF BeginSync, Paged, IntakeTyped, IntakeTypeOK
    <3>2. sync'[s].at = "paging" /\ sync'[s].page = 0 /\ sync'[s].rows = <<>>
      BY <3>1 DEF IntakeTyped, IntakeTypeOK
    <3>3. listing.cap \in Nat /\ Len(remote) \in Nat /\ SubSeq(remote, 1, 0) = <<>>
      BY IntakeAssumption, SubSeqEmpty DEF IntakeTyped, IntakeTypeOK, Met, FirstListing
    <3>4. 0 * listing.cap = 0
      BY <3>3
    <3>. QED
      BY <3>2, <3>3, <3>4
  <2>4. ReadPage(s) => steady' = steady
    BY DEF ReadPage
  <2>5. ASSUME s \in steady', Followed'
        PROVE  /\ sync'[s].at = "paging" =>
                    /\ sync'[s].page * listing'.cap <= Len(remote')
                    /\ sync'[s].rows = SubSeq(remote', 1, sync'[s].page * listing'.cap)
               /\ sync'[s].at = "read" => sync'[s].rows = remote'
    BY <2>1, <2>2, <2>3, <2>4, <2>5, PageRead
  <2>6. ASSUME NEW q \in Syncs \ {s}
        PROVE  /\ sync'[q].at = "idle" => sync'[q].page = 0 /\ sync'[q].rows = <<>>
               /\ q \in steady' /\ Followed' =>
                    /\ sync'[q].at = "paging" =>
                         /\ sync'[q].page * listing'.cap <= Len(remote')
                         /\ sync'[q].rows = SubSeq(remote', 1, sync'[q].page * listing'.cap)
                    /\ sync'[q].at = "read" => sync'[q].rows = remote'
    BY <2>1, Zenon DEF Paged
  <2>. QED
    BY <2>2, <2>5, <2>6 DEF Paged
<1>5. CASE \/ \E m \in Managed : SaveScope(m)
           \/ \E file \in Files, source \in {"file", "schedule"}, checked \in BOOLEAN :
                ImportBatch(file, source, checked)
           \/ \E policy \in Policies : BeginStart(policy)
           \/ ResolveForMap \/ ReadForValidation \/ CommitStart \/ RefuseStart
           \/ BeginRun \/ ResolveForRun \/ NothingToRun \/ CreateTasks
           \/ \E status \in {"COMPLETED", "FAILED"} : RunEndsWith(status)
  <2>1. UNCHANGED listVars
    BY <1>5
    DEF SaveScope, ImportBatch, BeginStart, ResolveForMap, ReadForValidation, CommitStart,
        RefuseStart, BeginRun, ResolveForRun, NothingToRun, CreateTasks, RunEndsWith
  <2>. QED
    BY <1>1, <2>1 DEF listVars
<1>6. CASE UNCHANGED intakeVars
  BY <1>1, <1>6 DEF intakeVars
<1>. QED
  BY <1>2, <1>3, <1>4, <1>5, <1>6 DEF IntakeNext
----------------------------------------------------------------------------
IntakeInv == IntakeTyped /\ TasksKept /\ Paged

LEMMA IntakeInvariance == IntakeSpec => []IntakeInv
<1>1. IntakeInit => IntakeInv
  BY InitIntakeTyped, InitTasksKept, InitPaged DEF IntakeInv
<1>2. IntakeInv /\ [IntakeNext]_intakeVars => IntakeInv'
  BY StepIntakeTyped, StepTasksKept, StepPaged DEF IntakeInv
<1>. QED
  BY <1>1, <1>2, PTL DEF IntakeSpec

\* What is stored, mapped, resolved and created has its types: no row without an id gets
\* into the cache or into a task (sync_profiles, _run_batch).
THEOREM IntakeIsTyped == IntakeSpec => []IntakeTypeOK
<1>1. IntakeInv => IntakeTypeOK
  BY DEF IntakeInv, IntakeTyped
<1>. QED
  BY <1>1, IntakeInvariance, PTL

\* The tasks of a batch drive the windows their rows name, each its own, and none that was
\* gone or not managed ever since the batch was READY, whatever the interleaving of starts
\* with syncs and changes of the scope (_validate_and_map_batch_rows, _run_batch).
THEOREM MappingIsSound == IntakeSpec => []MappingSound
<1>1. IntakeInv => MappingSound
  BY DEF IntakeInv, TasksKept, TasksOwn, MappingSound
<1>. QED
  BY <1>1, IntakeInvariance, PTL

\* A sync whose list stayed as it was stores the whole of it, for every page size, limit
\* and list the clients can follow (_post_all_rows, _get_all_profiles, sync_profiles).
THEOREM WholeLists == IntakeSpec => WholeListSynced
<1>. DEFINE Whole == \A s \in Syncs :
              sync[s].at = "read" /\ sync'[s].at = "over" /\ s \in steady /\ Followed
                => ListsAll(cache', remote)
<1>1. IntakeInv /\ [IntakeNext]_intakeVars => [Whole]_intakeVars
  <2>. SUFFICES ASSUME IntakeInv, IntakeNext, NEW s \in Syncs,
                       sync[s].at = "read", sync'[s].at = "over", s \in steady, Followed
                PROVE  ListsAll(cache', remote)
    OBVIOUS
  <2>1. StoreSync(s)
    <3>1. \A q \in Syncs : SyncNext(q) => q = s
      BY DEF SyncNext, BeginSync, ReadPage, PageFails, StoreSync, IntakeInv, IntakeTyped, IntakeTypeOK
    <3>2. sync' # sync
      OBVIOUS
    <3>3. SyncNext(s)
      BY <3>1, <3>2
      DEF IntakeNext, MeetProvider, ChangeRemote, listVars, SaveScope, ImportBatch, BeginStart,
          ResolveForMap, ReadForValidation, CommitStart, RefuseStart, BeginRun,
          ResolveForRun, NothingToRun, CreateTasks, RunEndsWith
    <3>. QED
      BY <3>3 DEF SyncNext, BeginSync, ReadPage, PageFails
  <2>2. cache' = WithId(remote) /\ remote \in Seq(Row)
    BY <2>1 DEF StoreSync, IntakeInv, IntakeTyped, IntakeTypeOK, Paged, Row
  <2>. QED
    BY <2>2, KeepsRows
<1>. QED
  BY <1>1, IntakeInvariance, PTL DEF IntakeSpec, WholeListSynced
----------------------------------------------------------------------------
(* ProviderGateway. *)

\* The client that the holder of the lock has closed stays closed until it builds its own.
LockGuards == \A r \in Requests : req[r] = "closing" /\ lock = r => ~client.open

GatewayInv == GatewayTypeOK /\ RightServer /\ LockGuards

LEMMA FirstConfig == GatewayInit => config \in Configs
BY GatewayAssumption DEF GatewayInit, Configs

LEMMA InitGateway == GatewayInit => GatewayInv
<1>. SUFFICES ASSUME GatewayInit PROVE GatewayInv
  OBVIOUS
<1>1. config \in Configs /\ config.base \in Addresses
  BY FirstConfig DEF Configs
<1>. QED
  BY <1>1 DEF GatewayInit, GatewayInv, GatewayTypeOK, RightServer, LockGuards, NoHealth

\* What a check leaves in the cache is a health of an address.
LEMMA Remembered ==
  ASSUME GatewayTypeOK, NEW r \in Requests, NEW ok \in BOOLEAN, Remember(r, ok)
  PROVE  health' \in [known : BOOLEAN, ok : BOOLEAN, base : Addresses \cup {NoOne}]
<1>1. using[r].base \in Addresses
  BY DEF GatewayTypeOK, Configs
<1>. QED
  BY <1>1 DEF GatewayTypeOK, Remember

\* A request keeps the types, the client and the lock in step.
LEMMA RequestServed ==
  ASSUME GatewayInv, NEW r \in Requests, ReadConfig(r) \/ RequestStep(r)
  PROVE  GatewayInv'
<1>0. /\ GatewayTypeOK /\ RightServer /\ LockGuards
      /\ using[r] \in Configs /\ using[r].base \in Addresses
      /\ NoOne \notin Requests
  BY GatewayAssumption DEF GatewayInv, GatewayTypeOK, Configs
<1>1. CASE ReadConfig(r)
  BY <1>0, <1>1
  DEF ReadConfig, Step, GatewayInv, GatewayTypeOK, RightServer, LockGuards
<1>2. CASE EnterGate(r)
  BY <1>0, <1>2
  DEF EnterGate, Step, GatewayInv, GatewayTypeOK, RightServer, LockGuards
<1>3. CASE UseClient(r)
  BY <1>0, <1>3
  DEF UseClient, HasLock, Step, GatewayInv, GatewayTypeOK, RightServer, LockGuards
<1>4. CASE CloseClient(r)
  <2>1. GatewayTypeOK'
    BY <1>0, <1>4 DEF CloseClient, HasLock, Step, GatewayTypeOK
  <2>2. RightServer'
    BY <1>0, <1>4 DEF CloseClient, HasLock, Step, GatewayTypeOK, RightServer
  <2>3. ~client'.open
    BY <1>0, <1>4 DEF CloseClient, GatewayTypeOK
  <2>. QED
    BY <2>1, <2>2, <2>3 DEF GatewayInv, LockGuards
<1>5. CASE NewClient(r)
  <2>1. GatewayTypeOK'
    BY <1>0, <1>5 DEF NewClient, HasLock, Step, GatewayTypeOK
  <2>2. ~client.open
    BY <1>0, <1>5 DEF NewClient, LockGuards
  <2>3. \A q \in Requests : req[q] = "sent" => q \in cut
    BY <1>0, <2>2 DEF RightServer
  <2>4. RightServer'
    BY <1>0, <1>5, <2>3 DEF NewClient, Step, GatewayTypeOK, RightServer
  <2>5. LockGuards'
    BY <1>0, <1>5 DEF NewClient, LockGuards
  <2>. QED
    BY <2>1, <2>4, <2>5 DEF GatewayInv
<1>6. CASE Succeeds(r)
  <2>1. health' \in [known : BOOLEAN, ok : BOOLEAN, base : Addresses \cup {NoOne}]
    BY <1>0, <1>6, Remembered DEF Succeeds
  <2>. QED
    BY <1>0, <1>6, <2>1
    DEF Succeeds, Step, GatewayInv, GatewayTypeOK, RightServer, LockGuards
<1>7. CASE Fails(r)
  <2>1. health' \in [known : BOOLEAN, ok : BOOLEAN, base : Addresses \cup {NoOne}]
    BY <1>0, <1>7, Remembered DEF Fails
  <2>. QED
    BY <1>0, <1>7, <2>1
    DEF Fails, Step, GatewayInv, GatewayTypeOK, RightServer, LockGuards
<1>. QED
  BY <1>1, <1>2, <1>3, <1>4, <1>5, <1>6, <1>7 DEF RequestStep

\* A cancelled check frees the lock, and leaves the client as it is.
LEMMA CheckCancelled ==
  ASSUME GatewayInv, CheckTimesOut
  PROVE  GatewayInv'
<1>0. GatewayTypeOK /\ RightServer /\ LockGuards /\ Check \in Requests /\ NoOne \notin Requests
  BY GatewayAssumption DEF GatewayInv
<1>1. health' \in [known : BOOLEAN, ok : BOOLEAN, base : Addresses \cup {NoOne}]
  BY <1>0, Remembered DEF CheckTimesOut
<1>. QED
  BY <1>0, <1>1
  DEF CheckTimesOut, Step, GatewayInv, GatewayTypeOK, RightServer, LockGuards

\* A save changes what later requests read, never the client of one under way.
LEMMA SaveApart ==
  ASSUME GatewayInv, NEW s \in Savers, SaveReads(s) \/ SaveWrites(s) \/ SaveInvalidates(s)
  PROVE  GatewayInv'
<1>0. GatewayTypeOK /\ RightServer /\ LockGuards /\ config.key \in Keys
  BY DEF GatewayInv, GatewayTypeOK, Configs
<1>1. CASE SaveReads(s)
  <2>1. PICK base \in Addresses, key \in Keys \cup {Mask} : Edited(s, base, key, config)
    BY <1>1 DEF SaveReads
  <2>2. [base |-> base, key |-> IF key = Mask THEN config.key ELSE key] \in Configs
    BY <1>0 DEF Configs
  <2>3. edit' \in [Savers -> [step : {"idle", "read", "written", "done"}, values : Configs]]
    BY <1>0, <2>1, <2>2 DEF Edited, GatewayTypeOK
  <2>. QED
    BY <1>0, <1>1, <2>3 DEF SaveReads, GatewayInv, GatewayTypeOK, RightServer, LockGuards
<1>2. CASE SaveWrites(s)
  BY <1>0, <1>2 DEF SaveWrites, GatewayInv, GatewayTypeOK, RightServer, LockGuards
<1>3. CASE SaveInvalidates(s)
  BY <1>0, <1>3
  DEF SaveInvalidates, NoHealth, GatewayInv, GatewayTypeOK, RightServer, LockGuards
<1>. QED
  BY <1>1, <1>2, <1>3

LEMMA StepGateway == GatewayInv /\ [GatewayNext]_gatewayVars => GatewayInv'
<1>. SUFFICES ASSUME GatewayInv, [GatewayNext]_gatewayVars PROVE GatewayInv'
  OBVIOUS
<1>1. CASE \E r \in Requests : ReadConfig(r) \/ RequestStep(r)
  BY <1>1, RequestServed
<1>2. CASE CheckTimesOut
  BY <1>2, CheckCancelled
<1>3. CASE \E s \in Savers : SaveReads(s) \/ SaveWrites(s) \/ SaveInvalidates(s)
  BY <1>3, SaveApart
<1>4. CASE UNCHANGED gatewayVars
  BY <1>4 DEF gatewayVars, GatewayInv, GatewayTypeOK, RightServer, LockGuards
<1>. QED
  BY <1>1, <1>2, <1>3, <1>4 DEF GatewayNext

LEMMA GatewayInvariance == GatewaySpec => []GatewayInv
BY InitGateway, StepGateway, PTL DEF GatewaySpec

\* The variables of the gateway have their types (_client_for_config, save_config).
THEOREM GatewayTyped == GatewaySpec => []GatewayTypeOK
<1>1. GatewayInv => GatewayTypeOK
  BY DEF GatewayInv
<1>. QED
  BY <1>1, GatewayInvariance, PTL

\* No request is sent through the client of another address, however many requests and
\* saves there are (_client_for_config).
THEOREM RequestsReachTheirServer == GatewaySpec => []RightServer
<1>1. GatewayInv => RightServer
  BY DEF GatewayInv
<1>. QED
  BY <1>1, GatewayInvariance, PTL
----------------------------------------------------------------------------
(* TestSession. *)

\* Openers that are about to ask for a window.
Asks == {"idle", "look", "open", "gone", "reopen", "openAgain"}

\* Opens an opener has behind it where it stands: one at each of three places, once each.
OpensBy(p) ==
  IF p \in {"idle", "look", "open"} THEN 0
  ELSE IF p \in {"waitOpen", "waitFirst", "close", "reset", "gone", "reopen"} THEN 1
  ELSE IF p \in {"resetOpen", "openAgain"} THEN 2
  ELSE 3

OpensCounted ==
  \A o \in Openers :
    /\ opens[o] <= OpensBy(opener[o])
    /\ opener[o] \in Asks => spaced[o]

SessionInv == SessionTypeOK /\ OpensCounted

LEMMA InitSession == SessionInit => SessionInv
BY SessionAssumption
DEF SessionInit, SessionInv, SessionTypeOK, OpensCounted, OpensBy, Asks, Windows, OpenerPc

\* A step of an opener is about that opener only.
LEMMA OpenerAlone ==
  ASSUME SessionInv, NEW o \in Openers,
         window' \in Windows, opener' \in [Openers -> OpenerPc],
         polls' \in [Openers -> Nat], opens' \in [Openers -> Nat],
         spaced' \in [Openers -> BOOLEAN],
         given' \in [Openers -> {"none", "attachable", "error"}], byHand' = byHand,
         \A q \in Openers \ {o} :
           opener'[q] = opener[q] /\ opens'[q] = opens[q] /\ spaced'[q] = spaced[q],
         opens'[o] <= OpensBy(opener'[o]), opener'[o] \in Asks => spaced'[o]
  PROVE  SessionInv'
<1>1. \A q \in Openers : opens'[q] <= OpensBy(opener'[q]) /\ (opener'[q] \in Asks => spaced'[q])
  BY DEF SessionInv, OpensCounted
<1>2. \A q \in Openers : opens'[q] \in 0..3
  BY <1>1 DEF OpensBy
<1>3. opens' \in [Openers -> 0..3]
  BY <1>2
<1>. QED
  BY <1>1, <1>3 DEF SessionInv, SessionTypeOK, OpensCounted

\* What the helpers of an action leave.
LEMMA Answered ==
  ASSUME SessionInv, NEW o \in Openers, NEW a \in {"attachable", "error"}, Answer(o, a)
  PROVE  SessionInv' /\ opens' = opens
<1>1. /\ opener' = [opener EXCEPT ![o] = "over"] /\ given' = [given EXCEPT ![o] = a]
      /\ UNCHANGED <<window, polls, opens, spaced, byHand>>
  BY DEF Answer, Turn
<1>2. opens'[o] <= OpensBy(opener'[o]) /\ opener'[o] \notin Asks
  BY <1>1 DEF SessionInv, SessionTypeOK, OpensCounted, OpensBy, Asks
<1>. QED
  BY <1>1, <1>2, OpenerAlone DEF SessionInv, SessionTypeOK, OpenerPc

\* An open: one more, from a place where one was due.
LEMMA OpenedOnce ==
  ASSUME SessionInv, NEW o \in Openers, NEW p \in {"waitOpen", "waitLast"},
         NEW n \in Nat, OpenGives(o, p, n), opens[o] + 1 <= OpensBy(p)
  PROVE  SessionInv' /\ \A q \in Openers : opens'[q] > opens[q] => q = o /\ opens'[q] <= 3
<1>1. PICK w \in {"silent", "attachable"} :
        /\ Opens(o, w)
        /\ IF w = "attachable"
             THEN given' = [given EXCEPT ![o] = w] /\ Turn(o, "over") /\ UNCHANGED polls
             ELSE WaitFor(o, p, n) /\ UNCHANGED given
        /\ UNCHANGED byHand
  BY DEF OpenGives
<1>2. /\ window' = w /\ opens' = [opens EXCEPT ![o] = @ + 1]
      /\ spaced' = [spaced EXCEPT ![o] = FALSE]
  BY <1>1 DEF Opens
<1>3. /\ opener' \in {[opener EXCEPT ![o] = "over"], [opener EXCEPT ![o] = p]}
      /\ given' \in {given, [given EXCEPT ![o] = "attachable"]}
      /\ polls' \in {polls, [polls EXCEPT ![o] = n]}
  BY <1>1 DEF WaitFor, Turn
<1>4. opens'[o] = opens[o] + 1 /\ opens[o] \in 0..3 /\ OpensBy(p) <= 3
  BY <1>2 DEF SessionInv, SessionTypeOK, OpensBy
<1>5. opens'[o] <= OpensBy(opener'[o]) /\ opener'[o] \notin Asks
  BY <1>3, <1>4 DEF SessionInv, SessionTypeOK, OpensBy, Asks
<1>6. /\ opener' \in [Openers -> OpenerPc] /\ polls' \in [Openers -> Nat]
      /\ given' \in [Openers -> {"none", "attachable", "error"}]
  BY <1>3 DEF SessionInv, SessionTypeOK, OpenerPc
<1>7. /\ opens' \in [Openers -> Nat] /\ spaced' \in [Openers -> BOOLEAN]
      /\ window' \in Windows
  BY <1>2 DEF SessionInv, SessionTypeOK, Windows
<1>8. \A q \in Openers \ {o} :
        opener'[q] = opener[q] /\ opens'[q] = opens[q] /\ spaced'[q] = spaced[q]
  BY <1>2, <1>3 DEF SessionInv, SessionTypeOK
<1>9. SessionInv'
  BY <1>1, <1>5, <1>6, <1>7, <1>8, OpenerAlone
<1>. QED
  BY <1>4, <1>8, <1>9 DEF SessionInv, SessionTypeOK

\* A step that asks for nothing: it waits, closes or resets.
LEMMA NothingOpened ==
  ASSUME SessionInv, NEW o \in Openers, NEW p \in OpenerPc, NEW n \in Nat,
         window' \in Windows, opener' = [opener EXCEPT ![o] = p],
         polls' \in {polls, [polls EXCEPT ![o] = n]}, opens' = opens,
         spaced' \in {spaced, [spaced EXCEPT ![o] = TRUE]},
         given' \in {given, [given EXCEPT ![o] = "error"]}, byHand' = byHand,
         OpensBy(opener[o]) <= OpensBy(p), p \in Asks => spaced'[o]
  PROVE  SessionInv'
<1>1. opens'[o] <= OpensBy(opener'[o]) /\ (opener'[o] \in Asks => spaced'[o])
  BY DEF SessionInv, SessionTypeOK, OpensCounted, OpensBy
<1>2. /\ opener' \in [Openers -> OpenerPc] /\ polls' \in [Openers -> Nat]
      /\ opens' \in [Openers -> Nat] /\ spaced' \in [Openers -> BOOLEAN]
      /\ given' \in [Openers -> {"none", "attachable", "error"}]
  <2>0. SessionTypeOK
    BY DEF SessionInv
  <2>1. opener' \in [Openers -> OpenerPc]
    BY <2>0 DEF SessionTypeOK
  <2>2. polls' \in [Openers -> Nat]
    BY <2>0 DEF SessionTypeOK
  <2>3. opens' \in [Openers -> Nat]
    BY <2>0 DEF SessionTypeOK
  <2>4. spaced' \in [Openers -> BOOLEAN]
    BY <2>0 DEF SessionTypeOK
  <2>5. given' \in [Openers -> {"none", "attachable", "error"}]
    BY <2>0 DEF SessionTypeOK
  <2>. QED
    BY <2>1, <2>2, <2>3, <2>4, <2>5
<1>3. \A q \in Openers \ {o} :
        opener'[q] = opener[q] /\ opens'[q] = opens[q] /\ spaced'[q] = spaced[q]
  BY DEF SessionInv, SessionTypeOK
<1>. QED
  BY <1>1, <1>2, <1>3, OpenerAlone

\* An open that finds the window open already counts as well.
LEMMA OpenedAnyway ==
  ASSUME SessionInv, NEW o \in Openers, OpenAlready(o) \/ ReopenAlready(o)
  PROVE  SessionInv' /\ \A q \in Openers : opens'[q] > opens[q] => q = o /\ opens'[q] <= 3
<1>1. PICK p \in {"waitFirst", "resetOpen"} :
        /\ opener' = [opener EXCEPT ![o] = p] /\ OpensBy(opener[o]) + 1 = OpensBy(p)
        /\ polls' \in {polls, [polls EXCEPT ![o] = FirstPolls]}
  BY DEF OpenAlready, ReopenAlready, WaitFor, Turn, OpensBy
<1>2. /\ opens' = [opens EXCEPT ![o] = @ + 1] /\ spaced' = [spaced EXCEPT ![o] = FALSE]
      /\ UNCHANGED <<window, given, byHand>>
  BY DEF OpenAlready, ReopenAlready
<1>3. opens'[o] = opens[o] + 1 /\ opens[o] \in 0..3 /\ opens[o] <= OpensBy(opener[o])
  BY <1>2 DEF SessionInv, SessionTypeOK, OpensCounted
<1>4. OpensBy(opener[o]) \in Nat /\ OpensBy(p) <= 2
  BY <1>1 DEF OpensBy
<1>5. opener'[o] = p /\ p \notin Asks /\ opens'[o] <= OpensBy(p)
  BY <1>1, <1>3, <1>4 DEF SessionInv, SessionTypeOK, Asks
<1>6. /\ opener' \in [Openers -> OpenerPc] /\ polls' \in [Openers -> Nat]
      /\ opens' \in [Openers -> Nat] /\ spaced' \in [Openers -> BOOLEAN]
  BY <1>1, <1>2, SessionAssumption DEF SessionInv, SessionTypeOK, OpenerPc
<1>7. \A q \in Openers \ {o} :
        opener'[q] = opener[q] /\ opens'[q] = opens[q] /\ spaced'[q] = spaced[q]
  BY <1>1, <1>2 DEF SessionInv, SessionTypeOK
<1>8. SessionInv'
  <2>1. /\ window' \in Windows /\ byHand' = byHand
        /\ given' \in [Openers -> {"none", "attachable", "error"}]
    BY <1>2 DEF SessionInv, SessionTypeOK
  <2>. QED
    BY <1>5, <1>6, <1>7, <2>1, OpenerAlone
<1>. QED
  BY <1>3, <1>4, <1>5, <1>7, <1>8 DEF SessionInv, SessionTypeOK

\* What SessionsSpaced says of a step.
Spaced == \A o \in Openers : opens'[o] > opens[o] => spaced[o] /\ opens'[o] <= 3

LEMMA NoneOpened == ASSUME SessionInv, opens' = opens PROVE Spaced
BY DEF SessionInv, SessionTypeOK, Spaced

\* A look at the opened windows.
LEMMA LookSafe ==
  ASSUME SessionInv, NEW o \in Openers, FirstLook(o) \/ WaitLook(o) \/ GoneLook(o)
  PROVE  SessionInv' /\ opens' = opens
<1>0. /\ window \in Windows /\ opener[o] \in OpenerPc /\ polls[o] \in Nat
      /\ opener = [opener EXCEPT ![o] = opener[o]]
      /\ {FirstPolls, GonePolls, OpenPolls, LastPolls} \subseteq Nat
  BY SessionAssumption DEF SessionInv, SessionTypeOK
<1>1. CASE Answer(o, "attachable")
  BY <1>1, Answered
<1>2. CASE FirstLook(o) /\ ~Answer(o, "attachable")
  <2>1. PICK p \in {"waitFirst", "open"} :
          /\ opener' = [opener EXCEPT ![o] = p]
          /\ polls' \in {polls, [polls EXCEPT ![o] = FirstPolls]}
          /\ UNCHANGED <<window, opens, spaced, given, byHand>>
    BY <1>2 DEF FirstLook, WaitFor, Turn
  <2>2. opener[o] = "look" /\ spaced[o]
    BY <1>2 DEF FirstLook, SessionInv, OpensCounted, Asks
  <2>3. OpensBy(opener[o]) <= OpensBy(p) /\ p \in OpenerPc
    BY <2>1, <2>2 DEF OpensBy, OpenerPc
  <2>4. FirstPolls \in Nat
    BY <1>0
  <2>. QED
    BY <1>0, <2>1, <2>2, <2>3, <2>4, NothingOpened
<1>3. CASE WaitLook(o) /\ ~Answer(o, "attachable")
  <2>0. /\ opener[o] \in {"waitOpen", "waitFirst", "waitLast"}
        /\ UNCHANGED <<window, opens, spaced, byHand>>
        /\ \/ /\ polls[o] > 1 /\ polls' = [polls EXCEPT ![o] = @ - 1]
              /\ UNCHANGED <<opener, given>>
           \/ NextWait(o)
    BY <1>3 DEF WaitLook
  <2>1. CASE polls[o] > 1 /\ polls' = [polls EXCEPT ![o] = @ - 1] /\ UNCHANGED <<opener, given>>
    <3>1. /\ polls[o] - 1 \in Nat /\ polls' = [polls EXCEPT ![o] = polls[o] - 1]
          /\ opener' = [opener EXCEPT ![o] = opener[o]]
          /\ OpensBy(opener[o]) <= OpensBy(opener[o]) /\ opener[o] \notin Asks
      BY <1>0, <2>0, <2>1 DEF OpensBy, Asks
    <3>. QED
      BY <1>0, <2>0, <2>1, <3>1, NothingOpened
  <2>2. CASE NextWait(o)
    <3>1. PICK p \in {"waitFirst", "close", "over"}, n \in {0, FirstPolls} :
            /\ opener' = [opener EXCEPT ![o] = p] /\ polls' = [polls EXCEPT ![o] = n]
            /\ given' \in {given, [given EXCEPT ![o] = "error"]}
            /\ OpensBy(opener[o]) <= OpensBy(p)
      BY <2>0, <2>2 DEF NextWait, WaitFor, Turn, OpensBy
    <3>2. p \in OpenerPc /\ p \notin Asks /\ n \in Nat
      BY <1>0, <3>1 DEF OpenerPc, Asks
    <3>. QED
      BY <1>0, <2>0, <3>1, <3>2, NothingOpened
  <2>. QED
    BY <2>0, <2>1, <2>2
<1>4. CASE GoneLook(o) /\ ~Answer(o, "attachable")
  <2>0. opener[o] = "gone" /\ spaced[o] /\ UNCHANGED <<window, opens, spaced, given, byHand>>
    BY <1>4 DEF GoneLook, SessionInv, OpensCounted, Asks
  <2>1. CASE polls[o] > 1 /\ polls' = [polls EXCEPT ![o] = @ - 1] /\ UNCHANGED opener
    <3>1. /\ polls[o] - 1 \in Nat /\ polls' = [polls EXCEPT ![o] = polls[o] - 1]
          /\ opener' = [opener EXCEPT ![o] = opener[o]]
          /\ OpensBy(opener[o]) <= OpensBy(opener[o])
      BY <1>0, <2>0, <2>1 DEF OpensBy
    <3>. QED
      BY <1>0, <2>0, <2>1, <3>1, NothingOpened
  <2>2. CASE Turn(o, "reopen") /\ UNCHANGED polls
    <3>1. "reopen" \in OpenerPc /\ OpensBy(opener[o]) <= OpensBy("reopen") /\ 0 \in Nat
      BY <2>0 DEF OpenerPc, OpensBy
    <3>. QED
      BY <1>0, <2>0, <2>2, <3>1, NothingOpened DEF Turn
  <2>. QED
    BY <1>4, <2>1, <2>2 DEF GoneLook
<1>. QED
  BY <1>1, <1>2, <1>3, <1>4

\* A close or a reset, after which the next open is due.
LEMMA ReleaseSafe ==
  ASSUME SessionInv, NEW o \in Openers, CloseWindow(o) \/ ResetState(o) \/ ResetAgain(o)
  PROVE  SessionInv' /\ opens' = opens
<1>0. window \in Windows /\ GonePolls \in Nat /\ opens' = opens
  BY SessionAssumption
  DEF SessionInv, SessionTypeOK, CloseWindow, ResetState, ResetAgain
<1>1. PICK p \in {"gone", "reset", "openAgain"} :
        /\ opener' = [opener EXCEPT ![o] = p]
        /\ polls' \in {polls, [polls EXCEPT ![o] = GonePolls]}
        /\ spaced' \in {spaced, [spaced EXCEPT ![o] = TRUE]}
        /\ p # "reset" => spaced' = [spaced EXCEPT ![o] = TRUE]
        /\ OpensBy(opener[o]) <= OpensBy(p)
        /\ window' \in {window, "closed"} /\ UNCHANGED <<given, byHand>>
  BY DEF CloseWindow, ResetState, ResetAgain, Released, WaitFor, Turn, OpensBy
<1>2. p \in OpenerPc /\ (p \in Asks => spaced'[o])
  BY <1>1 DEF SessionInv, SessionTypeOK, OpenerPc, Asks
<1>3. window' \in Windows
  BY <1>0, <1>1 DEF Windows
<1>. QED
  BY <1>0, <1>1, <1>2, <1>3, NothingOpened

LEMMA OpenerSafe ==
  ASSUME SessionInv, NEW o \in Openers, OpenerStep(o)
  PROVE  SessionInv' /\ Spaced
<1>1. CASE FirstLook(o) \/ WaitLook(o) \/ GoneLook(o)
  BY <1>1, LookSafe, NoneOpened
<1>2. CASE CloseWindow(o) \/ ResetState(o) \/ ResetAgain(o)
  BY <1>2, ReleaseSafe, NoneOpened
<1>3. CASE ProviderRaises(o)
  BY <1>3, Answered, NoneOpened DEF ProviderRaises
<1>4. CASE OpenAlready(o) \/ ReopenAlready(o)
  <2>1. spaced[o]
    BY <1>4 DEF OpenAlready, ReopenAlready, SessionInv, OpensCounted, Asks
  <2>. QED
    BY <1>4, <2>1, OpenedAnyway DEF Spaced
<1>5. CASE OpenSucceeds(o) \/ Reopen(o) \/ OpenAgain(o)
  <2>1. PICK p \in {"waitOpen", "waitLast"}, n \in {OpenPolls, LastPolls} :
          /\ OpenGives(o, p, n) /\ opener[o] \in {"open", "reopen", "openAgain"}
          /\ OpensBy(opener[o]) + 1 <= OpensBy(p)
    BY <1>5 DEF OpenSucceeds, Reopen, OpenAgain, OpensBy
  <2>2. /\ spaced[o] /\ n \in Nat
        /\ opens[o] <= OpensBy(opener[o]) /\ opens[o] \in 0..3
    BY <2>1, SessionAssumption DEF SessionInv, SessionTypeOK, OpensCounted, Asks
  <2>3. OpensBy(opener[o]) \in Nat /\ OpensBy(p) \in Nat
    BY DEF OpensBy
  <2>4. opens[o] + 1 <= OpensBy(p)
    BY <2>1, <2>2, <2>3
  <2>. QED
    BY <2>1, <2>2, <2>4, OpenedOnce DEF Spaced
<1>. QED
  BY <1>1, <1>2, <1>3, <1>4, <1>5 DEF OpenerStep

LEMMA StepSession ==
  ASSUME SessionInv, [SessionNext]_sessionVars
  PROVE  SessionInv' /\ (Spaced \/ UNCHANGED sessionVars)
<1>1. ASSUME NEW o \in Openers, AskForWindow(o)
      PROVE  SessionInv' /\ Spaced
  <2>1. /\ opener' = [opener EXCEPT ![o] = "look"] /\ spaced[o] /\ window \in Windows
        /\ UNCHANGED <<window, polls, opens, spaced, given, byHand>>
        /\ OpensBy(opener[o]) <= OpensBy("look") /\ "look" \in OpenerPc /\ 0 \in Nat
    BY <1>1 DEF AskForWindow, Turn, SessionInv, SessionTypeOK, OpensCounted, Asks, OpensBy, OpenerPc
  <2>2. SessionInv'
    BY <2>1, NothingOpened
  <2>. QED
    BY <2>1, <2>2, NoneOpened
<1>2. CASE ByHand
  <2>1. SessionInv'
    BY <1>2, SessionAssumption DEF ByHand, SessionInv, SessionTypeOK, OpensCounted
  <2>2. opens' = opens
    BY <1>2 DEF ByHand
  <2>. QED
    BY <2>1, <2>2, NoneOpened
<1>3. CASE UNCHANGED sessionVars
  BY <1>3 DEF sessionVars, SessionInv, SessionTypeOK, OpensCounted
<1>. QED
  BY <1>1, <1>2, <1>3, OpenerSafe DEF SessionNext

LEMMA SessionInvariance == SessionSpec => []SessionInv
<1>1. SessionInv /\ [SessionNext]_sessionVars => SessionInv'
  BY StepSession
<1>. QED
  BY <1>1, InitSession, PTL DEF SessionSpec

\* The variables of a session have their types, and three opens are the most a request
\* makes (open_test_session).
THEOREM SessionTyped == SessionSpec => []SessionTypeOK
<1>1. SessionInv => SessionTypeOK
  BY DEF SessionInv
<1>. QED
  BY <1>1, SessionInvariance, PTL

\* Between two opens of one request lies a close or a reset, on every path
\* (_reopen_for_attachable_session), for any numbers of looks and openers.
THEOREM OpensSpaced == SessionSpec => SessionsSpaced
<1>1. SessionInv /\ [SessionNext]_sessionVars => [Spaced]_sessionVars
  BY StepSession
<1>2. [Spaced]_sessionVars =>
        [\A o \in Openers :
           opens'[o] > opens[o] => spaced[o] /\ opens'[o] <= 3]_sessionVars
  BY DEF Spaced
<1>. QED
  BY <1>1, <1>2, SessionInvariance, PTL DEF SessionSpec, SessionsSpaced
=============================================================================
