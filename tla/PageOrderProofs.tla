--------------------------- MODULE PageOrderProofs --------------------------
(***************************************************************************)
(* Theorems about PageOrder: for forms of every length, tables of every    *)
(* size and rows returned in every order.                                  *)
(***************************************************************************)
EXTENDS PageOrder, FiniteSetTheorems, TLAPS

LEMMA IntervalCounted ==
    ASSUME NEW n \in Nat
    PROVE  /\ IsFiniteSet(1 .. n) /\ Cardinality(1 .. n) = n
           /\ IsFiniteSet(0 .. n - 1) /\ Cardinality(0 .. n - 1) = n
<1>1. 1 \in Int /\ 0 \in Int /\ n \in Int /\ n - 1 \in Int
  OBVIOUS
<1>2. /\ IsFiniteSet(1 .. n)
      /\ Cardinality(1 .. n) = IF 1 > n THEN 0 ELSE n - 1 + 1
  BY <1>1, FS_Interval
<1>3. /\ IsFiniteSet(0 .. n - 1)
      /\ Cardinality(0 .. n - 1) = IF 0 > n - 1 THEN 0 ELSE (n - 1) - 0 + 1
  BY <1>1, FS_Interval
<1>4. Cardinality(1 .. n) = n
  BY <1>2
<1>5. Cardinality(0 .. n - 1) = n
  BY <1>3
<1> QED BY <1>2, <1>3, <1>4, <1>5

\* The comparison of two sets is enough: a list that is as long as the set of
\* its members has no member twice.
LEMMA NoMemberTwice ==
    ASSUME NEW S, NEW s \in Seq(S), Cardinality(Range(s)) = Len(s)
    PROVE  IsInjective(s)
<1> DEFINE T == Range(s)
<1>1. s \in [1 .. Len(s) -> T] /\ DOMAIN s = 1 .. Len(s) /\ Len(s) \in Nat
  BY DEF Range
<1>2. s \in Surjection(1 .. Len(s), T)
  BY <1>1 DEF Surjection, Range
<1>3. IsFiniteSet(1 .. Len(s)) /\ Cardinality(1 .. Len(s)) = Len(s)
  BY <1>1, IntervalCounted
<1>4. s \in Injection(1 .. Len(s), T)
  BY <1>2, <1>3, FS_SurjSameCardinalityImpliesInj
<1> QED BY <1>4 DEF Injection

LEMMA PositionsCounted ==
    ASSUME NEW S, NEW ids \in Seq(S)
    PROVE  /\ Positions(ids) = 0 .. Len(ids) - 1
           /\ IsFiniteSet(Positions(ids))
           /\ Cardinality(Positions(ids)) = Len(ids)
<1>1. Len(ids) \in Nat /\ DOMAIN ids = 1 .. Len(ids)
  OBVIOUS
<1>2. Positions(ids) \subseteq 0 .. Len(ids) - 1
  BY <1>1 DEF Positions
<1>3. ASSUME NEW p \in 0 .. Len(ids) - 1 PROVE p \in Positions(ids)
  <2>1. p + 1 \in DOMAIN ids /\ (p + 1) - 1 = p
    BY <1>1
  <2> QED BY <2>1 DEF Positions
<1>4. Positions(ids) = 0 .. Len(ids) - 1
  BY <1>2, <1>3
<1>5. /\ IsFiniteSet(0 .. Len(ids) - 1)
      /\ Cardinality(0 .. Len(ids) - 1) = Len(ids)
  BY <1>1, IntervalCounted
<1> QED BY <1>4, <1>5

\* What parseAndValidateMergeJobInput and parseMergeInputRef let through as a
\* page order is a permutation: every position occurs, and none twice.
THEOREM PageOrderIsPermutation ==
    ASSUME NEW ids \in Seq(FileIds), NEW order \in Seq(Nat), IsPageOrder(ids, order)
    PROVE  order \in Bijection(1 .. Len(ids), 0 .. Len(ids) - 1)
<1>1. Len(ids) \in Nat /\ Len(order) = Len(ids) /\ DOMAIN order = 1 .. Len(ids)
  BY DEF IsPageOrder
<1>2. IsInjective(order)
  BY <1>1, PositionsCounted, NoMemberTwice DEF IsPageOrder
<1>3. order \in [1 .. Len(ids) -> 0 .. Len(ids) - 1]
  <2>1. Positions(ids) = 0 .. Len(ids) - 1
    BY PositionsCounted
  <2>2. \A i \in DOMAIN order : order[i] \in Positions(ids)
    BY DEF IsPageOrder, Range
  <2> QED BY <1>1, <2>1, <2>2
<1>4. order \in Injection(1 .. Len(ids), 0 .. Len(ids) - 1)
  BY <1>2, <1>3 DEF Injection
<1>5. IsFiniteSet(0 .. Len(ids) - 1) /\ Cardinality(0 .. Len(ids) - 1) = Len(ids)
  BY PositionsCounted
<1>6. Cardinality(1 .. Len(ids)) = Len(ids)
  BY <1>1, IntervalCounted
<1>7. order \in Surjection(1 .. Len(ids), 0 .. Len(ids) - 1)
  BY <1>4, <1>5, <1>6, FS_Injection
<1> QED BY <1>4, <1>7 DEF Bijection

----------------------------------------------------------------------------
(* The rows that were found.                                               *)

LEMMA RowsFound ==
    ASSUME NEW ids \in Seq(FileIds), NEW table \in Tables, NEW files \in FindMany(ids, table)
    PROVE  /\ files \in Seq(Rows) /\ IsInjective(files)
           /\ DOMAIN files = 1 .. Len(files) /\ Len(files) \in Nat
           /\ \A i \in DOMAIN files : files[i] \in table /\ files[i].id \in Range(ids)
           /\ \A i, j \in DOMAIN files : files[i].id = files[j].id => i = j
<1>1. files \in Seq(Rows) /\ IsInjective(files)
  BY DEF FindMany
<1>2. DOMAIN files = 1 .. Len(files) /\ Len(files) \in Nat
  BY <1>1
<1>3. ASSUME NEW i \in DOMAIN files PROVE files[i] \in table /\ files[i].id \in Range(ids)
  <2>1. files[i] \in Range(files)
    BY DEF Range
  <2> QED BY <2>1 DEF FindMany
<1>4. \A i, j \in DOMAIN files : files[i].id = files[j].id => i = j
  BY <1>1, <1>3 DEF Tables, IsInjective
<1> QED BY <1>1, <1>2, <1>3, <1>4

\* The row filesById gives for an id that was found.
LEMMA FoundById ==
    ASSUME NEW ids \in Seq(FileIds), NEW table \in Tables, NEW files \in FindMany(ids, table),
           NEW id, Has(files, id)
    PROVE  FileById(files, id).id = id /\ FileById(files, id) \in table
<1>1. \E file \in Range(files) : file.id = id
  BY DEF Has, Range
<1>2. FileById(files, id) \in Range(files) /\ FileById(files, id).id = id
  BY <1>1 DEF FileById
<1> QED BY <1>2, RowsFound DEF Range

\* As many rows as ids are found only if every id is: the second check for
\* missing files cannot fail.
LEMMA EnoughIsAll ==
    ASSUME NEW ids \in Seq(FileIds), NEW table \in Tables, NEW files \in FindMany(ids, table),
           SchemaAccepts(ids), Len(files) = Len(ids)
    PROVE  AllFound(ids, files)
<1> DEFINE T == Range(ids)
           idOf == [i \in 1 .. Len(ids) |-> files[i].id]
<1>1. Len(ids) \in Nat /\ DOMAIN ids = 1 .. Len(ids) /\ DOMAIN files = 1 .. Len(ids)
  BY RowsFound
<1>2. idOf \in [1 .. Len(ids) -> T]
  BY <1>1, RowsFound
<1>3. idOf \in Injection(1 .. Len(ids), T)
  BY <1>1, <1>2, RowsFound DEF Injection, IsInjective
<1>4. ids \in Surjection(1 .. Len(ids), T)
  BY <1>1 DEF Surjection, Range
<1>5. IsFiniteSet(1 .. Len(ids)) /\ Cardinality(1 .. Len(ids)) = Len(ids)
  BY <1>1, IntervalCounted
<1>6. IsFiniteSet(T) /\ Cardinality(T) = Len(ids)
  BY <1>4, <1>5, FS_Surjection DEF SchemaAccepts
<1>7. idOf \in Surjection(1 .. Len(ids), T)
  BY <1>3, <1>5, <1>6, FS_Injection
<1>8. ASSUME NEW i \in DOMAIN ids PROVE Has(files, ids[i])
  <2>1. ids[i] \in T
    BY DEF Range
  <2>2. PICK k \in 1 .. Len(ids) : idOf[k] = ids[i]
    BY <1>7, <2>1 DEF Surjection
  <2> QED BY <1>1, <2>2 DEF Has
<1> QED BY <1>8 DEF AllFound

----------------------------------------------------------------------------

\* parseAndValidateMergeJobInput and POST: once as many rows as ids are found,
\* neither a missing file nor a page order without a primary file can follow.
THEOREM AcceptedFormsPass ==
    ASSUME NEW ids \in Seq(FileIds), NEW order \in Seq(Nat), NEW table \in Tables,
           NEW files \in FindMany(ids, table), Accepts(ids, order, files)
    PROVE  LaterChecksPass(ids, order, files)
<1>1. AllFound(ids, files)
  BY EnoughIsAll DEF Accepts
<1>2. Len(ids) \in Nat /\ Len(ids) >= 1 /\ DOMAIN ids = 1 .. Len(ids)
  BY DEF Accepts, SchemaAccepts, MinFiles
<1>3. order[1] \in 0 .. Len(ids) - 1
  BY <1>2, PageOrderIsPermutation DEF Accepts, Bijection, Injection
<1>4. order[1] + 1 \in DOMAIN ids
  BY <1>2, <1>3
<1>5. FileById(files, ids[order[1] + 1]).id = ids[order[1] + 1]
  BY <1>1, <1>4, FoundById DEF AllFound
<1>6. PrimaryFile(ids, order, files) = FileById(files, ids[order[1] + 1])
  BY <1>4 DEF PrimaryFile, InOrderOf
<1>7. DOMAIN InOrderOf(ids, files) = DOMAIN ids
  BY DEF InOrderOf
<1> QED BY <1>1, <1>4, <1>5, <1>6, <1>7 DEF LaterChecksPass

\* parseMergeInputRef and getOrderedInputs never refuse what the route stored.
THEOREM StoredInputsAreAccepted ==
    ASSUME NEW ids \in Seq(FileIds), NEW order \in Seq(Nat), NEW files, NEW found,
           Accepts(ids, order, files)
    PROVE  WorkerAccepts(ids, order, found)
<1>1. IsPageOrder(ids, order)
  BY DEF Accepts
<1>2. Len(ids) \in Nat /\ DOMAIN ids = 1 .. Len(ids) /\ DOMAIN order = 1 .. Len(ids)
  BY <1>1 DEF IsPageOrder
<1>3. order \in [1 .. Len(ids) -> 0 .. Len(ids) - 1]
  BY <1>1, PageOrderIsPermutation DEF Bijection, Injection
<1>4. \A i \in DOMAIN order : order[i] + 1 \in 1 .. Len(ids)
  BY <1>2, <1>3
<1>5. DOMAIN InOrderOf(ids, found) = 1 .. Len(ids)
  BY <1>2 DEF InOrderOf
<1> QED BY <1>1, <1>4, <1>5 DEF WorkerAccepts, ParseAccepts, InRange

\* mergePdf: of an accepted form whose files the worker still finds, every file
\* is merged once, in the order that was asked for, whichever order the
\* database returned the rows in.
THEOREM AcceptedFormsMerge ==
    ASSUME NEW ids \in Seq(FileIds), NEW order \in Seq(Nat), NEW files, NEW table \in Tables,
           NEW found \in FindMany(ids, table), Accepts(ids, order, files), AllFound(ids, found)
    PROVE  MergesAsAsked(ids, order, table, found)
<1> DEFINE n == Len(ids)
           merged == Merged(ids, order, found)
<1>1. IsPageOrder(ids, order) /\ Cardinality(Range(ids)) = n
  BY DEF Accepts, SchemaAccepts
<1>2. n \in Nat /\ DOMAIN ids = 1 .. n /\ DOMAIN order = 1 .. n /\ Len(order) = n
  BY <1>1 DEF IsPageOrder
<1>3. order \in Bijection(1 .. n, 0 .. n - 1)
  BY <1>1, PageOrderIsPermutation
<1>4. \A i \in 1 .. n : order[i] + 1 \in 1 .. n
  BY <1>2, <1>3 DEF Bijection, Injection
<1>5. merged = [i \in 1 .. n |-> FileById(found, ids[order[i] + 1])]
  BY <1>2, <1>4 DEF Merged, OrderedInputs, InOrderOf
<1>6. \A i \in 1 .. n : merged[i].id = ids[order[i] + 1] /\ merged[i] \in table
  BY <1>2, <1>4, <1>5, FoundById DEF AllFound
<1>7. Len(merged) = n /\ DOMAIN merged = 1 .. n
  BY <1>2, <1>5
<1>8. IsInjective(merged)
  <2>1. IsInjective(ids)
    BY <1>1, NoMemberTwice
  <2> SUFFICES ASSUME NEW i \in 1 .. n, NEW j \in 1 .. n, merged[i] = merged[j] PROVE i = j
    BY <1>7 DEF IsInjective
  <2>2. ids[order[i] + 1] = ids[order[j] + 1]
    <3>1. merged[i].id = ids[order[i] + 1] /\ merged[j].id = ids[order[j] + 1]
      BY <1>6, Zenon
    <3> HIDE DEF merged, n
    <3> QED BY <3>1, Zenon
  <2>3. order[i] + 1 = order[j] + 1
    BY <1>2, <1>4, <2>1, <2>2 DEF IsInjective
  <2>4. order[i] \in 0 .. n - 1 /\ order[j] \in 0 .. n - 1
    BY <1>3 DEF Bijection, Injection
  <2>5. order[i] = order[j]
    BY <1>2, <2>3, <2>4
  <2> QED BY <1>2, <1>3, <2>5 DEF Bijection, Injection, IsInjective
<1>9. {merged[i].id : i \in DOMAIN merged} = Range(ids)
  <2>1. ASSUME NEW i \in 1 .. n PROVE merged[i].id \in Range(ids)
    BY <1>2, <1>4, <1>6 DEF Range
  <2>2. ASSUME NEW p \in 1 .. n PROVE \E i \in 1 .. n : merged[i].id = ids[p]
    <3>1. p - 1 \in 0 .. n - 1
      BY <1>2
    <3>2. PICK i \in 1 .. n : order[i] = p - 1
      BY <1>3, <3>1 DEF Bijection, Surjection
    <3>3. order[i] + 1 = p
      BY <3>2
    <3> QED BY <1>6, <3>3
  <2> QED BY <1>2, <1>7, <2>1, <2>2 DEF Range
<1> QED BY <1>6, <1>7, <1>8, <1>9 DEF MergesAsAsked

=============================================================================
