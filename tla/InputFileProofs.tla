---------------------------- MODULE InputFileProofs ----------------------------
(***************************************************************************)
(* The two passes over the input file agree as CountExact says, for files  *)
(* of any length.                                                          *)
(***************************************************************************)
EXTENDS InputFile, FiniteSetTheorems, TLAPS

(* Of the first n lines, those the first pass counts and those the second  *)
(* one stores.                                                             *)
CountedIn(n) == {l \in 1 .. n : Counted(l)}
StoredIn(n)  == {l \in 1 .. n : file[l] # "comment"}

(* In each pass, what has been counted or stored is what is to be counted  *)
(* or stored of the lines read so far.                                     *)
PassInv ==
  /\ file \in Seq(Kinds)
  /\ line \in 1 .. Len(file) + 1
  /\ pass \in {"count", "read", "done"}
  /\ processInfoArray \in Seq(Nat)
  /\ pass = "count" => /\ processCount = Cardinality(CountedIn(line - 1))
                       /\ processInfoArray = <<>>
  /\ pass # "count" => /\ processCount = Cardinality(CountedIn(Len(file)))
                       /\ Len(processInfoArray) = Cardinality(StoredIn(line - 1))
  /\ pass = "done" => line = Len(file) + 1

(* One more line.                                                          *)
LEMMA OneMore ==
  ASSUME NEW n \in Nat \ {0}
  PROVE  /\ IsFiniteSet(CountedIn(n)) /\ IsFiniteSet(StoredIn(n))
         /\ Cardinality(CountedIn(n)) =
              Cardinality(CountedIn(n - 1)) + (IF Counted(n) THEN 1 ELSE 0)
         /\ Cardinality(StoredIn(n)) =
              Cardinality(StoredIn(n - 1)) + (IF file[n] # "comment" THEN 1 ELSE 0)
<1>1. /\ IsFiniteSet(1 .. n) /\ IsFiniteSet(1 .. n - 1)
  BY FS_Interval
<1>2. /\ CountedIn(n) \subseteq 1 .. n /\ CountedIn(n - 1) \subseteq 1 .. n - 1
      /\ StoredIn(n) \subseteq 1 .. n /\ StoredIn(n - 1) \subseteq 1 .. n - 1
  BY DEF CountedIn, StoredIn
<1>3. /\ IsFiniteSet(CountedIn(n)) /\ IsFiniteSet(CountedIn(n - 1))
      /\ IsFiniteSet(StoredIn(n)) /\ IsFiniteSet(StoredIn(n - 1))
  BY <1>1, <1>2, FS_Subset
<1>4. /\ Cardinality(CountedIn(n - 1)) \in Nat /\ Cardinality(StoredIn(n - 1)) \in Nat
  BY <1>3, FS_CardinalityType
<1>5. n \notin 1 .. n - 1 /\ 1 .. n = (1 .. n - 1) \cup {n}
  OBVIOUS
<1>6. CountedIn(n) = IF Counted(n) THEN CountedIn(n - 1) \cup {n} ELSE CountedIn(n - 1)
  BY <1>5 DEF CountedIn
<1>7. StoredIn(n) = IF file[n] # "comment" THEN StoredIn(n - 1) \cup {n} ELSE StoredIn(n - 1)
  BY <1>5 DEF StoredIn
<1>8. n \notin CountedIn(n - 1) /\ n \notin StoredIn(n - 1)
  BY <1>2, <1>5
<1>9. QED
  BY <1>3, <1>4, <1>6, <1>7, <1>8, FS_AddElement

(* Nothing counted or stored before the first line.                        *)
LEMMA NoneYet == Cardinality(CountedIn(0)) = 0 /\ Cardinality(StoredIn(0)) = 0
<1>1. CountedIn(0) = {} /\ StoredIn(0) = {}
  BY DEF CountedIn, StoredIn
<1>2. QED
  BY <1>1, FS_EmptySet

-----------------------------------------------------------------------------
(* One step of the pass over the file keeps its invariant.                 *)
LEMMA StepKeeps ==
  ASSUME PassInv, [Next]_fileVars
  PROVE  PassInv'
<1>1. /\ file \in Seq(Kinds) /\ line \in 1 .. Len(file) + 1 /\ Len(file) \in Nat
      /\ processInfoArray \in Seq(Nat)
  BY DEF PassInv
<1>2. CASE CountLine
  <2>1. /\ pass = "count" /\ line <= Len(file) /\ line' = line + 1
        /\ processCount' = processCount + (IF Counted(line) THEN 1 ELSE 0)
        /\ UNCHANGED <<file, terminated, pass, processInfoArray>>
    BY <1>2 DEF CountLine
  <2>2. line \in Nat \ {0} /\ line' - 1 = line
    BY <1>1, <2>1
  <2>3. processCount' = Cardinality(CountedIn(line))
    BY <2>1, <2>2, OneMore DEF PassInv
  <2>4. CountedIn(line - 1)' = CountedIn(line)
    BY <2>1, <2>2 DEF CountedIn, Counted
  <2>5. QED
    BY <1>1, <2>1, <2>3, <2>4 DEF PassInv
<1>3. CASE Rewind
  <2>1. /\ pass = "count" /\ line > Len(file) /\ pass' = "read" /\ line' = 1
        /\ UNCHANGED <<file, terminated, processCount, processInfoArray>>
    BY <1>3 DEF Rewind
  <2>2. line - 1 = Len(file) /\ line' - 1 = 0
    BY <1>1, <2>1
  <2>3. processCount' = Cardinality(CountedIn(Len(file))) /\ processInfoArray' = <<>>
    BY <2>1, <2>2 DEF PassInv
  <2>4. CountedIn(Len(file))' = CountedIn(Len(file)) /\ StoredIn(line - 1)' = StoredIn(0)
    BY <2>1, <2>2 DEF CountedIn, StoredIn, Counted
  <2>5. Len(processInfoArray') = 0
    BY <2>3
  <2>6. QED
    BY <1>1, <2>1, <2>3, <2>4, <2>5, NoneYet DEF PassInv
<1>4. CASE SkipLine \/ StoreLine
  <2>1. /\ pass = "read" /\ line <= Len(file) /\ line' = line + 1
        /\ UNCHANGED <<file, terminated, pass, processCount>>
        /\ processInfoArray' = IF file[line] # "comment" THEN Append(processInfoArray, line)
                                                         ELSE processInfoArray
    BY <1>4 DEF SkipLine, StoreLine
  <2>2. line \in Nat \ {0} /\ line' - 1 = line
    BY <1>1, <2>1
  <2>3. /\ processInfoArray' \in Seq(Nat)
        /\ Len(processInfoArray') =
             Len(processInfoArray) + (IF file[line] # "comment" THEN 1 ELSE 0)
    BY <1>1, <2>1, <2>2
  <2>4. Len(processInfoArray') = Cardinality(StoredIn(line))
    BY <2>1, <2>2, <2>3, OneMore DEF PassInv
  <2>5. CountedIn(Len(file))' = CountedIn(Len(file)) /\ StoredIn(line - 1)' = StoredIn(line)
    BY <2>1, <2>2 DEF CountedIn, StoredIn, Counted
  <2>6. QED
    BY <1>1, <2>1, <2>3, <2>4, <2>5 DEF PassInv
<1>5. CASE Close
  <2>1. /\ pass = "read" /\ line > Len(file) /\ pass' = "done"
        /\ UNCHANGED <<file, terminated, line, processCount, processInfoArray>>
    BY <1>5 DEF Close
  <2>2. CountedIn(Len(file))' = CountedIn(Len(file)) /\ StoredIn(line - 1)' = StoredIn(line - 1)
    BY <2>1 DEF CountedIn, StoredIn, Counted
  <2>3. QED
    BY <1>1, <2>1, <2>2 DEF PassInv
<1>6. CASE Returned \/ UNCHANGED fileVars
  <2>1. UNCHANGED <<file, terminated, pass, line, processCount, processInfoArray>>
    BY <1>6 DEF Returned, fileVars
  <2>2. /\ CountedIn(Len(file))' = CountedIn(Len(file))
        /\ CountedIn(line - 1)' = CountedIn(line - 1)
        /\ StoredIn(line - 1)' = StoredIn(line - 1)
    BY <2>1 DEF CountedIn, StoredIn, Counted
  <2>3. QED
    BY <2>1, <2>2 DEF PassInv
<1>7. QED
  BY <1>2, <1>3, <1>4, <1>5, <1>6 DEF Next

(* The inductive invariant of the pass.                                    *)
THEOREM PassInvHolds == Spec => []PassInv
<1>1. Init => PassInv
  <2>1. SUFFICES ASSUME Init PROVE PassInv
    OBVIOUS
  <2>2. PICK n \in 0 .. MaxLines : file \in [1 .. n -> Kinds]
    BY <2>1 DEF Init
  <2>3. n \in Nat
    BY <2>2, FileAssumption
  <2>4. file \in Seq(Kinds) /\ Len(file) \in Nat
    BY <2>2, <2>3
  <2>5. pass = "count" /\ line = 1 /\ processCount = 0 /\ processInfoArray = <<>>
    BY <2>1 DEF Init
  <2>6. line - 1 = 0 /\ line \in 1 .. Len(file) + 1 /\ processInfoArray \in Seq(Nat)
    BY <2>4, <2>5
  <2>7. QED
    BY <2>4, <2>5, <2>6, NoneYet DEF PassInv
<1>2. PassInv /\ [Next]_fileVars => PassInv'
  BY StepKeeps
<1>3. QED
  BY <1>1, <1>2, PTL DEF Spec

(* On the files test_generator.c writes, the count that is returned is the *)
(* number of processes stored; on no file is it larger.                    *)
THEOREM CountsAgree == Spec => []CountExact
<1>1. PassInv => CountExact
  <2>1. SUFFICES ASSUME PassInv, pass = "done"
                 PROVE  /\ processCount <= Len(processInfoArray)
                        /\ Plain => processCount = Len(processInfoArray)
    BY DEF CountExact
  <2>2. /\ file \in Seq(Kinds) /\ Len(file) \in Nat /\ line - 1 = Len(file)
        /\ processCount = Cardinality(CountedIn(Len(file)))
        /\ Len(processInfoArray) = Cardinality(StoredIn(Len(file)))
    BY <2>1 DEF PassInv
  <2>3. IsFiniteSet(StoredIn(Len(file)))
    <3>1. IsFiniteSet(1 .. Len(file)) /\ StoredIn(Len(file)) \subseteq 1 .. Len(file)
      BY <2>2, FS_Interval DEF StoredIn
    <3>2. QED
      BY <3>1, FS_Subset
  <2>4. CountedIn(Len(file)) \subseteq StoredIn(Len(file))
    BY DEF CountedIn, StoredIn, Counted
  <2>5. Plain => CountedIn(Len(file)) = StoredIn(Len(file))
    <3>1. SUFFICES ASSUME Plain, NEW l \in 1 .. Len(file), file[l] # "comment"
                   PROVE  Counted(l)
      BY <2>4 DEF CountedIn, StoredIn
    <3>2. file[l] \in Kinds /\ l \in DOMAIN file
      BY <2>2, <3>1
    <3>3. QED
      BY <3>1, <3>2 DEF Plain, Kinds, Counted
  <2>6. QED
    BY <2>2, <2>3, <2>4, <2>5, FS_Subset
<1>2. QED
  BY <1>1, PassInvHolds, PTL

===============================================================================
