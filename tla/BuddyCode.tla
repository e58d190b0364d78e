------------------------------ MODULE BuddyCode ------------------------------
(***************************************************************************)
(* The allocator's functions in the shape the code gives them: the bit     *)
(* trick of nextPowerOf2, the recursive descent of allocateTree, the loop  *)
(* of allocateRoot and the recursive climb of Deallocate_.  BuddyTree      *)
(* states what they compute without recursion; this module is where TLC    *)
(* compares the two on every tree the allocator can reach.                 *)
(***************************************************************************)
EXTENDS BuddyAllocator, Bitwise, Sequences

(* unsigned int, cut to Width bits: enough for every size up to MemorySize *)
(* and for the wrap-around of n-- at zero.                                 *)
Width == 10
U(x) == x % 2^Width

(* Slip: n is not decremented first.                                       *)
nextPowerAbove(n) ==
  LET m0 == U(n)
      m1 == m0 | shiftR(m0, 1)
      m2 == m1 | shiftR(m1, 2)
      m3 == m2 | shiftR(m2, 4)
  IN  U((m3 | shiftR(m3, 8)) + 1)

nextPowerOf2(n) ==
  LET m0 == U(n - 1)
      m1 == m0 | shiftR(m0, 1)
      m2 == m1 | shiftR(m1, 2)
      m3 == m2 | shiftR(m2, 4)
      m4 == m3 | shiftR(m3, 8)
  IN  U(m4 + 1)

(* The nodes allocateRoot links in, c first, the block handed out last.    *)
RECURSIVE allocateRoot(_, _)
allocateRoot(size, c) ==
  IF data(c) > size THEN <<c>> \o allocateRoot(size, Left(c)) ELSE <<c>>

(* The nodes the descent adds below n for a block of the given size, the   *)
(* block last; <<>> stands for the NULL the code returns.                  *)
RECURSIVE allocateTree(_, _, _)
allocateTree(t, n, size) ==
  LET l == Left(n)
      r == Right(n)
      below(c, other) == LET got == allocateTree(t, c, size)
                         IN IF got # <<>> THEN got ELSE other
  IN IF n \notin t \/ (l \notin t /\ r \notin t) THEN <<>>
     ELSE IF data(n) = 2 * size
     THEN IF l \notin t THEN <<l>> ELSE IF r \notin t THEN <<r>> ELSE <<>>
     ELSE IF data(n) < 2 * size THEN <<>>
     ELSE IF l \notin t THEN below(r, allocateRoot(size, l))
     ELSE IF r \notin t THEN below(l, allocateRoot(size, r))
     ELSE below(l, allocateTree(t, r, size))

AllocateCode(t, size) ==
  LET blockSize == nextPowerOf2(size)
  IN IF t # {} THEN allocateTree(t, Root, blockSize)
     ELSE IF MemorySize > blockSize
          THEN <<Root>> \o allocateRoot(blockSize, Left(Root))
          ELSE <<Root>>

(* The nodes left when Deallocate_ has climbed from n as far as it goes.   *)
RECURSIVE DeallocateCode(_, _)
DeallocateCode(t, n) ==
  IF IsInternal(t, n) THEN t
  ELSE LET parents == {p \in t : n \in {Left(p), Right(p)}}
       IN IF parents = {} THEN t \ {n}
          ELSE DeallocateCode(t \ {n}, CHOOSE p \in parents : TRUE)

-----------------------------------------------------------------------------
(* On every reachable tree and for every request, the descent of           *)
(* allocateTree grows the tree by the nodes, and hands out the block, that *)
(* BuddyTree's first spot gives, and returns NULL exactly when there is    *)
(* none; and the climb of Deallocate_ from any allocated leaf leaves       *)
(* exactly the nodes that BuddyTree keeps.                                 *)
CodeAgrees ==
  /\ \A size \in 0 .. MemorySize :
       LET code == AllocateCode(tree, size)
       IN Allocate(tree, size) =
            IF code = <<>> THEN {}
            ELSE {[block |-> code[Len(code)],
                   tree  |-> tree \cup {code[i] : i \in 1 .. Len(code)}]}
  /\ \A n \in Leaves(tree) : DeallocateCode(tree, n) = Deallocate(tree, n)

=============================================================================
