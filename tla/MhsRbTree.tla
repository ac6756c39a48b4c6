----------------------------- MODULE MhsRbTree -----------------------------
(***************************************************************************)
(* The holes of a file (ft/serialize/rbtree_mhs.cc) and the allocator that *)
(* cuts blocks from them (ft/serialize/block_allocator.cc): a red-black    *)
(* tree ordered by offset, in which each node keeps the largest hole, after*)
(* alignment, of its left and of its right subtree.  The last hole has no  *)
(* end: MHS_MAX_VAL, with the saturating arithmetic of OUUInt64; align     *)
(* computes modulo MHS_MAX_VAL + 1.                                        *)
(***************************************************************************)
EXTENDS Integers, Sequences, FiniteSets, FiniteSetsExt, SequencesExt

CONSTANTS
  MHS_MAX_VAL,       \* 2^64 - 1 in the code
  _align,            \* the alignment of a block
  _reserve,          \* what the headers take at the beginning of the file
  BlockSizes,        \* the sizes asked for
  InitialPairs,      \* sets of <<offset, size>>: the blocks a file is opened with
  MaxBlocks          \* bound on the blocks at a time

VARIABLE mhs         \* tree, blocks in use, and the last allocation with its reference

Nil == 0
Other(s) == IF s = "l" THEN "r" ELSE "l"
Plus(a, b) == IF a = MHS_MAX_VAL \/ b = MHS_MAX_VAL THEN MHS_MAX_VAL ELSE a + b
Minus(a, b) == IF a = MHS_MAX_VAL THEN a ELSE a - b
align(v) == (((v + _align - 1) % (MHS_MAX_VAL + 1)) \div _align) * _align

\* A tree: its root and its nodes, numbered in no particular order.
Empty == [root |-> Nil, nd |-> <<>>]
NewNode(p, y) == [red |-> TRUE, off |-> p[1], size |-> p[2], mhs |-> [l |-> 0, r |-> 0],
                  kid |-> [l |-> Nil, r |-> Nil], par |-> y]
Live(T) == {n \in DOMAIN T.nd : T.nd[n].par # -1}
IsRed(T, n) == n # Nil /\ T.nd[n].red
EffectiveSize(x) ==
  IF align(x.off) > Plus(x.off, x.size) THEN 0 ELSE Minus(Plus(x.off, x.size), align(x.off))
mhs_of_subtree(x) == Max({x.mhs.l, x.mhs.r, EffectiveSize(x)})
SetMhs(T, n, s, m) == [T EXCEPT !.nd[n].mhs[s] = m]
SetRed(T, n, c) == [T EXCEPT !.nd[n].red = c]
SetHole(T, n, off, size) == [T EXCEPT !.nd[n].off = off, !.nd[n].size = size]
SideIn(T, n, p) == IF T.nd[p].kid.l = n THEN "l" ELSE "r"

\* What hangs from x's parent hangs from y instead.
Replace(T, x, y) ==
  IF T.nd[x].par = Nil THEN [T EXCEPT !.root = y]
  ELSE [T EXCEPT !.nd[T.nd[x].par].kid[SideIn(T, x, T.nd[x].par)] = y]
SetKid(T, p, s, c) == IF c = Nil THEN [T EXCEPT !.nd[p].kid[s] = Nil]
                      ELSE [T EXCEPT !.nd[p].kid[s] = c, !.nd[c].par = p]
Delete(T, n) == [T EXCEPT !.nd[n].par = -1]

RECURSIVE RecalculateMhs(_, _)
RecalculateMhs(T, n) ==
  LET p == T.nd[n].par
      s == SideIn(T, n, p)
      m == mhs_of_subtree(T.nd[n])
  IN  IF p = Nil \/ n \notin {T.nd[p].kid.l, T.nd[p].kid.r} \/ T.nd[p].mhs[s] = m THEN T
      ELSE RecalculateMhs(SetMhs(T, p, s, m), p)

\* LeftRotate for s = "l", RightRotate for s = "r".
RotateXY(T, s, x, y) ==
  SetKid(SetMhs(SetKid([Replace(T, x, y) EXCEPT !.nd[y].par = T.nd[x].par],
                       x, Other(s), T.nd[y].kid[s]),
                x, Other(s), T.nd[y].mhs[s]), y, s, x)
\* Mutant: the label of the node that comes up is not computed again.
RotateMhsMut(T, s, x, y) == T
RotateMhs(T, s, x, y) == SetMhs(T, y, s, mhs_of_subtree(T.nd[x]))
Rotate(T, s, x) == RotateMhs(RotateXY(T, s, x, T.nd[x].kid[Other(s)]), s, x, T.nd[x].kid[Other(s)])

RECURSIVE MinNode(_, _)
MinNode(T, n) == IF T.nd[n].kid.l = Nil THEN n ELSE MinNode(T, T.nd[n].kid.l)
\* SuccessorHelper for s = "r", PredecessorHelper for s = "l".
RECURSIVE Climb(_, _, _, _)
Climb(T, y, x, s) ==
  IF y # Nil /\ x = T.nd[y].kid[s] THEN Climb(T, T.nd[y].par, y, s) ELSE y

-----------------------------------------------------------------------------
RECURSIVE InsertFixup(_, _)
InsertFixupOuter(T, g, p, s) ==
  Rotate(SetRed(SetRed(T, p, FALSE), g, TRUE), Other(s), g)
InsertFixup(T, n) ==
  LET p == T.nd[n].par
      g == T.nd[p].par
      s == SideIn(T, p, g)
      u == T.nd[g].kid[Other(s)]
  IN  CASE ~IsRed(T, p) -> SetRed(T, T.root, FALSE)
        [] IsRed(T, p) /\ IsRed(T, u) ->
             InsertFixup(SetRed(SetRed(SetRed(T, u, FALSE), p, FALSE), g, TRUE), g)
        [] IsRed(T, p) /\ ~IsRed(T, u) ->
             IF T.nd[p].kid[Other(s)] = n
             THEN InsertFixup(InsertFixupOuter(Rotate(T, s, p), g, n, s), p)
             ELSE InsertFixup(InsertFixupOuter(T, g, p, s), n)

Blacken(T, n) == IF n = Nil THEN T ELSE SetRed(T, n, FALSE)
\* The brother is black, and so is his outer child (case 3) or not (case 4).
FixupCase4(T, p, s, w) ==
  Rotate(SetRed(SetRed(SetRed(T, w, T.nd[p].red), p, FALSE), T.nd[w].kid[Other(s)], FALSE), s, p)
FixupCase3(T, s, w) ==
  Rotate(SetRed(SetRed(T, T.nd[w].kid[s], FALSE), w, TRUE), Other(s), w)
RECURSIVE RawRemoveFixup(_, _, _)
RECURSIVE RawRemoveFixupBlack(_, _, _)
\* The brother is black.
RawRemoveFixupBlack(T, p, s) ==
  LET o == Other(s)
      w == T.nd[p].kid[o]
      c == FixupCase3(T, s, w)
      d == IF IsRed(T, T.nd[w].kid[o]) THEN FixupCase4(T, p, s, w)
           ELSE FixupCase4(c, p, s, c.nd[p].kid[o])
  IN  IF ~IsRed(T, T.nd[w].kid.l) /\ ~IsRed(T, T.nd[w].kid.r)
      THEN RawRemoveFixup(SetRed(T, w, TRUE), p, T.nd[p].par)
      ELSE SetRed(d, d.root, FALSE)
RawRemoveFixup(T, n, p) ==
  IF IsRed(T, n) \/ n = T.root THEN Blacken(T, n)
  ELSE LET s == SideIn(T, n, p)
           w == T.nd[p].kid[Other(s)]
       IN  IF IsRed(T, w)
           THEN RawRemoveFixupBlack(Rotate(SetRed(SetRed(T, w, FALSE), p, TRUE), s, p), p, s)
           ELSE RawRemoveFixupBlack(T, p, s)

FixupIfBlack(T, red, n, p) == IF red THEN T ELSE RawRemoveFixup(T, n, p)
\* The successor rep is taken from its parent p, when that is not the node removed.
DetachReplace(T, n, rep, p) ==
  IF p = n THEN T
  ELSE RecalculateMhs(SetMhs(SetKid(T, p, "l", T.nd[rep].kid.r), p, "l", T.nd[rep].mhs.r), p)
MoveRight(T, n, rep, p) ==
  IF p = n THEN T
  ELSE SetMhs(SetKid(T, rep, "r", T.nd[n].kid.r), rep, "r", T.nd[n].mhs.r)
PutReplace(T, n, rep) ==
  RecalculateMhs([SetMhs(SetKid(T, rep, "l", T.nd[n].kid.l), rep, "l", T.nd[n].mhs.l)
                    EXCEPT !.nd[rep].par = T.nd[n].par, !.nd[rep].red = T.nd[n].red], rep)
RemoveInner(T, n, rep) ==
  LET p == T.nd[rep].par IN
  FixupIfBlack(PutReplace(MoveRight(DetachReplace(Replace(T, n, rep), n, rep, p), n, rep, p), n, rep),
               T.nd[rep].red, T.nd[rep].kid.r, IF p = n THEN rep ELSE p)
Relabel(T, p, s, c) ==
  RecalculateMhs(SetMhs(T, p, s, IF c = Nil THEN 0 ELSE mhs_of_subtree(T.nd[c])), p)
RemoveOuter(T, n, c) ==
  LET p == T.nd[n].par
      s == SideIn(T, n, p)
  IN  FixupIfBlack(IF p = Nil
                   THEN [T EXCEPT !.root = c,
                                  !.nd = [m \in DOMAIN @ |-> IF m = c THEN [@[m] EXCEPT !.par = Nil] ELSE @[m]]]
                   ELSE Relabel(SetKid(T, p, s, c), p, s, c),
                   T.nd[n].red, c, p)
RawRemove(T, n) ==
  LET k == T.nd[n].kid IN
  Delete(IF k.l # Nil /\ k.r # Nil THEN RemoveInner(T, n, MinNode(T, k.r))
         ELSE RemoveOuter(T, n, IF k.l # Nil THEN k.l ELSE k.r), n)

-----------------------------------------------------------------------------
End(T, n) == Plus(T.nd[n].off, T.nd[n].size)
\* AbsorbNewNode: the hole grows a neighbour, or joins both and one of them goes.
JoinInto(T, keep, off, size, gone) ==
  RawRemove(RecalculateMhs(RecalculateMhs(
    SetHole(SetHole(T, keep, off, size), gone, Plus(off, size), 0), gone), keep), gone)
AbsorbNewNode(T, pred, succ, p, lm, rm, isRight) ==
  CASE lm /\ rm ->
         JoinInto(T, IF isRight THEN succ ELSE pred, T.nd[pred].off,
                  Plus(Plus(T.nd[pred].size, p[2]), T.nd[succ].size),
                  IF isRight THEN pred ELSE succ)
    [] lm /\ ~rm -> RecalculateMhs(
         SetHole(T, pred, T.nd[pred].off, Plus(T.nd[pred].size, p[2])), pred)
    [] ~lm /\ rm -> RecalculateMhs(
         SetHole(T, succ, Minus(T.nd[succ].off, p[2]), Plus(T.nd[succ].size, p[2])), succ)
RECURSIVE InsertPlace(_, _, _, _)
InsertPlace(T, off, x, y) ==
  IF x = Nil THEN y
  ELSE InsertPlace(T, off, T.nd[x].kid[IF off < T.nd[x].off THEN "l" ELSE "r"], x)
FreeId(T) == Min((1 .. Len(T.nd) + 1) \ Live(T))
AddNode(T, n, p, y, s) ==
  InsertFixup(RecalculateMhs(
    [root |-> T.root,
     nd |-> [m \in 1 .. Max({n, Len(T.nd)}) |->
               CASE m = n -> NewNode(p, y)
                 [] m = y -> [T.nd[m] EXCEPT !.kid[s] = n]
                 [] OTHER -> T.nd[m]]], n), n)
Insert(T, p) ==
  LET y    == InsertPlace(T, p[1], T.root, Nil)
      s    == IF p[1] < T.nd[y].off THEN "l" ELSE "r"
      pred == IF s = "r" THEN y ELSE Climb(T, T.nd[y].par, y, "l")
      succ == IF s = "l" THEN y ELSE Climb(T, T.nd[y].par, y, "r")
      lm   == pred # Nil /\ ~(End(T, pred) < p[1])
      rm   == succ # Nil /\ ~(Plus(p[1], p[2]) < T.nd[succ].off)
  IN  CASE T.root = Nil -> [root |-> 1, nd |-> <<[NewNode(p, Nil) EXCEPT !.red = FALSE]>>]
        [] T.root # Nil /\ (lm \/ rm) -> AbsorbNewNode(T, pred, succ, p, lm, rm, s = "r")
        [] OTHER -> AddNode(T, FreeId(T), p, y, s)

\* Mutant: the size of a hole is taken for what can be used of it.
FitsMut(T, n, size) == T.nd[n].size >= size
Fits(T, n, size) == EffectiveSize(T.nd[n]) >= size
RECURSIVE SearchFirstFitBySizeHelper(_, _, _)
SearchFirstFitBySizeHelper(T, n, size) ==
  IF T.nd[n].mhs.l >= size THEN SearchFirstFitBySizeHelper(T, T.nd[n].kid.l, size)
  ELSE IF Fits(T, n, size) THEN n
  ELSE SearchFirstFitBySizeHelper(T, T.nd[n].kid.r, size)

\* Tree::Remove: the block is cut from the beginning, the end or the middle.
RemoveFrom(T, n, size, at) ==
  LET x == T.nd[n]
      cut == RecalculateMhs(SetHole(T, n, Plus(x.off, size), Minus(x.size, size)), n)
  IN  CASE at = x.off -> IF cut.nd[n].size = 0 THEN RawRemove(cut, n) ELSE cut
        [] at # x.off /\ at + size = End(T, n) ->
             RecalculateMhs(SetHole(T, n, x.off, x.size - size), n)
        [] OTHER -> Insert(RecalculateMhs(SetHole(T, n, x.off, at - x.off), n),
                           <<at + size, Minus(End(T, n), at + size)>>)

\* The nodes numbered in the order of their offsets, for one value per tree.
Numbered(T) ==
  LET L == Live(T)
      no(n) == IF n = Nil THEN Nil ELSE Cardinality({m \in L : T.nd[m].off <= T.nd[n].off})
      at(i) == CHOOSE n \in L : no(n) = i
  IN  [root |-> no(T.root),
       nd |-> [i \in 1 .. Cardinality(L) |->
                 [T.nd[at(i)] EXCEPT !.par = no(@),
                    !.kid = [l |-> no(@.l), r |-> no(@.r)]]]]

-----------------------------------------------------------------------------
\* The reference: the least aligned place that no block touches.
Reference(blocks, size) ==
  Min({a \in {k * _align : k \in 0 .. MHS_MAX_VAL \div (2 * _align)} :
         /\ a >= _reserve
         /\ \A b \in blocks : a + size <= b[1] \/ b[1] + b[2] <= a})

\* BlockAllocator::CreateFromBlockPairs, and Create for a file without blocks.
Sorted(pairs) == SortSeq(SetToSeq(pairs), LAMBDA a, b : a[1] < b[1])
CreateFromBlockPairs(pairs) ==
  LET s == Sorted(pairs)
      after(i) == s[i][1] + s[i][2]
      gaps == [i \in 1 .. Len(s) |->
                 <<after(i), IF i < Len(s) THEN s[i + 1][1] - after(i) ELSE MHS_MAX_VAL>>]
      first == <<<<_reserve, IF s = <<>> THEN MHS_MAX_VAL ELSE s[1][1] - _reserve>>>>
  IN  FoldLeft(Insert, Empty, SelectSeq(first \o gaps, LAMBDA p : p[2] > 0))
MhsInit == \E pairs \in InitialPairs :
  mhs = [tree |-> Numbered(CreateFromBlockPairs(pairs)), blocks |-> pairs,
         got |-> 0, want |-> 0]

AllocBlock(size) ==
  /\ Cardinality(mhs.blocks) < MaxBlocks
  /\ \E n \in {SearchFirstFitBySizeHelper(mhs.tree, mhs.tree.root, size)} :
     \E a \in {align(mhs.tree.nd[n].off)} :
       mhs' = [tree |-> Numbered(RemoveFrom(mhs.tree, n, size, a)),
               blocks |-> mhs.blocks \union {<<a, size>>},
               got |-> a, want |-> Reference(mhs.blocks, size)]
FreeBlock(b) ==
  mhs' = [mhs EXCEPT !.tree = Numbered(Insert(@, b)), !.blocks = @ \ {b},
                     !.got = 0, !.want = 0]
MhsNext == (\E size \in BlockSizes : AllocBlock(size)) \/ (\E b \in mhs.blocks : FreeBlock(b))

-----------------------------------------------------------------------------
RECURSIVE ValidateMhs(_, _)
ValidateMhs(T, n) ==
  \/ n = Nil
  \/ LET k == T.nd[n].kid IN
     /\ \A s \in {"l", "r"} :
          /\ T.nd[n].mhs[s] = IF k[s] = Nil THEN 0 ELSE mhs_of_subtree(T.nd[k[s]])
          /\ k[s] # Nil => T.nd[k[s]].par = n /\ (T.nd[n].red => ~T.nd[k[s]].red)
          /\ ValidateMhs(T, k[s])
RECURSIVE BlackHeights(_, _)
BlackHeights(T, n) ==
  IF n = Nil THEN {0}
  ELSE {h + (IF T.nd[n].red THEN 0 ELSE 1) :
          h \in BlackHeights(T, T.nd[n].kid.l) \union BlackHeights(T, T.nd[n].kid.r)}

\* The holes and the blocks share the file out between them, no two holes touch,
\* every label is the largest hole below it and the tree is balanced, whatever was
\* cut, freed, joined and rotated (BlockAllocator::Validate).
AllocatorValid ==
  LET T == mhs.tree
      hole(n) == {<<"hole", T.nd[n].off, End(T, n)>>}
      parts == UNION {hole(n) : n \in DOMAIN T.nd}
                 \union {<<"block", b[1], b[1] + b[2]>> : b \in mhs.blocks}
  IN  /\ \A x \in parts : \/ x[3] = MHS_MAX_VAL
                          \/ \E y \in parts : y[2] = x[3] /\ ~(x[1] = "hole" /\ y[1] = "hole")
      /\ \A x, y \in parts : x = y \/ x[3] <= y[2] \/ y[3] <= x[2]
      /\ \A x \in parts : x[2] < x[3] /\ x[2] >= _reserve
      /\ \E x \in parts : x[2] = _reserve
      /\ ValidateMhs(T, T.root) /\ Cardinality(BlackHeights(T, T.root)) = 1
      /\ \A n \in 1 .. Len(T.nd) - 1 : T.nd[n].off < T.nd[n + 1].off

\* A block is given the first aligned place of the file where it fits: the labels
\* lead the search to it (Tree::Remove, SearchFirstFitBySize).
FirstFit == mhs.got = mhs.want
=============================================================================
