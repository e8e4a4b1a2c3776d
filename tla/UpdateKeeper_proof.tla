------------------------- MODULE UpdateKeeper_proof -------------------------
(***************************************************************************)
(* What the operations of a keeper return, for every border, container and *)
(* copy: the lemmas that the proofs about its users rest on.               *)
(***************************************************************************)
EXTENDS UpdateCropping, TLAPS

(* The containers a keeper may be given. *)
Containers == [changed : SUBSET Int, copied : SUBSET Int, delta : Int,
               size : BOOLEAN, cursor : BOOLEAN]

Pending(k) == k.box.changed \cup k.box.copied

(* A pending copy reads pixels the border holds. *)
SourceOnClient(k) == Translate(k.box.copied, k.box.delta) \subseteq Area

(* A copy onto pixels of the border has at least one whose source is in    *)
(* the border too: addCopyRect does not return before it repaints the      *)
(* others.                                                                 *)
SourceIsSeen(T, d) ==
  T \cap Area # {} => \E p \in T \cap Area : p + d \in Area

-----------------------------------------------------------------------------
LEMMA TranslateIsInt ==
  ASSUME NEW R \in SUBSET Int, NEW d \in Int
  PROVE  /\ Translate(R, d) \in SUBSET Int
         /\ \A p \in Int : p \in Translate(R, d) <=> p - d \in R
BY DEF Translate

(* Translating there and back gives the same region. *)
LEMMA TranslateInverse ==
  ASSUME NEW R \in SUBSET Int, NEW d \in Int
  PROVE  Translate(Translate(R, d), -d) = R
<1> DEFINE T == Translate(R, d)
<1>1. T \in SUBSET Int /\ \A p \in Int : p \in T <=> p - d \in R
  BY TranslateIsInt
<1>2. /\ Translate(T, -d) \in SUBSET Int
      /\ \A p \in Int : p \in Translate(T, -d) <=> p - (-d) \in T
  <2>1. -d \in Int
    OBVIOUS
  <2> HIDE DEF T
  <2> QED BY <1>1, <2>1, TranslateIsInt
<1> HIDE DEF T
<1>3. \A p \in Int : p \in Translate(T, -d) <=> p \in R
  <2> TAKE p \in Int
  <2>1. p - (-d) \in Int /\ (p - (-d)) - d = p
    OBVIOUS
  <2> QED BY <1>1, <1>2, <2>1
<1> QED BY <1>2, <1>3 DEF T

LEMMA AddChangedRegionFields ==
  ASSUME NEW k \in Keepers, NEW R
  PROVE  /\ AddChangedRegion(k, R) \in Keepers
         /\ AddChangedRegion(k, R).box.changed = (k.box.changed \cup R) \cap Area
         /\ AddChangedRegion(k, R).box.copied = k.box.copied
         /\ AddChangedRegion(k, R).box.delta = k.box.delta
         /\ AddChangedRegion(k, R).box.size = k.box.size
BY DEF AddChangedRegion, Keepers, Boxes

LEMMA GiveUpCopyFields ==
  ASSUME NEW k \in Keepers, NEW T
  PROVE  /\ GiveUpCopy(k, T) \in Keepers
         /\ GiveUpCopy(k, T).box.changed = (Pending(k) \cup T) \cap Area
         /\ GiveUpCopy(k, T).box.copied = {}
BY DEF GiveUpCopy, AddChangedRegion, Keepers, Boxes, Pending

LEMMA StartCopyCopies ==
  ASSUME NEW k \in Keepers, NEW C \in SUBSET Area, NEW d \in Int
  PROVE  /\ StartCopy(k, C, d) \in Keepers
         /\ StartCopy(k, C, d).box.copied = C
         /\ StartCopy(k, C, d).box.delta = d
BY DEF StartCopy, Keepers, Boxes

LEMMA StartCopyRepaints ==
  ASSUME NEW k \in Keepers, NEW C \in SUBSET Area, NEW d \in Int
  PROVE  /\ k.box.changed \subseteq StartCopy(k, C, d).box.changed \cup C
         /\ StartCopy(k, C, d).box.changed =
              ((k.box.changed \ C)
                \cup Translate(Translate(C, d) \cap (k.box.changed \ C), -d)) \cap Area
BY DEF StartCopy, Keepers, Boxes

(* What is left of a copy's target after clipping: the pixels of the       *)
(* border whose source is in the border.                                   *)
LEMMA ClippedTargetFields ==
  ASSUME NEW k \in Keepers, NEW T \in SUBSET Int, NEW d \in Int
  PROVE  /\ ClippedTarget(k, T, d) \in SUBSET Area
         /\ Translate(ClippedTarget(k, T, d), d) \in SUBSET Area
         /\ \A p \in Int : p \in ClippedTarget(k, T, d) <=> p \in T \cap Area /\ p + d \in Area
<1> DEFINE S == Translate(T \cap Area, d)
<1>1. ClippedTarget(k, T, d) = Translate(S \cap Area, -d)
  BY DEF ClippedTarget, Keepers
<1>2. /\ S \in SUBSET Int
      /\ \A p \in Int : p \in S <=> p - d \in T \cap Area
  BY TranslateIsInt
<1>3. /\ Translate(S \cap Area, -d) \in SUBSET Int
      /\ \A p \in Int : p \in Translate(S \cap Area, -d) <=> p - (-d) \in S \cap Area
  <2> DEFINE e == -d
             I == S \cap Area
  <2> HIDE DEF S
  <2>1. e \in Int /\ I \in SUBSET Int
    BY <1>2, AreaAssumption
  <2> HIDE DEF e, I
  <2>2. /\ Translate(I, e) \in SUBSET Int
        /\ \A p \in Int : p \in Translate(I, e) <=> p - e \in I
    BY <2>1, TranslateIsInt
  <2> QED BY <2>2 DEF e, I
<1>4. Translate(S \cap Area, -d) \in SUBSET Area
  <2> HIDE DEF S
  <2> SUFFICES ASSUME NEW p \in Translate(S \cap Area, -d) PROVE p \in Area
    OBVIOUS
  <2>1. p \in Int
    BY <1>3
  <2>2. p - (-d) \in Int /\ (p - (-d)) - d = p
    BY <2>1
  <2>3. p - (-d) \in S
    BY <1>3, <2>1
  <2>4. (p - (-d)) - d \in Area
    BY <1>2, <2>2, <2>3
  <2> QED BY <2>2, <2>4
<1>6. Translate(Translate(S \cap Area, -d), d) = S \cap Area
  <2> DEFINE e == -d
             I == S \cap Area
  <2>1. e \in Int /\ I \in SUBSET Int
    BY <1>2
  <2>2. -e = d
    OBVIOUS
  <2>3. Translate(Translate(I, e), -e) = I
    <3> HIDE DEF e, I
    <3> QED BY <2>1, TranslateInverse
  <2> QED BY <2>2, <2>3
<1>5. ASSUME NEW p \in Int
      PROVE  p \in Translate(S \cap Area, -d) <=> p \in T \cap Area /\ p + d \in Area
  <2>1. p - (-d) = p + d /\ p + d \in Int /\ (p + d) - d = p
    OBVIOUS
  <2> HIDE DEF S
  <2> QED BY <1>2, <1>3, <2>1
<1> QED BY <1>1, <1>4, <1>5, <1>6

LEMMA AddCopyRectType ==
  ASSUME NEW k \in Keepers, NEW T \in SUBSET Int, NEW d \in Int
  PROVE  AddCopyRect(k, T, d) \in Keepers
<1> DEFINE C == ClippedTarget(k, T, d)
           kept == AddChangedRegion(k, T \ C)
<1>1. C \in SUBSET Area
  BY ClippedTargetFields
<1>2. kept \in Keepers
  BY AddChangedRegionFields
<1>3. GiveUpCopy(kept, T) \in Keepers
  <2> HIDE DEF kept
  <2> QED BY <1>2, GiveUpCopyFields
<1>4. StartCopy(kept, C, d) \in Keepers
  <2> HIDE DEF kept, C
  <2> QED BY <1>1, <1>2, StartCopyCopies
<1> QED BY <1>3, <1>4 DEF AddCopyRect

LEMMA AddNoCopyRect ==
  ASSUME NEW k \in Keepers, NEW d \in Int
  PROVE  AddCopyRect(k, {}, d) = k
<1>1. ClippedTarget(k, {}, d) = {}
  BY DEF ClippedTarget, Translate
<1> QED BY <1>1 DEF AddCopyRect

LEMMA AddUpdateContainerFields ==
  ASSUME NEW k \in Keepers, NEW b \in Containers,
         NEW M, M = AddCopyRect(k, b.copied, b.delta)
  PROVE  /\ AddUpdateContainer(k, b) \in Keepers
         /\ M \in Keepers
         /\ AddUpdateContainer(k, b).box.changed = (M.box.changed \cup b.changed) \cap Area
         /\ AddUpdateContainer(k, b).box.copied = M.box.copied
         /\ AddUpdateContainer(k, b).box.delta = M.box.delta
<1>1. M \in Keepers
  <2>1. b.copied \in SUBSET Int /\ b.delta \in Int
    BY DEF Containers
  <2> QED BY <2>1, AddCopyRectType
<1> DEFINE N == AddChangedRegion(M, b.changed)
<1>2. /\ N \in Keepers
      /\ N.box.changed = (M.box.changed \cup b.changed) \cap Area
      /\ N.box.copied = M.box.copied
      /\ N.box.delta = M.box.delta
  BY <1>1, AddChangedRegionFields
<1>3. AddUpdateContainer(k, b) =
        SetCursorChanged(IF b.size THEN SetScreenSizeChanged(N) ELSE N)
  BY DEF AddUpdateContainer
<1> HIDE DEF N
<1> DEFINE Q == IF b.size THEN SetScreenSizeChanged(N) ELSE N
<1>4. /\ Q \in Keepers
      /\ Q.box.changed = N.box.changed
      /\ Q.box.copied = N.box.copied
      /\ Q.box.delta = N.box.delta
  BY <1>2 DEF SetScreenSizeChanged, Keepers, Boxes
<1>5. AddUpdateContainer(k, b) = SetCursorChanged(Q)
  BY <1>3
<1> HIDE DEF Q
<1>6. /\ SetCursorChanged(Q) \in Keepers
      /\ SetCursorChanged(Q).box.changed = Q.box.changed
      /\ SetCursorChanged(Q).box.copied = Q.box.copied
      /\ SetCursorChanged(Q).box.delta = Q.box.delta
  BY <1>4 DEF SetCursorChanged, Keepers, Boxes
<1> QED BY <1>1, <1>2, <1>4, <1>5, <1>6
LEMMA NoCopyNoSource ==
  ASSUME NEW k, k.box.copied = {}
  PROVE  SourceOnClient(k)
BY DEF SourceOnClient, Translate

LEMMA AddCopyRectSource ==
  ASSUME NEW k \in Keepers, NEW T \in SUBSET Int, NEW d \in Int,
         SourceOnClient(k)
  PROVE  SourceOnClient(AddCopyRect(k, T, d))
<1> DEFINE C == ClippedTarget(k, T, d)
           kept == AddChangedRegion(k, T \ C)
<1>1. C \in SUBSET Area /\ Translate(C, d) \in SUBSET Area
  BY ClippedTargetFields
<1>2. kept \in Keepers
  BY AddChangedRegionFields
<1>3. SourceOnClient(GiveUpCopy(kept, T))
  <2> HIDE DEF kept
  <2>1. GiveUpCopy(kept, T).box.copied = {}
    BY <1>2, GiveUpCopyFields
  <2> QED BY <2>1 DEF SourceOnClient, Translate
<1>4. SourceOnClient(StartCopy(kept, C, d))
  <2> HIDE DEF kept, C
  <2>1. C \in SUBSET Area /\ kept \in Keepers
    BY <1>1, <1>2
  <2>2. StartCopy(kept, C, d).box.copied = C /\ StartCopy(kept, C, d).box.delta = d
    BY <2>1, StartCopyCopies
  <2> QED BY <1>1, <2>2 DEF SourceOnClient
<1> QED BY <1>3, <1>4 DEF AddCopyRect

(* Whatever is pending, and whatever a container brings, is pending after  *)
(* the container was merged, as a repaint or as a copy.                    *)
LEMMA MergingKeepsPending ==
  ASSUME NEW k \in Keepers, NEW b \in Containers, SourceIsSeen(b.copied, b.delta)
  PROVE  Pending(k) \cup (b.copied \cap Area) \cup (b.changed \cap Area)
           \subseteq Pending(AddUpdateContainer(k, b))
<1> DEFINE M == AddCopyRect(k, b.copied, b.delta)
           C == ClippedTarget(k, b.copied, b.delta)
           kept == AddChangedRegion(k, b.copied \ C)
<1>1. b.delta \in Int /\ b.copied \in SUBSET Int
  BY DEF Containers
<1>2. Pending(k) \subseteq Area
  BY DEF Pending, Keepers, Boxes
<1>7. C \in SUBSET Area /\ \A p \in Int : p \in C <=> p \in b.copied \cap Area /\ p + b.delta \in Area
  BY <1>1, ClippedTargetFields
<1>8. /\ kept \in Keepers /\ kept.box.copied = k.box.copied
      /\ kept.box.changed = (k.box.changed \cup (b.copied \ C)) \cap Area
  BY AddChangedRegionFields
<1>9. M = IF C = {} THEN k ELSE IF k.box.copied # {} THEN GiveUpCopy(kept, b.copied)
                                                  ELSE StartCopy(kept, C, b.delta)
  BY DEF AddCopyRect
<1>3. Pending(k) \cup (b.copied \cap Area) \subseteq Pending(M)
  <2> HIDE DEF M, C, kept
  <2>1. CASE C = {}
    <3>1. b.copied \cap Area = {}
      BY <1>7, <2>1, AreaAssumption DEF SourceIsSeen
    <3> QED BY <1>9, <2>1, <3>1
  <2>2. CASE C # {} /\ k.box.copied # {}
    <3>1. GiveUpCopy(kept, b.copied).box.changed = (Pending(kept) \cup b.copied) \cap Area
      BY <1>8, GiveUpCopyFields
    <3> QED BY <1>2, <1>8, <1>9, <2>2, <3>1 DEF Pending
  <2>3. CASE C # {} /\ k.box.copied = {}
    <3>1. StartCopy(kept, C, b.delta).box.copied = C
      BY <1>1, <1>7, <1>8, StartCopyCopies
    <3>2. kept.box.changed \subseteq StartCopy(kept, C, b.delta).box.changed \cup C
      BY <1>1, <1>7, <1>8, StartCopyRepaints
    <3> QED BY <1>2, <1>8, <1>9, <2>3, <3>1, <3>2 DEF Pending
  <2> QED BY <2>1, <2>2, <2>3
<1>4. M \in Keepers
  BY <1>1, AddCopyRectType
<1> HIDE DEF M
<1>5. /\ AddUpdateContainer(k, b).box.changed = (M.box.changed \cup b.changed) \cap Area
      /\ AddUpdateContainer(k, b).box.copied = M.box.copied
  <2>1. M = AddCopyRect(k, b.copied, b.delta)
    BY DEF M
  <2> QED BY <2>1, AddUpdateContainerFields
<1>6. M.box.changed \subseteq Area
  BY <1>4 DEF Keepers, Boxes
<1> QED BY <1>3, <1>5, <1>6 DEF Pending

-----------------------------------------------------------------------------
(* What sendUpdate takes out of the keeper, and what it leaves there.      *)
LEMMA ExtractedFields ==
  ASSUME NEW k \in Keepers, SourceOnClient(k)
  PROVE  /\ Extracted(k) \in Boxes
         /\ Extracted(k).changed = k.box.changed
         /\ Extracted(k).copied = k.box.copied
         /\ Extracted(k).delta = k.box.delta
         /\ Emptied(k) \in Keepers
         /\ Emptied(k).box.changed = {} /\ Emptied(k).box.copied = {}
BY DEF Extracted, Emptied, Crop, Keepers, Boxes

LEMMA DazzledFields ==
  ASSUME NEW k \in Keepers
  PROVE  /\ SetCursorChanged(DazzleChangedReg(k)) \in Keepers
         /\ SetCursorChanged(DazzleChangedReg(k)).box.changed = Area
         /\ SetCursorChanged(DazzleChangedReg(k)).box.copied = k.box.copied
<1> DEFINE D == DazzleChangedReg(k)
<1>1. D \in Keepers /\ D.box.changed = Area /\ D.box.copied = k.box.copied
  <2>1. D = AddChangedRegion(k, Area)
    BY DEF DazzleChangedReg, Keepers
  <2>2. (k.box.changed \cup Area) \cap Area = Area
    OBVIOUS
  <2>3. /\ AddChangedRegion(k, Area) \in Keepers
        /\ AddChangedRegion(k, Area).box.changed = (k.box.changed \cup Area) \cap Area
        /\ AddChangedRegion(k, Area).box.copied = k.box.copied
    BY AddChangedRegionFields
  <2> QED BY <2>1, <2>2, <2>3
<1> HIDE DEF D
<1>2. /\ SetCursorChanged(D) \in Keepers
      /\ SetCursorChanged(D).box.changed = D.box.changed
      /\ SetCursorChanged(D).box.copied = D.box.copied
  BY <1>1 DEF SetCursorChanged, Keepers, Boxes
<1> QED BY <1>1, <1>2 DEF D

(* The box a request is answered from: copies stay or become repaints.     *)
LEMMA ToSendFields ==
  ASSUME NEW x \in Boxes, NEW requested
  PROVE  /\ ToSend(x, requested).delta = x.delta
         /\ \/ /\ x.copied \cup Translate(x.copied, x.delta) \subseteq requested
               /\ ToSend(x, requested).copied = x.copied
               /\ ToSend(x, requested).changed = x.changed \cap requested
            \/ /\ ~(x.copied \cup Translate(x.copied, x.delta) \subseteq requested)
               /\ ToSend(x, requested).copied = {}
               /\ ToSend(x, requested).changed = (x.changed \cup x.copied) \cap requested
BY DEF ToSend, Inscribed, CopiesDeclined, Boxes

LEMMA WantedFields ==
  ASSUME NEW x \in Boxes, NEW full
  PROVE  /\ Wanted(x, full) \in Boxes
         /\ Wanted(x, full).delta = x.delta
         /\ Wanted(x, full).copied = IF CopyRectEnabled THEN x.copied ELSE {}
         /\ Wanted(x, full).changed =
              ((IF CopyRectEnabled THEN x.changed ELSE x.changed \cup x.copied) \cup full)
                \cap Area
<1> DEFINE y == IF CopyRectEnabled THEN x ELSE CopiesDeclined(x)
<1>1. /\ y \in Boxes /\ y.delta = x.delta
      /\ y.copied = IF CopyRectEnabled THEN x.copied ELSE {}
      /\ y.changed = IF CopyRectEnabled THEN x.changed ELSE x.changed \cup x.copied
  BY DEF CopiesDeclined, Boxes
<1>2. Wanted(x, full) = [y EXCEPT !.changed = (@ \cup full) \cap Area]
  BY DEF Wanted
<1> HIDE DEF y
<1> QED BY <1>1, <1>2 DEF Boxes
=============================================================================
