------------------------ MODULE SmartPointersProofs -------------------------
(***************************************************************************)
(* The counts of the smart pointers, for every number of objects and       *)
(* variables and every sequence of operations.  Between operations they    *)
(* are the numbers of pointers; while destructors run they are not, and    *)
(* the invariant says by how much: a pointer whose object is being deleted *)
(* no longer counts, and an assignment that will copy counts its source    *)
(* once more.                                                              *)
(***************************************************************************)
EXTENDS SmartPointers, FiniteSetTheorems, SequenceTheorems, TLAPS

-----------------------------------------------------------------------------
(***************************************************************************)
(* The inductive invariant.                                                *)
(***************************************************************************)
Frames == {stack[i] : i \in 1 .. Len(stack)}

\* The objects being deleted, and the pointers whose object is.
Dying == {o \in Objects : \E f \in Frames : f.op = "free" /\ f.at = NextOf(o)}
Ending == {l \in SharedAt : \E f \in Frames : f.op = "deleted" /\ f.at = l}

\* What follows a frame on the stack s, when the pointers refer to what d says:
\* `self' is destroyed before `next', both before the memory is freed, and the
\* pointer that was the object's last one comes after that.
Link(f, g, d) ==
  \/ f.op = "destroyWeak" /\ g.op = "destroy" /\ g.at = NextOf(f.at[2])
  \/ /\ f.op \in {"destroy", "deleted"} /\ g.op \in {"free", "copy", "move"}
     /\ g.at = f.at
  \/ f.op = "free" /\ g.op = "deleted" /\ d[g.at] = f.at[2]

\* The outermost frame: an assignment, or the destructor of a variable.
Outermost(f) ==
  \/ f.op \in {"free", "copy", "move"}
  \/ f.op \in {"destroy", "deleted"} /\ f.at[1] = "var"

Shape(s, d) ==
  /\ \A i \in 1 .. Len(s) - 1 : Link(s[i], s[i + 1], d)
  /\ s # <<>> => Outermost(s[Len(s)])
  /\ \A i, j \in 1 .. Len(s) :
       s[i].op = "free" /\ s[j].op = "free" /\ s[i].at = s[j].at => i = j

\* The pointer at l is not being deleted.
Alive(l) == l[1] = "next" => obj[l[2]] = "live" /\ l[2] \notin Dying

\* The objects of A hold each other, without the pointer at l, and one of them
\* holds l: no destructor begun by destroying what l refers to deletes them.
Supported(A, l) ==
  /\ l[1] = "next" => l[2] \in A
  /\ \A a \in A :
       /\ obj[a] = "live" /\ a \notin Dying
       /\ \/ unique = a
          \/ \E k \in SharedAt \ {l} :
               data[k] = a /\ (k[1] = "next" => k[2] \in A)

FreeSound(o) == o \in Objects /\ obj[o] = "live" /\ ref[o] = 0 /\ unique # o
EndSound(o) == o \in Objects /\ ref[o] = 0 /\ (block[o] = "live" \/ hazards # {})
AssignSound(f) ==
  /\ f.from \in SharedAt /\ f.at # f.from
  /\ Alive(f.from) \/ hazards # {}
  /\ \E A \in SUBSET Objects : Supported(A, f.at)

FrameSound(f) ==
  /\ IF f.op = "destroyWeak" THEN f.at \in WeakAt /\ f.at[1] = "self"
     ELSE f.at \in SharedAt
  /\ f.op = "free" => f.at[1] = "next" /\ FreeSound(f.at[2])
  /\ f.op = "deleted" => EndSound(data[f.at])
  /\ f.op \in {"copy", "move"} => AssignSound(f)

\* The members of an object are empty when its memory is freed, and so is a
\* pointer when it is assigned to.
MembersEmpty ==
  /\ stack # <<>> /\ stack[1].op \in {"free", "copy", "move"} =>
       data[stack[1].at] = Null
  /\ \A o \in Dying :
       \/ data[SelfOf(o)] = Null
       \/ stack[1].op = "destroyWeak" /\ stack[1].at = SelfOf(o)

\* A control block is looked at again when its object's memory is freed.
MemoryFreed ==
  stack # <<>> /\ stack[1].op = "deleted" =>
    obj[data[stack[1].at]] = "deleted"

\* The reference a copy in progress has counted already.
Copying(x) ==
  /\ \A f \in Frames : f.op = "copy" /\ Alive(f.from) => x = data[f.from]
  /\ x # Null => \E f \in Frames : f.op = "copy"

\* The pointers an object's counts are counts of.
Points(o) == {l \in SharedAt : InLiveMemory(l) /\ l \notin Ending /\ data[l] = o}
WeakPoints(o) == {l \in WeakAt : InLiveMemory(l) /\ data[l] = o}

CountBook(o, x) ==
  /\ ref[o] = Cardinality(Points(o)) + (IF x = o THEN 1 ELSE 0)
  /\ weak[o] = Cardinality(WeakPoints(o))
BlockBook(o) ==
  /\ block[o] # "live" => ref[o] = 0 /\ weak[o] = 0
  /\ block[o] = "live" /\ ref[o] = 0 /\ weak[o] = 0 =>
       \E l \in Ending : data[l] = o
ObjectBook(o) ==
  /\ obj[o] = "live" <=> ref[o] > 0 \/ unique = o \/ o \in Dying
  /\ unique = o => block[o] = "none"
  /\ obj[o] = "none" =>
       block[o] = "none" /\ data[NextOf(o)] = Null /\ data[SelfOf(o)] = Null

Books(x) ==
  /\ x \in Objects \cup {Null} /\ Copying(x)
  /\ \A o \in Objects : CountBook(o, x) /\ BlockBook(o) /\ ObjectBook(o)

StackSound ==
  /\ Shape(stack, data) /\ (\A f \in Frames : FrameSound(f))
  /\ MembersEmpty /\ MemoryFreed

PointerInv ==
  /\ TypeOK /\ FreedOnlyThroughHazard
  /\ Running => StackSound /\ \E x : Books(x)

-----------------------------------------------------------------------------
(***************************************************************************)
(* Places and counts.                                                      *)
(***************************************************************************)
\* A place is a variable or a member of an object, and shared or weak.
LEMMA Places ==
  /\ \A v : Var(v)[1] = "var"
  /\ \A v \in SharedVars : Var(v) \in SharedAt
  /\ \A v \in WeakVars : Var(v) \in WeakAt
  /\ \A o \in Objects :
       /\ NextOf(o) \in SharedAt /\ NextOf(o)[1] = "next" /\ NextOf(o)[2] = o
       /\ SelfOf(o) \in WeakAt /\ SelfOf(o)[1] = "self" /\ SelfOf(o)[2] = o
  /\ \A l \in SharedAt :
       /\ l \notin WeakAt
       /\ \/ l[1] = "var" /\ \E v \in SharedVars : l = Var(v)
          \/ l[1] = "next" /\ l[2] \in Objects /\ l = NextOf(l[2])
  /\ \A l \in WeakAt :
       \/ l[1] = "var" /\ \E v \in WeakVars : l = Var(v)
       \/ l[1] = "self" /\ l[2] \in Objects /\ l = SelfOf(l[2])
<1>1. \A v : Var(v)[1] = "var" /\ Var(v)[2] = v
  BY DEF Var
<1>2. \A o : NextOf(o)[1] = "next" /\ NextOf(o)[2] = o
  BY DEF NextOf
<1>3. \A o : SelfOf(o)[1] = "self" /\ SelfOf(o)[2] = o
  BY DEF SelfOf
<1>4. \A l \in SharedAt : \/ \E v \in SharedVars : l = Var(v)
                          \/ \E o \in Objects : l = NextOf(o)
  BY DEF SharedAt
<1>5. \A l \in WeakAt : \/ \E v \in WeakVars : l = Var(v)
                        \/ \E o \in Objects : l = SelfOf(o)
  BY DEF WeakAt
<1>6. /\ \A v \in SharedVars : Var(v) \in SharedAt
      /\ \A v \in WeakVars : Var(v) \in WeakAt
      /\ \A o \in Objects : NextOf(o) \in SharedAt /\ SelfOf(o) \in WeakAt
  BY DEF SharedAt, WeakAt
<1>7. \A l \in SharedAt : l \notin WeakAt
  BY <1>1, <1>2, <1>3, <1>4, <1>5, PointerAssumption
<1>8. \A l \in SharedAt :
       \/ l[1] = "var" /\ \E v \in SharedVars : l = Var(v)
       \/ l[1] = "next" /\ l[2] \in Objects /\ l = NextOf(l[2])
  BY <1>1, <1>2, <1>4
<1>9. \A l \in WeakAt :
       \/ l[1] = "var" /\ \E v \in WeakVars : l = Var(v)
       \/ l[1] = "self" /\ l[2] \in Objects /\ l = SelfOf(l[2])
  BY <1>1, <1>3, <1>5
<1> QED
  BY <1>1, <1>2, <1>3, <1>6, <1>7, <1>8, <1>9

\* Two sets of places that differ in one place at most.
LEMMA OneChanged ==
  ASSUME NEW S, IsFiniteSet(S), NEW T, IsFiniteSet(T), NEW k,
         \A l : l # k => (l \in S <=> l \in T)
  PROVE  /\ Cardinality(S) \in Nat /\ Cardinality(T) \in Nat
         /\ (k \in S <=> k \in T) => Cardinality(T) = Cardinality(S)
         /\ k \in S /\ k \notin T => Cardinality(S) = Cardinality(T) + 1
         /\ k \notin S /\ k \in T => Cardinality(T) = Cardinality(S) + 1
<1>1. Cardinality(S) \in Nat /\ Cardinality(T) \in Nat
  BY FS_CardinalityType
<1>2. (k \in S <=> k \in T) => S = T
  OBVIOUS
<1>3. ASSUME k \in S, k \notin T PROVE Cardinality(S) = Cardinality(T) + 1
  <2>1. S = T \cup {k}
    BY <1>3
  <2> QED
    BY <1>3, <2>1, FS_AddElement
<1>4. ASSUME k \notin S, k \in T PROVE Cardinality(T) = Cardinality(S) + 1
  <2>1. T = S \cup {k}
    BY <1>4
  <2> QED
    BY <1>4, <2>1, FS_AddElement
<1> QED
  BY <1>1, <1>2, <1>3, <1>4

\* The counts fit their words, one reference in advance included.
LEMMA Countable ==
  /\ CountWord \in Nat
  /\ \A S : S \subseteq SharedAt \/ S \subseteq WeakAt =>
       IsFiniteSet(S) /\ Cardinality(S) \in Nat /\ Cardinality(S) + 1 < CountWord
  /\ \A o : Points(o) \subseteq SharedAt /\ WeakPoints(o) \subseteq WeakAt
<1>1. IsFiniteSet(SharedAt \cup WeakAt)
  BY PointerAssumption
<1>2. ASSUME NEW S, S \subseteq SharedAt \/ S \subseteq WeakAt
      PROVE  IsFiniteSet(S) /\ Cardinality(S) \in Nat
             /\ Cardinality(S) + 1 < CountWord
  <2>1. S \in SUBSET (SharedAt \cup WeakAt)
    BY <1>2
  <2>2. IsFiniteSet(S) /\ Cardinality(S) <= Cardinality(SharedAt \cup WeakAt)
    BY <1>1, <2>1, FS_Subset
  <2>3. Cardinality(S) \in Nat /\ Cardinality(SharedAt \cup WeakAt) \in Nat
    BY <1>1, <2>2, FS_CardinalityType
  <2> QED
    BY <2>2, <2>3, PointerAssumption
<1>3. \A o : Points(o) \subseteq SharedAt /\ WeakPoints(o) \subseteq WeakAt
  BY DEF Points, WeakPoints
<1> QED
  BY <1>2, <1>3, PointerAssumption

\* A pointer that counts for an object is one of at least one.
LEMMA Counts ==
  ASSUME NEW S, S \subseteq SharedAt \/ S \subseteq WeakAt
  PROVE  /\ Cardinality(S) \in Nat
         /\ Cardinality(S) = 0 <=> S = {}
         /\ \A k, l \in S : k # l => Cardinality(S) > 1
<1>1. IsFiniteSet(S) /\ Cardinality(S) \in Nat
  BY Countable
<1>2. Cardinality(S) = 0 <=> S = {}
  BY <1>1, FS_EmptySet
<1>3. ASSUME NEW k \in S, NEW l \in S, k # l PROVE Cardinality(S) > 1
  <2>1. Cardinality(S) # 1
    BY <1>1, <1>3, FS_Singleton
  <2> QED
    BY <1>1, <1>2, <2>1
<1> QED
  BY <1>1, <1>2, <1>3

-----------------------------------------------------------------------------
(***************************************************************************)
(* The stack.                                                              *)
(***************************************************************************)
\* Popping a frame.
LEMMA PopFacts ==
  ASSUME NEW F, NEW s \in Seq(F), s # <<>>
  PROVE  /\ Len(s) \in Nat \ {0} /\ Head(s) = s[1] /\ s[1] \in F
         /\ Tail(s) \in Seq(F) /\ Len(Tail(s)) = Len(s) - 1
         /\ \A i \in 1 .. Len(s) - 1 : Tail(s)[i] = s[i + 1]
  OBVIOUS

\* Pushing the frames of a deletion and the one that follows it.
LEMMA PushFacts ==
  ASSUME NEW F, NEW s \in Seq(F), NEW a \in F, NEW b \in F, NEW c \in F,
         NEW d \in F, NEW t, t = <<a, b, c>> \o (<<d>> \o s)
  PROVE  /\ t \in Seq(F) /\ Len(t) = Len(s) + 4 /\ Len(s) \in Nat
         /\ t[1] = a /\ t[2] = b /\ t[3] = c /\ t[4] = d
         /\ \A i \in 1 .. Len(s) : t[i + 4] = s[i]
<1> DEFINE u == <<d>> \o s
           v == <<a, b, c>>
<1>1. /\ <<d>> \in Seq(F) /\ Len(<<d>>) = 1 /\ <<d>>[1] = d
      /\ v \in Seq(F) /\ Len(v) = 3
      /\ v[1] = a /\ v[2] = b /\ v[3] = c
  OBVIOUS
<1>2. /\ u \in Seq(F) /\ Len(u) = 1 + Len(s)
      /\ \A i \in 1 .. 1 + Len(s) : u[i] = IF i <= 1 THEN <<d>>[i] ELSE s[i - 1]
  BY <1>1, ConcatProperties
<1> HIDE DEF v, u
<1>3. /\ t \in Seq(F) /\ Len(t) = 3 + Len(u)
      /\ \A i \in 1 .. 3 + Len(u) : t[i] = IF i <= 3 THEN v[i] ELSE u[i - 3]
  <2>1. t = v \o u
    BY DEF u, v
  <2> QED
    BY <1>1, <1>2, <2>1, ConcatProperties, SMTT(60)
<1>4. Len(s) \in Nat
  OBVIOUS
<1>5. u[1] = d /\ \A i \in 1 .. Len(s) : u[i + 1] = s[i]
  BY <1>1, <1>2, <1>4
<1>6. t[4] = d /\ \A i \in 1 .. Len(s) : t[i + 4] = s[i]
  BY <1>2, <1>3, <1>4, <1>5
<1> QED
  BY <1>1, <1>2, <1>3, <1>4, <1>6

\* The innermost frame and the one after it.
LEMMA TopFacts ==
  ASSUME TypeOK, StackSound, stack # <<>>
  PROVE  /\ Top = stack[1] /\ Top \in Frames /\ Len(stack) \in Nat \ {0}
         /\ \A f \in Frames : f \in FrameType /\ FrameSound(f)
         /\ \A i \in 1 .. Len(stack) : stack[i] \in Frames
         /\ Len(stack) = 1 => Outermost(Top)
         /\ Len(stack) > 1 => Link(Top, stack[2], data)
<1>1. stack \in Seq(FrameType)
  BY DEF TypeOK
<1>2. Top = stack[1] /\ Len(stack) \in Nat \ {0}
  BY <1>1, PopFacts DEF Top
<1>3. \A i \in 1 .. Len(stack) : stack[i] \in Frames /\ stack[i] \in FrameType
  BY <1>1 DEF Frames
<1>4. \A f \in Frames : f \in FrameType /\ FrameSound(f)
  BY <1>3 DEF Frames, StackSound
<1>5. Shape(stack, data)
  BY DEF StackSound
<1>6. Len(stack) = 1 => Outermost(Top)
  BY <1>2, <1>5 DEF Shape
<1>7. Len(stack) > 1 => Link(Top, stack[2], data)
  BY <1>2, <1>5 DEF Shape
<1> QED
  BY <1>2, <1>3, <1>4, <1>6, <1>7

\* An assignment is the outermost call.
LEMMA Assigning ==
  ASSUME TypeOK, StackSound, NEW f \in Frames, f.op \in {"copy", "move"}
  PROVE  stack # <<>> /\ Len(stack) \in Nat \ {0} /\ f = stack[Len(stack)]
<1>1. PICK i \in 1 .. Len(stack) : f = stack[i]
  BY DEF Frames
<1>2. stack \in Seq(FrameType) /\ Shape(stack, data)
  BY DEF TypeOK, StackSound
<1>3. stack # <<>> /\ Len(stack) \in Nat \ {0}
  BY <1>1, <1>2
<1>4. \A g : ~Link(f, g, data)
  BY DEF Link
<1>5. ~(i \in 1 .. Len(stack) - 1)
  BY <1>1, <1>2, <1>4 DEF Shape
<1> QED
  BY <1>1, <1>3, <1>5

\* Below the innermost frame, a control block waits for the memory of its
\* object to be freed.
LEMMA Waiting ==
  ASSUME TypeOK, StackSound, NEW j \in 2 .. Len(stack), stack[j].op = "deleted"
  PROVE  /\ data[stack[j].at] \in Dying /\ FreeSound(data[stack[j].at])
         /\ stack[j] \in Frames
<1> DEFINE f == stack[j - 1]
           g == stack[j]
<1>1. Len(stack) \in Nat /\ j - 1 \in 1 .. Len(stack) - 1 /\ (j - 1) + 1 = j
  BY DEF TypeOK
<1>2. f \in Frames /\ g \in Frames
  BY <1>1 DEF Frames
<1>3. Link(f, g, data)
  BY <1>1 DEF StackSound, Shape
<1>4. f.op = "free" /\ data[g.at] = f.at[2]
  BY <1>3 DEF Link
<1>5. FrameSound(f)
  BY <1>2 DEF StackSound
<1>6. f.at \in SharedAt /\ f.at[1] = "next" /\ FreeSound(f.at[2])
  BY <1>4, <1>5 DEF FrameSound
<1>7. f.at = NextOf(f.at[2])
  BY <1>6, Places
<1>8. f.at[2] \in Dying
  BY <1>2, <1>4, <1>6, <1>7 DEF Dying, FreeSound
<1> QED
  BY <1>2, <1>4, <1>6, <1>8

\* A member of an object being deleted is in an object still there.
LEMMA DyingLive ==
  ASSUME TypeOK, StackSound
  PROVE  \A o \in Dying : FreeSound(o) /\ \E f \in Frames : f.op = "free" /\ f.at = NextOf(o)
<1>1. SUFFICES ASSUME NEW o \in Dying
               PROVE  FreeSound(o) /\ \E f \in Frames : f.op = "free" /\ f.at = NextOf(o)
  OBVIOUS
<1>2. PICK f \in Frames : f.op = "free" /\ f.at = NextOf(o)
  BY DEF Dying
<1>3. FrameSound(f)
  BY <1>2 DEF StackSound
<1>4. FreeSound(f.at[2])
  BY <1>2, <1>3 DEF FrameSound
<1>5. f.at[2] = o
  BY <1>2 DEF NextOf
<1> QED
  BY <1>2, <1>4, <1>5

\* The pointer an assignment is to lies in memory nobody deletes.
LEMMA AssignedAt ==
  ASSUME TypeOK, StackSound, NEW f \in Frames, f.op \in {"copy", "move"}
  PROVE  /\ f.at \in SharedAt /\ f.from \in SharedAt /\ f.at # f.from
         /\ InLiveMemory(f.at)
         /\ f.at[1] = "next" => f.at[2] \notin Dying
<1>1. FrameSound(f)
  BY DEF StackSound
<1>2. f.at \in SharedAt /\ AssignSound(f)
  BY <1>1 DEF FrameSound
<1>3. PICK A \in SUBSET Objects : Supported(A, f.at)
  BY <1>2 DEF AssignSound
<1>4. f.at[1] = "next" => obj[f.at[2]] = "live" /\ f.at[2] \notin Dying
  BY <1>3 DEF Supported
<1>5. f.at[1] = "var" \/ f.at[1] = "next"
  BY <1>2, Places
<1>6. InLiveMemory(f.at)
  BY <1>4, <1>5 DEF InLiveMemory
<1> QED
  BY <1>2, <1>4, <1>6 DEF AssignSound

\* What is known where a pointer's value is being destroyed.
LEMMA DestroyedAt ==
  ASSUME TypeOK, StackSound, stack # <<>>, Top.op \in {"destroy", "deleted"}
  PROVE  /\ Top.at \in SharedAt /\ InLiveMemory(Top.at)
         /\ Len(stack) > 1 => /\ stack[2].op \in {"free", "copy", "move"}
                              /\ stack[2].at = Top.at
         /\ \A j \in 2 .. Len(stack) :
              stack[j].op = "deleted" => stack[j].at # Top.at
         /\ \A f \in Frames : f.op \in {"copy", "move"} =>
              f.at = Top.at \/ (Top.at[1] = "next" /\ Top.at[2] \in Dying)
<1> DEFINE n == Len(stack)
           l == Top.at
<1>1. /\ Top = stack[1] /\ Top \in Frames /\ n \in Nat \ {0}
      /\ \A f \in Frames : f \in FrameType /\ FrameSound(f)
      /\ \A i \in 1 .. n : stack[i] \in Frames
      /\ n = 1 => Outermost(Top)
      /\ n > 1 => Link(Top, stack[2], data)
  BY TopFacts
<1>9. n \in Nat \ {0}
  BY DEF TypeOK
<1> HIDE DEF n
<1>10. n \in Nat /\ (n = 1 \/ n > 1)
  BY <1>9
<1>11. \A i \in 1 .. n : stack[i] \in Frames
  BY <1>1
<1>12. n > 1 => stack[2] \in Frames
  BY <1>10, <1>11
<1>2. l \in SharedAt
  BY <1>1 DEF FrameSound
<1>3. n > 1 => stack[2].op \in {"free", "copy", "move"} /\ stack[2].at = l
  BY <1>1 DEF Link
<1>4. n = 1 => l[1] = "var"
  BY <1>1 DEF Outermost
<1>5. n > 1 /\ stack[2].op = "free" => l[1] = "next" /\ l[2] \in Dying
  <2>1. SUFFICES ASSUME n > 1, stack[2].op = "free"
                 PROVE  l[1] = "next" /\ l[2] \in Dying
    OBVIOUS
  <2>2. stack[2] \in Frames /\ FrameSound(stack[2])
    BY <1>1, <2>1
  <2>3. l[1] = "next" /\ FreeSound(l[2])
    BY <1>3, <2>1, <2>2 DEF FrameSound
  <2>4. l = NextOf(l[2])
    BY <1>2, <2>3, Places
  <2> QED
    BY <1>3, <2>1, <2>2, <2>3, <2>4 DEF Dying, FreeSound
<1>6. InLiveMemory(l)
  <2>1. CASE n = 1
    BY <1>4, <2>1 DEF InLiveMemory
  <2>2. CASE n > 1 /\ stack[2].op = "free"
    <3>1. FreeSound(l[2])
      BY <1>5, <2>2, DyingLive
    <3> QED
      BY <3>1 DEF FreeSound, InLiveMemory
  <2>3. CASE n > 1 /\ stack[2].op \in {"copy", "move"}
    <3>1. stack[2] \in Frames
      BY <1>1, <2>3
    <3>2. InLiveMemory(stack[2].at)
      BY <2>3, <3>1, AssignedAt
    <3> QED
      BY <1>3, <2>3, <3>2
  <2> QED
    BY <1>3, <1>10, <2>1, <2>2, <2>3
<1>7. ASSUME NEW f \in Frames, f.op \in {"copy", "move"}
      PROVE  f.at = l \/ (l[1] = "next" /\ l[2] \in Dying)
  <2>1. f = stack[n]
    BY <1>7, Assigning DEF n
  <2>2. n # 1
    BY <1>1, <1>7, <2>1
  <2>3. CASE stack[2].op = "free"
    BY <1>5, <1>10, <2>2, <2>3
  <2>4. CASE stack[2].op \in {"copy", "move"}
    <3>1. stack[2] \in Frames
      BY <1>10, <1>12, <2>2
    <3>2. stack[2] = stack[n]
      BY <2>4, <3>1, Assigning DEF n
    <3> QED
      BY <1>1, <1>3, <2>1, <2>2, <3>2
  <2> QED
    BY <1>3, <1>10, <2>2, <2>3, <2>4
<1>8. ASSUME NEW j \in 2 .. n, stack[j].op = "deleted", stack[j].at = l
      PROVE  FALSE
  <2>1. n > 1 /\ j \in 1 .. n /\ stack[j] \in Frames
    BY <1>1, <1>8, <1>10
  <2>2. Shape(stack, data)
    BY DEF StackSound
  <2>3. CASE stack[2].op \in {"copy", "move"}
    <3>1. stack[2] \in Frames /\ stack[2] = stack[n]
      BY <1>12, <2>1, <2>3, Assigning DEF n
    <3>2. j # n
      BY <1>8, <2>3, <3>1
    <3>3. \A g : ~Link(stack[2], g, data)
      BY <2>3 DEF Link
    <3>4. n = 2
      <4>1. SUFFICES ASSUME 2 \in 1 .. n - 1 PROVE FALSE
        BY <1>10, <2>1
      <4>2. Link(stack[2], stack[2 + 1], data)
        BY <2>2, <4>1 DEF Shape, n
      <4> QED
        BY <3>3, <4>2
    <3> QED
      BY <1>8, <3>2, <3>4
  <2>4. CASE stack[2].op = "free"
    <3>1. l[1] = "next" /\ l[2] \in Dying
      BY <1>5, <2>1, <2>4
    <3>2. CASE j = n
      <4>1. Outermost(stack[j])
        BY <1>1, <2>2, <3>2 DEF Shape, n
      <4> QED
        BY <1>8, <3>1, <4>1 DEF Outermost
    <3>3. CASE j < n
      <4>1. Link(stack[j], stack[j + 1], data)
        BY <1>1, <1>8, <2>2, <3>3 DEF Shape, n
      <4>2. /\ stack[j + 1].op \in {"free", "copy", "move"}
            /\ stack[j + 1].at = l
        BY <1>8, <4>1 DEF Link
      <4>3. stack[j + 1] \in Frames /\ j + 1 \in 1 .. n /\ 2 \in 1 .. n /\ j + 1 # 2
        BY <1>1, <1>8, <3>3
      <4>4. stack[j + 1].op \notin {"copy", "move"}
        BY <3>1, <4>2, <4>3, AssignedAt
      <4>5. stack[j + 1].op = "free"
        BY <4>2, <4>4
      <4> QED
        BY <1>3, <2>1, <2>2, <2>4, <4>2, <4>3, <4>5 DEF Shape, n
    <3> QED
      BY <1>1, <1>8, <3>2, <3>3
  <2> QED
    BY <1>3, <2>1, <2>3, <2>4
<1> QED
  BY <1>2, <1>3, <1>6, <1>7, <1>8 DEF n

\* Returning from the innermost call.
LEMMA Popped ==
  ASSUME TypeOK, StackSound, stack # <<>>, stack' = Tail(stack),
         \A j \in 2 .. Len(stack) :
           stack[j].op = "deleted" => data'[stack[j].at] = data[stack[j].at]
  PROVE  /\ stack' \in Seq(FrameType) /\ Shape(stack, data)' /\ Frames' \subseteq Frames
         /\ \A f \in Frames : f = Top \/ f \in Frames'
         /\ \A f \in Frames' : \E j \in 2 .. Len(stack) : f = stack[j]
         /\ stack' # <<>> => Len(stack) > 1 /\ stack'[1] = stack[2]
         /\ Top.op # "free" => Dying' = Dying
         /\ Top.op # "deleted" => Ending' = Ending
<1> DEFINE n == Len(stack)
<1>1. stack \in Seq(FrameType) /\ Top = stack[1]
  BY TopFacts DEF TypeOK
<1>2. /\ n \in Nat \ {0} /\ stack' \in Seq(FrameType) /\ Len(stack') = n - 1
      /\ \A i \in 1 .. n - 1 : stack'[i] = stack[i + 1]
  BY <1>1, PopFacts
<1> HIDE DEF n
<1>3. \A f \in Frames' : \E j \in 2 .. n : f = stack[j]
  <2>1. SUFFICES ASSUME NEW i \in 1 .. n - 1
                 PROVE  \E j \in 2 .. n : stack'[i] = stack[j]
    BY <1>2 DEF Frames
  <2>2. i + 1 \in 2 .. n
    BY <1>2
  <2> QED
    BY <1>2, <2>2
<1>4. Frames' \subseteq Frames
  <2>1. 2 .. n \subseteq 1 .. n
    BY <1>2
  <2> QED
    BY <1>3, <2>1 DEF Frames, n
<1>5. \A f \in Frames : f = Top \/ f \in Frames'
  <2>1. SUFFICES ASSUME NEW j \in 1 .. n, j # 1 PROVE stack[j] \in Frames'
    BY <1>1 DEF Frames, n
  <2>2. j - 1 \in 1 .. n - 1 /\ (j - 1) + 1 = j
    BY <1>2, <2>1
  <2>3. stack'[j - 1] = stack[j]
    BY <1>2, <2>2
  <2> QED
    BY <1>2, <2>2, <2>3 DEF Frames
<1>6. ASSUME stack' # <<>> PROVE n > 1 /\ stack'[1] = stack[2]
  <2>1. Len(stack') # 0
    BY <1>2, <1>6
  <2>2. n > 1 /\ 1 \in 1 .. n - 1 /\ 1 + 1 = 2
    BY <1>2, <2>1
  <2> QED
    BY <1>2, <2>2
<1>7. Shape(stack, data)'
  <2>1. ASSUME NEW i \in 1 .. Len(stack') - 1
        PROVE  Link(stack'[i], stack'[i + 1], data')
    <3>1. /\ i \in 1 .. n - 1 /\ i + 1 \in 1 .. n - 1 /\ (i + 1) + 1 \in 2 .. n
      BY <1>2, <2>1
    <3>2. stack'[i] = stack[i + 1] /\ stack'[i + 1] = stack[(i + 1) + 1]
      BY <1>2, <3>1
    <3>3. Link(stack[i + 1], stack[(i + 1) + 1], data)
      BY <3>1 DEF StackSound, Shape, n
    <3>4. stack[(i + 1) + 1].op = "deleted" =>
            data'[stack[(i + 1) + 1].at] = data[stack[(i + 1) + 1].at]
      BY <3>1 DEF n
    <3> QED
      BY <3>2, <3>3, <3>4 DEF Link
  <2>2. ASSUME stack' # <<>> PROVE Outermost(stack'[Len(stack')])
    <3>1. n > 1 /\ n - 1 \in 1 .. n - 1 /\ (n - 1) + 1 = n
      BY <1>2, <1>6, <2>2
    <3>2. stack'[n - 1] = stack[n]
      BY <1>2, <3>1
    <3> QED
      BY <1>2, <3>2 DEF StackSound, Shape, n
  <2>3. ASSUME NEW i \in 1 .. Len(stack'), NEW j \in 1 .. Len(stack'),
               stack'[i].op = "free", stack'[j].op = "free",
               stack'[i].at = stack'[j].at
        PROVE  i = j
    <3>1. /\ i \in 1 .. n - 1 /\ j \in 1 .. n - 1
          /\ i + 1 \in 1 .. n /\ j + 1 \in 1 .. n
      BY <1>2, <2>3
    <3>2. stack'[i] = stack[i + 1] /\ stack'[j] = stack[j + 1]
      BY <1>2, <3>1
    <3>3. i + 1 = j + 1
      BY <2>3, <3>1, <3>2 DEF StackSound, Shape, n
    <3> QED
      BY <3>1, <3>3
  <2> QED
    BY <2>1, <2>2, <2>3 DEF Shape
<1>8. Top.op # "free" => Dying' = Dying
  BY <1>4, <1>5 DEF Dying
<1>9. Top.op # "deleted" => Ending' = Ending
  BY <1>4, <1>5 DEF Ending
<1> QED
  BY <1>2, <1>3, <1>4, <1>5, <1>6, <1>7, <1>8, <1>9 DEF n

\* What holds a member's object keeps holding it, if nothing of it changes.
LEMMA SupportKept ==
  ASSUME NEW A \in SUBSET Objects, NEW l, Supported(A, l), unique' = unique,
         \A a \in A : obj'[a] = obj[a] /\ a \notin Dying',
         \A k \in SharedAt \ {l} :
           (k[1] = "next" => k[2] \in A) /\ data[k] \in A => data'[k] = data[k]
  PROVE  Supported(A, l)'
<1>1. l[1] = "next" => l[2] \in A
  BY DEF Supported
<1>2. ASSUME NEW a \in A
      PROVE  /\ obj'[a] = "live" /\ a \notin Dying'
             /\ \/ unique' = a
                \/ \E k \in SharedAt \ {l} :
                     data'[k] = a /\ (k[1] = "next" => k[2] \in A)
  BY DEF Supported
<1> QED
  BY <1>1, <1>2 DEF Supported

\* Counts that balance fit their words.
LEMMA Ranges ==
  ASSUME NEW x, \A o \in Objects : CountBook(o, x)',
         ref' = [o \in Objects |-> ref'[o]], weak' = [o \in Objects |-> weak'[o]]
  PROVE  /\ ref' \in [Objects -> 0 .. CountWord - 1]
         /\ weak' \in [Objects -> 0 .. CountWord - 1]
<1>1. ASSUME NEW o \in Objects
      PROVE  ref'[o] \in 0 .. CountWord - 1 /\ weak'[o] \in 0 .. CountWord - 1
  <2>1. Points(o)' \subseteq SharedAt /\ WeakPoints(o)' \subseteq WeakAt
    BY DEF Points, WeakPoints
  <2>2. PICK m : m = Cardinality(Points(o)')
    OBVIOUS
  <2>3. PICK w : w = Cardinality(WeakPoints(o)')
    OBVIOUS
  <2>4. /\ CountWord \in Nat /\ m \in Nat /\ m + 1 < CountWord
        /\ w \in Nat /\ w + 1 < CountWord
    BY <2>1, <2>2, <2>3, Countable
  <2>5. ref'[o] = m + (IF x = o THEN 1 ELSE 0) /\ weak'[o] = w
    BY <2>2, <2>3 DEF CountBook
  <2> QED
    BY <2>4, <2>5
<1> QED
  BY <1>1

\* A count of at least one is lowered by one, and not below zero.
LEMMA Lowered ==
  ASSUME NEW c \in 0 .. CountWord - 1, c # 0
  PROVE  c \in Nat /\ (c - 1) % CountWord = c - 1 /\ c - 1 \in Nat
<1>1. CountWord \in Nat /\ c \in Nat /\ c < CountWord
  BY Countable
<1> QED
  BY <1>1

\* The member `self' is destroyed while its object is there.
LEMMA SelfLive ==
  ASSUME TypeOK, StackSound, stack # <<>>, Top.op = "destroyWeak"
  PROVE  /\ Top.at \in WeakAt /\ InLiveMemory(Top.at)
         /\ Top.at[2] \in Objects /\ Top.at = SelfOf(Top.at[2])
         /\ Len(stack) > 1 /\ stack[2].op = "destroy"
<1> DEFINE n == Len(stack)
<1>1. /\ Top = stack[1] /\ Top \in Frames
      /\ \A f \in Frames : f \in FrameType /\ FrameSound(f)
      /\ \A i \in 1 .. n : stack[i] \in Frames
      /\ n = 1 => Outermost(Top)
      /\ n > 1 => Link(Top, stack[2], data)
  BY TopFacts
<1>2. n \in Nat \ {0} /\ Shape(stack, data)
  BY DEF TypeOK, StackSound
<1>3. Top.at \in WeakAt /\ Top.at[1] = "self"
  BY <1>1 DEF FrameSound
<1>4. Top.at[2] \in Objects /\ Top.at = SelfOf(Top.at[2])
  BY <1>3, Places
<1>5. ~Outermost(Top)
  BY DEF Outermost
<1>6. n # 1
  BY <1>1, <1>5
<1> HIDE DEF n
<1>7. n > 1 /\ 2 \in 1 .. n /\ (n > 2 => 2 \in 1 .. n - 1 /\ 3 \in 1 .. n)
  BY <1>2, <1>6
<1>8. stack[2].op = "destroy" /\ stack[2].at = NextOf(Top.at[2])
  BY <1>1, <1>7 DEF Link
<1>9. n > 2
  <2>1. ~Outermost(stack[2])
    BY <1>8 DEF Outermost, NextOf
  <2>2. n # 2
    BY <1>2, <2>1 DEF Shape, n
  <2> QED
    BY <1>2, <1>7, <2>2
<1>10. /\ stack[3].op \in {"free", "copy", "move"} /\ stack[3].at = NextOf(Top.at[2])
       /\ stack[3] \in Frames
  <2>1. Link(stack[2], stack[2 + 1], data)
    BY <1>2, <1>7, <1>9 DEF Shape, n
  <2> QED
    BY <1>1, <1>7, <1>8, <1>9, <2>1 DEF Link
<1>11. obj[Top.at[2]] = "live"
  <2>1. CASE stack[3].op = "free"
    <3>1. FrameSound(stack[3])
      BY <1>1, <1>10
    <3>2. FreeSound(NextOf(Top.at[2])[2])
      BY <1>10, <2>1, <3>1 DEF FrameSound
    <3> QED
      BY <3>2 DEF FreeSound, NextOf
  <2>2. CASE stack[3].op \in {"copy", "move"}
    <3>1. InLiveMemory(NextOf(Top.at[2]))
      BY <1>10, <2>2, AssignedAt
    <3> QED
      BY <3>1 DEF InLiveMemory, NextOf
  <2> QED
    BY <1>10, <2>1, <2>2
<1> QED
  BY <1>3, <1>4, <1>7, <1>8, <1>11 DEF InLiveMemory, n

-----------------------------------------------------------------------------
(***************************************************************************)
(* The steps of a destruction.                                             *)
(***************************************************************************)
LEMMA DestroyWeakSound ==
  ASSUME PointerInv, DestroyWeak
  PROVE  PointerInv'
<1>1. TypeOK /\ StackSound /\ stack # <<>> /\ Top.op = "destroyWeak"
  BY DEF PointerInv, DestroyWeak, Doing
<1>2. PICK x : Books(x)
  BY DEF PointerInv, DestroyWeak, Doing
<1>3. PICK l : l = Top.at
  OBVIOUS
<1>4. PICK y : y = data[l]
  OBVIOUS
<1>5. /\ l \in WeakAt /\ InLiveMemory(l) /\ l \notin SharedAt
      /\ l[2] \in Objects /\ l = SelfOf(l[2])
      /\ Len(stack) > 1 /\ stack[2].op = "destroy"
  BY <1>1, <1>3, SelfLive, Places
<1>6. y \in Objects \cup {Null} /\ Null \notin Objects
  BY <1>1, <1>4, <1>5, PointerAssumption DEF TypeOK
<1>7. /\ data' = [data EXCEPT ![l] = Null] /\ stack' = Tail(stack)
      /\ obj' = obj /\ ref' = ref /\ unique' = unique /\ error' = error
      /\ hazards \subseteq hazards' /\ hazards' \subseteq hazards \cup {"backReference"}
      /\ y # Null => block[y] = "live"
      /\ y # Null /\ obj[y] = "live" /\ ref[y] = 0 => hazards' # {}
  BY <1>3, <1>4 DEF DestroyWeak
<1>8. /\ y = Null => weak' = weak /\ block' = block
      /\ y # Null => weak' = [weak EXCEPT ![y] = (@ - 1) % CountWord]
      /\ y # Null => block' = IF weak'[y] = 0 /\ ref[y] = 0
                              THEN [block EXCEPT ![y] = "deleted"] ELSE block
  BY <1>3, <1>4 DEF DestroyWeak, Dropped, BlockWithoutWeak
<1>9. /\ data'[l] = Null
      /\ \A k \in SharedAt \cup WeakAt : k # l => data'[k] = data[k]
      /\ data' \in [SharedAt \cup WeakAt -> Objects \cup {Null}]
  BY <1>1, <1>5, <1>7 DEF TypeOK
<1>10. \A f \in Frames : f.op = "deleted" => f.at \in SharedAt
  BY <1>1, TopFacts DEF FrameSound
<1>11. /\ stack' \in Seq(FrameType) /\ Shape(stack, data)' /\ Frames' \subseteq Frames
       /\ \A f \in Frames : f = Top \/ f \in Frames'
       /\ \A f \in Frames' : \E j \in 2 .. Len(stack) : f = stack[j]
       /\ stack' # <<>> => stack'[1] = stack[2]
       /\ Dying' = Dying /\ Ending' = Ending
  <2>1. ASSUME NEW j \in 2 .. Len(stack), stack[j].op = "deleted"
        PROVE  data'[stack[j].at] = data[stack[j].at]
    <3>1. stack[j] \in Frames
      BY <1>1, <2>1, Waiting
    <3> QED
      BY <1>5, <1>9, <1>10, <2>1, <3>1
  <2> QED
    BY <1>1, <1>7, <2>1, Popped
<1>12. \A o \in Objects : Points(o)' = Points(o)
  BY <1>5, <1>7, <1>9, <1>11 DEF Points, InLiveMemory
<1>13. \A o \in Objects :
         /\ \A k : k # l => (k \in WeakPoints(o)' <=> k \in WeakPoints(o))
         /\ l \notin WeakPoints(o)' /\ (l \in WeakPoints(o) <=> y = o)
  BY <1>4, <1>5, <1>6, <1>7, <1>9 DEF WeakPoints, InLiveMemory
<1>14. ASSUME NEW o \in Objects
       PROVE  /\ CountBook(o, x)' /\ (y = o => weak[o] # 0 /\ weak'[o] = weak[o] - 1)
              /\ weak[o] \in Nat /\ (y # o => weak'[o] = weak[o])
  <2>1. CountBook(o, x)
    BY <1>2 DEF Books
  <2>2. WeakPoints(o) \subseteq WeakAt /\ WeakPoints(o)' \subseteq WeakAt
    BY DEF WeakPoints
  <2>3. PICK m : m = Cardinality(WeakPoints(o))
    OBVIOUS
  <2>4. PICK w : w = Cardinality(WeakPoints(o)')
    OBVIOUS
  <2>5. IsFiniteSet(WeakPoints(o)) /\ IsFiniteSet(WeakPoints(o)')
    BY <2>2, Countable
  <2>6. /\ m \in Nat /\ w \in Nat
        /\ (y # o => w = m) /\ (y = o => m = w + 1)
    BY <1>13, <2>3, <2>4, <2>5, OneChanged
  <2>7. weak[o] = m /\ weak[o] \in 0 .. CountWord - 1
    BY <1>1, <2>1, <2>3 DEF CountBook, TypeOK
  <2>8. CASE y = o
    <3>1. m # 0 /\ w = m - 1
      BY <2>6, <2>8
    <3>2. weak'[o] = (weak[o] - 1) % CountWord
      BY <1>1, <1>6, <1>8, <2>8 DEF TypeOK
    <3>3. weak'[o] = weak[o] - 1
      BY <2>7, <3>1, <3>2, Lowered
    <3> QED
      BY <1>7, <1>12, <2>1, <2>4, <2>6, <2>7, <2>8, <3>1, <3>3 DEF CountBook
  <2>9. CASE y # o
    <3>1. weak'[o] = weak[o]
      BY <1>1, <1>6, <1>8, <2>9 DEF TypeOK
    <3> QED
      BY <1>7, <1>12, <2>1, <2>4, <2>6, <2>7, <2>9, <3>1 DEF CountBook
  <2> QED
    BY <2>8, <2>9
<1>15. /\ \A o \in Objects : y # o => block'[o] = block[o]
       /\ y # Null => /\ ref[y] = 0 /\ weak'[y] = 0 => block'[y] = "deleted"
                      /\ ref[y] # 0 \/ weak'[y] # 0 => block'[y] = "live"
       /\ block' \in [Objects -> {"none", "live", "deleted"}]
  BY <1>1, <1>6, <1>7, <1>8 DEF TypeOK
<1>16. ASSUME NEW o \in Objects PROVE BlockBook(o)'
  <2>1. BlockBook(o)
    BY <1>2 DEF Books
  <2>2. CASE y = o
    BY <1>6, <1>7, <1>11, <1>15, <2>2 DEF BlockBook
  <2>3. CASE y # o
    <3>1. block'[o] = block[o] /\ weak'[o] = weak[o]
      BY <1>14, <1>15, <2>3
    <3>2. ASSUME NEW k \in Ending PROVE k \in Ending' /\ data'[k] = data[k]
      BY <1>5, <1>9, <1>11, <3>2 DEF Ending
    <3> QED
      BY <1>7, <2>1, <3>1, <3>2 DEF BlockBook
  <2> QED
    BY <2>2, <2>3
<1>17. ASSUME NEW o \in Objects PROVE ObjectBook(o)'
  <2>1. ObjectBook(o)
    BY <1>2 DEF Books
  <2>2. /\ data'[NextOf(o)] = data[NextOf(o)]
        /\ data[SelfOf(o)] = Null => data'[SelfOf(o)] = Null
    BY <1>5, <1>9, Places
  <2>3. (block[o] = "none") <=> (block'[o] = "none")
    BY <1>6, <1>7, <1>15
  <2> QED
    BY <1>7, <1>11, <2>1, <2>2, <2>3 DEF ObjectBook
<1>18. Copying(x)'
  <2>1. Copying(x)
    BY <1>2 DEF Books
  <2>2. ASSUME NEW f \in Frames, f.op = "copy"
        PROVE  f \in Frames' /\ data'[f.from] = data[f.from]
    <3>1. f.from \in SharedAt
      BY <1>1, <2>2, AssignedAt
    <3> QED
      BY <1>1, <1>5, <1>9, <1>11, <2>2, <3>1
  <2>3. \A k : Alive(k)' <=> Alive(k)
    BY <1>7, <1>11 DEF Alive
  <2> QED
    BY <1>11, <2>1, <2>2, <2>3 DEF Copying
<1>19. ASSUME NEW f \in Frames' PROVE FrameSound(f)'
  <2>1. f \in Frames /\ FrameSound(f)
    BY <1>1, <1>11, TopFacts
  <2>2. f.op = "free" => FreeSound(f.at[2])'
    BY <1>7, <2>1 DEF FrameSound, FreeSound
  <2>3. ASSUME f.op = "deleted" PROVE EndSound(data[f.at])'
    <3>1. PICK j \in 2 .. Len(stack) : f = stack[j]
      BY <1>11
    <3>2. PICK v : v = data[f.at]
      OBVIOUS
    <3>3. data'[f.at] = v /\ FreeSound(v) /\ EndSound(v)
      BY <1>1, <1>5, <1>9, <1>10, <2>1, <2>3, <3>1, <3>2, Waiting DEF FrameSound
    <3>4. CASE v = y
      BY <1>6, <1>7, <3>3, <3>4 DEF EndSound, FreeSound
    <3>5. CASE v # y
      BY <1>7, <1>15, <3>3, <3>5 DEF EndSound
    <3> QED
      BY <3>4, <3>5
  <2>4. ASSUME f.op \in {"copy", "move"} PROVE AssignSound(f)'
    <3>1. AssignSound(f)
      BY <2>1, <2>4 DEF FrameSound
    <3>2. PICK A \in SUBSET Objects : Supported(A, f.at)
      BY <3>1 DEF AssignSound
    <3>3. \A a \in A : obj'[a] = obj[a] /\ a \notin Dying'
      BY <1>7, <1>11, <3>2 DEF Supported
    <3>4. \A k \in SharedAt : data'[k] = data[k]
      BY <1>5, <1>9
    <3>5. Supported(A, f.at)'
      BY <1>7, <3>2, <3>3, <3>4, SupportKept
    <3>6. Alive(f.from) \/ hazards # {} => Alive(f.from)' \/ hazards' # {}
      BY <1>7, <1>11 DEF Alive
    <3> QED
      BY <3>1, <3>5, <3>6 DEF AssignSound
  <2> QED
    BY <2>1, <2>2, <2>3, <2>4 DEF FrameSound
<1>20. MembersEmpty' /\ MemoryFreed'
  <2>1. MembersEmpty /\ Top = stack[1]
    BY <1>1, TopFacts DEF StackSound
  <2>2. ASSUME NEW o \in Dying PROVE data'[SelfOf(o)] = Null
    <3>1. CASE o = l[2]
      BY <1>5, <1>9, <3>1
    <3>2. CASE o # l[2]
      <4>1. SelfOf(o) # l
        BY <1>5, <3>2 DEF SelfOf
      <4>2. data[SelfOf(o)] = Null
        BY <1>3, <2>1, <2>2, <4>1 DEF MembersEmpty
      <4>3. SelfOf(o) \in WeakAt
        BY <2>2, Places DEF Dying
      <4> QED
        BY <1>9, <4>1, <4>2, <4>3
    <3> QED
      BY <3>1, <3>2
  <2>3. stack' # <<>> => stack'[1].op = "destroy"
    BY <1>5, <1>11
  <2> QED
    BY <1>11, <2>2, <2>3 DEF MembersEmpty, MemoryFreed
<1>21. TypeOK'
  <2>1. \A o \in Objects : CountBook(o, x)'
    BY <1>14
  <2>2. ref' = [o \in Objects |-> ref'[o]] /\ weak' = [o \in Objects |-> weak'[o]]
    BY <1>1, <1>7, <1>8 DEF TypeOK
  <2>3. /\ ref' \in [Objects -> 0 .. CountWord - 1]
        /\ weak' \in [Objects -> 0 .. CountWord - 1]
    BY <2>1, <2>2, Ranges
  <2>4. hazards' \subseteq {"backReference", "sourceDied"}
    BY <1>1, <1>7 DEF TypeOK
  <2> QED
    BY <1>1, <1>7, <1>9, <1>11, <1>15, <2>3, <2>4 DEF TypeOK
<1>22. Books(x)'
  <2>1. x \in Objects \cup {Null}
    BY <1>2 DEF Books
  <2> QED
    BY <1>14, <1>16, <1>17, <1>18, <2>1 DEF Books
<1>23. StackSound'
  BY <1>11, <1>19, <1>20 DEF StackSound
<1>24. FreedOnlyThroughHazard'
  BY <1>7 DEF FreedOnlyThroughHazard, PointerInv, DestroyWeak, Doing, Running
<1> QED
  BY <1>21, <1>22, <1>23, <1>24 DEF PointerInv

LEMMA FreeMemorySound ==
  ASSUME PointerInv, FreeMemory
  PROVE  PointerInv'
<1>1. TypeOK /\ StackSound /\ stack # <<>> /\ Top.op = "free" /\ error = "none"
  BY DEF PointerInv, FreeMemory, Doing, Running
<1>2. PICK x : Books(x)
  BY DEF PointerInv, FreeMemory, Doing
<1>3. PICK l : l = Top.at
  OBVIOUS
<1>4. PICK p : p = l[2]
  OBVIOUS
<1>5. /\ Top = stack[1] /\ Top \in Frames /\ Len(stack) \in Nat \ {0}
      /\ \A f \in Frames : f \in FrameType /\ FrameSound(f)
  BY <1>1, TopFacts
<1>6. /\ l \in SharedAt /\ l = NextOf(p) /\ p \in Objects /\ p \in Dying
      /\ obj[p] = "live" /\ ref[p] = 0 /\ unique # p
  <2>1. l \in SharedAt /\ l[1] = "next" /\ FreeSound(p)
    BY <1>1, <1>3, <1>4, <1>5 DEF FrameSound
  <2>2. l = NextOf(p)
    BY <1>4, <2>1, Places
  <2> QED
    BY <1>1, <1>3, <1>5, <2>1, <2>2 DEF FreeSound, Dying
<1>7. /\ obj' = [obj EXCEPT ![p] = "deleted"] /\ stack' = Tail(stack)
      /\ block' = block /\ ref' = ref /\ weak' = weak /\ data' = data
      /\ unique' = unique /\ error' = error /\ hazards' = hazards
  BY <1>3, <1>4 DEF FreeMemory
<1>8. /\ obj' \in [Objects -> {"none", "live", "deleted"}] /\ obj'[p] = "deleted"
      /\ \A o \in Objects : o # p => obj'[o] = obj[o]
  BY <1>1, <1>6, <1>7 DEF TypeOK
<1>9. /\ stack' \in Seq(FrameType) /\ Shape(stack, data)' /\ Frames' \subseteq Frames
      /\ \A f \in Frames : f = Top \/ f \in Frames'
      /\ \A f \in Frames' : \E j \in 2 .. Len(stack) : f = stack[j]
      /\ stack' # <<>> => Len(stack) > 1 /\ stack'[1] = stack[2]
      /\ Ending' = Ending
  BY <1>1, <1>7, Popped
<1>10. \A f \in Frames' : f.op = "free" => f.at # l
  <2>1. SUFFICES ASSUME NEW j \in 2 .. Len(stack), stack[j].op = "free", stack[j].at = l
                 PROVE  FALSE
    BY <1>9
  <2>2. 1 \in 1 .. Len(stack) /\ j \in 1 .. Len(stack) /\ j # 1
    BY <1>5
  <2> QED
    BY <1>1, <1>3, <1>5, <2>1, <2>2 DEF StackSound, Shape
<1>11. Dying' = Dying \ {p}
  <2>1. ASSUME NEW o \in Objects, o # p PROVE (o \in Dying') <=> (o \in Dying)
    <3>1. NextOf(o) # l
      BY <1>6, <2>1 DEF NextOf
    <3> QED
      BY <1>3, <1>9, <3>1 DEF Dying
  <2>2. p \notin Dying'
    BY <1>6, <1>10 DEF Dying
  <2>3. Dying \subseteq Objects /\ Dying' \subseteq Objects
    BY DEF Dying
  <2> QED
    BY <2>1, <2>2, <2>3
<1>12. data[NextOf(p)] = Null /\ data[SelfOf(p)] = Null
  BY <1>1, <1>3, <1>5, <1>6 DEF StackSound, MembersEmpty
<1>13. \A k \in SharedAt \cup WeakAt :
         data[k] # Null => (InLiveMemory(k)' <=> InLiveMemory(k))
  <2>1. ASSUME NEW k \in SharedAt \cup WeakAt, data[k] # Null, k[1] # "var"
        PROVE  k[2] \in Objects /\ k[2] # p
    BY <1>12, <2>1, Places
  <2> QED
    BY <1>8, <2>1 DEF InLiveMemory
<1>14. ASSUME NEW o \in Objects
       PROVE  Points(o)' = Points(o) /\ WeakPoints(o)' = WeakPoints(o)
  <2>1. o # Null
    BY PointerAssumption
  <2> QED
    BY <1>7, <1>9, <1>13, <2>1 DEF Points, WeakPoints
<1>15. \A k \in SharedAt : Alive(k)' <=> Alive(k)
  <2>1. ASSUME NEW k \in SharedAt, k[1] = "next" PROVE Alive(k)' <=> Alive(k)
    <3>1. k[2] \in Objects
      BY <2>1, Places
    <3> QED
      BY <1>6, <1>8, <1>11, <3>1 DEF Alive
  <2> QED
    BY <2>1 DEF Alive
<1>16. Books(x)'
  <2>1. x \in Objects \cup {Null} /\ Copying(x)
    BY <1>2 DEF Books
  <2>2. Copying(x)'
    <3>1. \A f \in Frames : f.op = "copy" => f \in Frames' /\ f.from \in SharedAt
      BY <1>1, <1>9, AssignedAt
    <3> QED
      BY <1>7, <1>9, <1>15, <2>1, <3>1 DEF Copying
  <2>3. ASSUME NEW o \in Objects
        PROVE  CountBook(o, x)' /\ BlockBook(o)' /\ ObjectBook(o)'
    <3>1. CountBook(o, x) /\ BlockBook(o) /\ ObjectBook(o)
      BY <1>2 DEF Books
    <3>2. CountBook(o, x)'
      BY <1>7, <1>14, <3>1 DEF CountBook
    <3>3. BlockBook(o)'
      BY <1>7, <1>9, <3>1 DEF BlockBook
    <3>4. ObjectBook(o)'
      <4>1. CASE o = p
        BY <1>6, <1>7, <1>8, <1>11, <3>1, <4>1 DEF ObjectBook
      <4>2. CASE o # p
        BY <1>7, <1>8, <1>11, <3>1, <4>2 DEF ObjectBook
      <4> QED
        BY <4>1, <4>2
    <3> QED
      BY <3>2, <3>3, <3>4
  <2> QED
    BY <2>1, <2>2, <2>3 DEF Books
<1>17. ASSUME NEW f \in Frames' PROVE FrameSound(f)'
  <2>1. f \in Frames /\ FrameSound(f)
    BY <1>1, <1>9, TopFacts
  <2>2. ASSUME f.op = "free" PROVE FreeSound(f.at[2])'
    <3>1. FreeSound(f.at[2]) /\ f.at \in SharedAt /\ f.at[1] = "next"
      BY <2>1, <2>2 DEF FrameSound
    <3>2. f.at[2] # p
      BY <1>6, <1>10, <2>2, <3>1, Places
    <3> QED
      BY <1>7, <1>8, <3>1, <3>2 DEF FreeSound
  <2>3. f.op = "deleted" => EndSound(data[f.at])'
    BY <1>7, <2>1 DEF FrameSound, EndSound
  <2>4. ASSUME f.op \in {"copy", "move"} PROVE AssignSound(f)'
    <3>1. AssignSound(f)
      BY <2>1, <2>4 DEF FrameSound
    <3>2. PICK A \in SUBSET Objects : Supported(A, f.at)
      BY <3>1 DEF AssignSound
    <3>3. \A a \in A : obj'[a] = obj[a] /\ a \notin Dying'
      BY <1>6, <1>8, <1>11, <3>2 DEF Supported
    <3>4. Supported(A, f.at)'
      BY <1>7, <3>2, <3>3, SupportKept
    <3> QED
      BY <1>7, <1>15, <3>1, <3>4 DEF AssignSound
  <2> QED
    BY <2>1, <2>2, <2>3, <2>4 DEF FrameSound
<1>18. MembersEmpty' /\ MemoryFreed'
  <2>1. MembersEmpty
    BY <1>1 DEF StackSound
  <2>2. \A o \in Dying' : data'[SelfOf(o)] = Null
    BY <1>1, <1>5, <1>7, <1>11, <2>1 DEF MembersEmpty
  <2>3. ASSUME stack' # <<>>
        PROVE  stack'[1].op = "deleted" /\ data'[stack'[1].at] = p
    <3>1. stack'[1] = stack[2] /\ Link(Top, stack[2], data)
      BY <1>1, <1>9, <2>3, TopFacts
    <3> QED
      BY <1>1, <1>3, <1>4, <1>7, <3>1 DEF Link
  <2> QED
    BY <1>8, <2>2, <2>3 DEF MembersEmpty, MemoryFreed
<1>19. StackSound'
  BY <1>9, <1>17, <1>18 DEF StackSound
<1>20. TypeOK'
  BY <1>1, <1>7, <1>8, <1>9 DEF TypeOK
<1>21. FreedOnlyThroughHazard'
  BY <1>1, <1>7 DEF FreedOnlyThroughHazard
<1> QED
  BY <1>16, <1>19, <1>20, <1>21 DEF PointerInv

\* Setting a pointer to null and returning, as both ends of a destruction do.
LEMMA Cleared ==
  ASSUME TypeOK, StackSound, stack # <<>>, Top.op \in {"destroy", "deleted"},
         NEW x, Copying(x),
         stack' = Tail(stack), data' = [data EXCEPT ![Top.at] = Null],
         obj' = obj, unique' = unique, hazards' = hazards
  PROVE  /\ stack' \in Seq(FrameType) /\ Shape(stack, data)' /\ Frames' \subseteq Frames
         /\ data' \in [SharedAt \cup WeakAt -> Objects \cup {Null}]
         /\ data'[Top.at] = Null
         /\ \A k \in SharedAt \cup WeakAt : k # Top.at => data'[k] = data[k]
         /\ Dying' = Dying /\ Ending' = Ending \ {Top.at}
         /\ Top.op = "destroy" => Top.at \notin Ending
         /\ \A f \in Frames' : f.op = "deleted" =>
              data'[f.at] = data[f.at] /\ FreeSound(data[f.at])
         /\ \A f \in Frames' : f.op \in {"copy", "move"} => AssignSound(f)'
         /\ MembersEmpty' /\ MemoryFreed' /\ Copying(x)'
<1>1. PICK l : l = Top.at
  OBVIOUS
<1>2. PICK n : n = Len(stack)
  OBVIOUS
<1>3. /\ Top = stack[1] /\ Top \in Frames /\ n \in Nat \ {0}
      /\ \A f \in Frames : f \in FrameType /\ FrameSound(f)
  BY <1>2, TopFacts
<1>4. /\ l \in SharedAt
      /\ n > 1 => stack[2].op \in {"free", "copy", "move"} /\ stack[2].at = l
      /\ \A j \in 2 .. n : stack[j].op = "deleted" => stack[j].at # l
      /\ \A f \in Frames : f.op \in {"copy", "move"} =>
           f.at = l \/ (l[1] = "next" /\ l[2] \in Dying)
  BY <1>1, <1>2, DestroyedAt
<1>5. /\ data'[l] = Null
      /\ \A k \in SharedAt \cup WeakAt : k # l => data'[k] = data[k]
      /\ data' \in [SharedAt \cup WeakAt -> Objects \cup {Null}]
  BY <1>1, <1>4 DEF TypeOK
<1>6. \A j \in 2 .. n : stack[j].op = "deleted" =>
        stack[j] \in Frames /\ stack[j].at \in SharedAt /\ FreeSound(data[stack[j].at])
  BY <1>2, <1>3, Waiting DEF FrameSound
<1>7. \A j \in 2 .. n : stack[j].op = "deleted" => data'[stack[j].at] = data[stack[j].at]
  BY <1>4, <1>5, <1>6
<1>8. /\ stack' \in Seq(FrameType) /\ Shape(stack, data)' /\ Frames' \subseteq Frames
      /\ \A f \in Frames : f = Top \/ f \in Frames'
      /\ \A f \in Frames' : \E j \in 2 .. n : f = stack[j]
      /\ stack' # <<>> => n > 1 /\ stack'[1] = stack[2]
      /\ Dying' = Dying
  BY <1>2, <1>7, Popped
<1>9. \A f \in Frames' : f.op = "deleted" =>
        f.at # l /\ data'[f.at] = data[f.at] /\ FreeSound(data[f.at])
  BY <1>4, <1>6, <1>7, <1>8
<1>10. Ending' = Ending \ {l}
  <2>1. ASSUME NEW k \in SharedAt, k # l PROVE (k \in Ending') <=> (k \in Ending)
    BY <1>1, <1>8, <2>1 DEF Ending
  <2>2. l \notin Ending'
    BY <1>9 DEF Ending
  <2>3. Ending \subseteq SharedAt /\ Ending' \subseteq SharedAt
    BY DEF Ending
  <2> QED
    BY <2>1, <2>2, <2>3
<1>11. Top.op = "destroy" => l \notin Ending
  <2>1. ASSUME NEW f \in Frames, Top.op = "destroy", f.op = "deleted" PROVE f.at # l
    BY <1>8, <1>9, <2>1
  <2> QED
    BY <2>1 DEF Ending
<1>12. \A k : Alive(k)' <=> Alive(k)
  BY <1>8 DEF Alive
<1>13. ASSUME NEW f \in Frames', f.op \in {"copy", "move"} PROVE AssignSound(f)'
  <2>1. f \in Frames /\ AssignSound(f)
    BY <1>3, <1>8, <1>13 DEF FrameSound
  <2>2. PICK A \in SUBSET Objects : Supported(A, f.at)
    BY <2>1 DEF AssignSound
  <2>3. \A a \in A : obj'[a] = obj[a] /\ a \notin Dying'
    BY <1>8, <2>2 DEF Supported
  <2>4. ASSUME NEW k \in SharedAt \ {f.at}, k[1] = "next" => k[2] \in A
        PROVE  data'[k] = data[k]
    <3>1. k # l
      BY <1>4, <1>8, <1>13, <2>1, <2>3, <2>4
    <3> QED
      BY <1>5, <3>1
  <2>5. Supported(A, f.at)'
    BY <2>2, <2>3, <2>4, SupportKept
  <2> QED
    BY <1>12, <2>1, <2>5 DEF AssignSound
<1>14. Copying(x)'
  <2>1. ASSUME NEW f \in Frames, f.op = "copy"
        PROVE  f \in Frames' /\ (Alive(f.from) => data'[f.from] = data[f.from])
    <3>1. f.from \in SharedAt /\ f.at # f.from
      BY <2>1, AssignedAt
    <3>2. Alive(f.from) => f.from # l
      BY <1>4, <2>1, <3>1 DEF Alive
    <3> QED
      BY <1>5, <1>8, <2>1, <3>1, <3>2
  <2> QED
    BY <1>8, <1>12, <2>1 DEF Copying
<1>15. MembersEmpty' /\ MemoryFreed'
  <2>1. ASSUME NEW o \in Dying PROVE data'[SelfOf(o)] = Null
    <3>1. SelfOf(o) \in WeakAt /\ SelfOf(o) # l
      BY <1>4, Places DEF Dying
    <3>2. data[SelfOf(o)] = Null
      BY <1>3, <2>1 DEF StackSound, MembersEmpty
    <3> QED
      BY <1>5, <3>1, <3>2
  <2>2. stack' # <<>> => /\ stack'[1].op \in {"free", "copy", "move"}
                         /\ data'[stack'[1].at] = Null
    BY <1>4, <1>5, <1>8
  <2> QED
    BY <1>8, <2>1, <2>2 DEF MembersEmpty, MemoryFreed
<1> QED
  BY <1>1, <1>5, <1>8, <1>9, <1>10, <1>11, <1>13, <1>14, <1>15

LEMMA DestroyNotLastSound ==
  ASSUME PointerInv, DestroyNotLast
  PROVE  PointerInv'
<1>1. TypeOK /\ StackSound /\ stack # <<>> /\ Top.op = "destroy" /\ error = "none"
  BY DEF PointerInv, DestroyNotLast, Doing, Running
<1>2. PICK x : Books(x)
  BY DEF PointerInv, DestroyNotLast, Doing
<1>3. PICK l : l = Top.at
  OBVIOUS
<1>4. PICK y : y = data[l]
  OBVIOUS
<1>5. l \in SharedAt /\ InLiveMemory(l) /\ l \notin WeakAt
  BY <1>1, <1>3, DestroyedAt, Places
<1>6. y \in Objects \cup {Null} /\ Null \notin Objects
  BY <1>1, <1>4, <1>5, PointerAssumption DEF TypeOK
<1>7. /\ data' = [data EXCEPT ![l] = Null] /\ stack' = Tail(stack)
      /\ obj' = obj /\ block' = block /\ weak' = weak
      /\ unique' = unique /\ error' = error /\ hazards' = hazards
      /\ y # Null => block[y] = "live" /\ ref[y] # 1
      /\ ref' = IF y = Null THEN ref ELSE [ref EXCEPT ![y] = (@ - 1) % CountWord]
  BY <1>3, <1>4 DEF DestroyNotLast
<1>8. Copying(x) /\ x \in Objects \cup {Null}
  BY <1>2 DEF Books
<1>9. /\ stack' \in Seq(FrameType) /\ Shape(stack, data)' /\ Frames' \subseteq Frames
      /\ data' \in [SharedAt \cup WeakAt -> Objects \cup {Null}]
      /\ data'[l] = Null
      /\ \A k \in SharedAt \cup WeakAt : k # l => data'[k] = data[k]
      /\ Dying' = Dying /\ Ending' = Ending /\ l \notin Ending
      /\ \A f \in Frames' : f.op = "deleted" =>
           data'[f.at] = data[f.at] /\ FreeSound(data[f.at])
      /\ \A f \in Frames' : f.op \in {"copy", "move"} => AssignSound(f)'
      /\ MembersEmpty' /\ MemoryFreed' /\ Copying(x)'
  <2>1. Top.op \in {"destroy", "deleted"} /\ data' = [data EXCEPT ![Top.at] = Null]
    BY <1>1, <1>3, <1>7
  <2>2. Ending \ {l} = Ending <=> l \notin Ending
    OBVIOUS
  <2> QED
    BY <1>1, <1>3, <1>7, <1>8, <2>1, <2>2, Cleared
<1>10. \A o \in Objects : WeakPoints(o)' = WeakPoints(o)
  BY <1>5, <1>7, <1>9 DEF WeakPoints, InLiveMemory
<1>11. \A o \in Objects :
         /\ \A k : k # l => (k \in Points(o)' <=> k \in Points(o))
         /\ l \notin Points(o)' /\ (l \in Points(o) <=> y = o)
  BY <1>4, <1>5, <1>6, <1>7, <1>9 DEF Points, InLiveMemory
<1>12. ASSUME NEW o \in Objects
       PROVE  /\ CountBook(o, x)' /\ (y # o => ref'[o] = ref[o])
              /\ y = o => ref[o] \in Nat /\ ref'[o] \in Nat /\ ref[o] > 1 /\ ref'[o] > 0
  <2>1. CountBook(o, x)
    BY <1>2 DEF Books
  <2>2. Points(o) \subseteq SharedAt /\ Points(o)' \subseteq SharedAt
    BY DEF Points
  <2>3. PICK m : m = Cardinality(Points(o))
    OBVIOUS
  <2>4. PICK w : w = Cardinality(Points(o)')
    OBVIOUS
  <2>5. IsFiniteSet(Points(o)) /\ IsFiniteSet(Points(o)')
    BY <2>2, Countable
  <2>6. /\ m \in Nat /\ w \in Nat
        /\ (y # o => w = m) /\ (y = o => m = w + 1)
    BY <1>11, <2>3, <2>4, <2>5, OneChanged
  <2>7. PICK c : c = IF x = o THEN 1 ELSE 0
    OBVIOUS
  <2>8. ref[o] = m + c /\ c \in {0, 1} /\ ref[o] \in 0 .. CountWord - 1
    BY <1>1, <2>1, <2>3, <2>7 DEF CountBook, TypeOK
  <2>9. CASE y = o
    <3>1. ref[o] # 0 /\ ref[o] # 1
      BY <1>6, <1>7, <2>6, <2>8, <2>9
    <3>2. ref'[o] = (ref[o] - 1) % CountWord
      BY <1>1, <1>6, <1>7, <2>9 DEF TypeOK
    <3>3. ref[o] \in Nat /\ ref'[o] = ref[o] - 1
      BY <2>8, <3>1, <3>2, Lowered
    <3>4. ref'[o] = w + c /\ ref[o] > 1 /\ ref'[o] > 0 /\ ref'[o] \in Nat
      BY <2>6, <2>8, <2>9, <3>1, <3>3
    <3> QED
      BY <1>7, <1>10, <2>1, <2>4, <2>7, <2>9, <3>3, <3>4 DEF CountBook
  <2>10. CASE y # o
    <3>1. ref'[o] = ref[o]
      BY <1>1, <1>6, <1>7, <2>10 DEF TypeOK
    <3>2. ref'[o] = w + c
      BY <2>6, <2>8, <2>10, <3>1
    <3> QED
      BY <1>7, <1>10, <2>1, <2>4, <2>7, <2>10, <3>1, <3>2 DEF CountBook
  <2> QED
    BY <2>9, <2>10
<1>13. \A o \in Objects : ref'[o] = 0 <=> ref[o] = 0
  <2>1. SUFFICES ASSUME NEW o \in Objects PROVE ref'[o] = 0 <=> ref[o] = 0
    OBVIOUS
  <2>2. CASE y = o
    BY <1>12, <2>2
  <2> QED
    BY <1>12, <2>2
<1>14. ASSUME NEW o \in Objects PROVE BlockBook(o)' /\ ObjectBook(o)'
  <2>1. BlockBook(o) /\ ObjectBook(o)
    BY <1>2 DEF Books
  <2>2. ASSUME NEW k \in Ending, data[k] = o PROVE data'[k] = o
    BY <1>9, <2>2 DEF Ending
  <2>3. BlockBook(o)'
    BY <1>7, <1>9, <1>13, <2>1, <2>2 DEF BlockBook
  <2>4. /\ data[NextOf(o)] = Null => data'[NextOf(o)] = Null
        /\ data[SelfOf(o)] = Null => data'[SelfOf(o)] = Null
    BY <1>9, Places
  <2>5. ref'[o] > 0 <=> ref[o] > 0
    BY <1>12
  <2>6. ObjectBook(o)'
    BY <1>7, <1>9, <2>1, <2>4, <2>5 DEF ObjectBook
  <2> QED
    BY <2>3, <2>6
<1>15. ASSUME NEW f \in Frames' PROVE FrameSound(f)'
  <2>1. f \in Frames /\ FrameSound(f)
    BY <1>1, <1>9, TopFacts
  <2>2. f.op = "free" => FreeSound(f.at[2])'
    BY <1>7, <1>13, <2>1 DEF FrameSound, FreeSound
  <2>3. f.op = "deleted" => EndSound(data[f.at])'
    BY <1>7, <1>9, <1>13, <2>1 DEF FrameSound, EndSound
  <2> QED
    BY <1>9, <2>1, <2>2, <2>3 DEF FrameSound
<1>16. StackSound'
  BY <1>9, <1>15 DEF StackSound
<1>17. Books(x)'
  BY <1>8, <1>9, <1>12, <1>14 DEF Books
<1>18. TypeOK'
  <2>1. \A o \in Objects : CountBook(o, x)'
    BY <1>12
  <2>2. ref' = [o \in Objects |-> ref'[o]] /\ weak' = [o \in Objects |-> weak'[o]]
    BY <1>1, <1>7 DEF TypeOK
  <2>3. ref' \in [Objects -> 0 .. CountWord - 1]
    BY <2>1, <2>2, Ranges
  <2> QED
    BY <1>1, <1>7, <1>9, <2>3 DEF TypeOK
<1>19. FreedOnlyThroughHazard'
  BY <1>1, <1>7 DEF FreedOnlyThroughHazard
<1> QED
  BY <1>16, <1>17, <1>18, <1>19 DEF PointerInv

LEMMA DestroyBlockSound ==
  ASSUME PointerInv, DestroyBlock
  PROVE  PointerInv'
<1>1. TypeOK /\ StackSound /\ stack # <<>> /\ Top.op = "deleted" /\ error = "none"
  BY DEF PointerInv, DestroyBlock, Doing, Running
<1>2. PICK x : Books(x)
  BY DEF PointerInv, DestroyBlock, Doing
<1>3. PICK l : l = Top.at
  OBVIOUS
<1>4. PICK y : y = data[l]
  OBVIOUS
<1>5. l \in SharedAt /\ l \notin WeakAt /\ Top = stack[1] /\ Top \in Frames
  BY <1>1, <1>3, DestroyedAt, TopFacts, Places
<1>6. y \in Objects /\ ref[y] = 0 /\ Null \notin Objects /\ obj[y] = "deleted"
  <2>1. FrameSound(Top)
    BY <1>1, <1>5, TopFacts
  <2> QED
    BY <1>1, <1>3, <1>4, <1>5, <2>1, PointerAssumption
    DEF FrameSound, EndSound, StackSound, MemoryFreed
<1>7. /\ data' = [data EXCEPT ![l] = Null] /\ stack' = Tail(stack)
      /\ obj' = obj /\ ref' = ref /\ weak' = weak
      /\ unique' = unique /\ error' = error /\ hazards' = hazards
      /\ block[y] = "live"
      /\ block' = IF weak[y] = 0 THEN [block EXCEPT ![y] = "deleted"] ELSE block
  BY <1>3, <1>4 DEF DestroyBlock, BlockWithoutObject
<1>8. Copying(x) /\ x \in Objects \cup {Null}
  BY <1>2 DEF Books
<1>9. /\ stack' \in Seq(FrameType) /\ Shape(stack, data)' /\ Frames' \subseteq Frames
      /\ data' \in [SharedAt \cup WeakAt -> Objects \cup {Null}]
      /\ data'[l] = Null
      /\ \A k \in SharedAt \cup WeakAt : k # l => data'[k] = data[k]
      /\ Dying' = Dying /\ Ending' = Ending \ {l}
      /\ \A f \in Frames' : f.op = "deleted" =>
           data'[f.at] = data[f.at] /\ FreeSound(data[f.at])
      /\ \A f \in Frames' : f.op \in {"copy", "move"} => AssignSound(f)'
      /\ MembersEmpty' /\ MemoryFreed' /\ Copying(x)'
  <2>1. Top.op \in {"destroy", "deleted"} /\ data' = [data EXCEPT ![Top.at] = Null]
    BY <1>1, <1>3, <1>7
  <2> QED
    BY <1>1, <1>3, <1>7, <1>8, <2>1, Cleared
<1>10. \A o \in Objects : WeakPoints(o)' = WeakPoints(o)
  BY <1>5, <1>7, <1>9 DEF WeakPoints, InLiveMemory
<1>11. \A o \in Objects : Points(o)' = Points(o)
  <2>1. l \in Ending
    BY <1>1, <1>3, <1>5 DEF Ending
  <2> QED
    BY <1>6, <1>7, <1>9, <2>1 DEF Points, InLiveMemory
<1>12. /\ \A o \in Objects : o # y => block'[o] = block[o]
       /\ weak[y] = 0 => block'[y] = "deleted"
       /\ weak[y] # 0 => block'[y] = "live"
       /\ block' \in [Objects -> {"none", "live", "deleted"}]
  BY <1>1, <1>6, <1>7 DEF TypeOK
<1>13. ASSUME NEW o \in Objects
       PROVE  CountBook(o, x)' /\ BlockBook(o)' /\ ObjectBook(o)'
  <2>1. CountBook(o, x) /\ BlockBook(o) /\ ObjectBook(o)
    BY <1>2 DEF Books
  <2>2. CountBook(o, x)'
    BY <1>7, <1>10, <1>11, <2>1 DEF CountBook
  <2>3. BlockBook(o)'
    <3>1. CASE o = y
      BY <1>6, <1>7, <1>12, <3>1 DEF BlockBook
    <3>2. CASE o # y
      <4>1. ASSUME NEW k \in Ending, data[k] = o PROVE k \in Ending' /\ data'[k] = o
        BY <1>4, <1>9, <3>2, <4>1 DEF Ending
      <4> QED
        BY <1>7, <1>12, <2>1, <3>2, <4>1 DEF BlockBook
    <3> QED
      BY <3>1, <3>2
  <2>4. ObjectBook(o)'
    <3>1. /\ data[NextOf(o)] = Null => data'[NextOf(o)] = Null
          /\ data[SelfOf(o)] = Null => data'[SelfOf(o)] = Null
      BY <1>9, Places
    <3>2. block[o] = "none" <=> block'[o] = "none"
      BY <1>7, <1>12
    <3> QED
      BY <1>7, <1>9, <2>1, <3>1, <3>2 DEF ObjectBook
  <2> QED
    BY <2>2, <2>3, <2>4
<1>14. ASSUME NEW f \in Frames' PROVE FrameSound(f)'
  <2>1. f \in Frames /\ FrameSound(f)
    BY <1>1, <1>9, TopFacts
  <2>2. f.op = "free" => FreeSound(f.at[2])'
    BY <1>7, <2>1 DEF FrameSound, FreeSound
  <2>3. ASSUME f.op = "deleted" PROVE EndSound(data[f.at])'
    <3>1. PICK v : v = data[f.at]
      OBVIOUS
    <3>2. data'[f.at] = v /\ EndSound(v) /\ v # y
      BY <1>6, <1>9, <2>1, <2>3, <3>1 DEF FrameSound, FreeSound
    <3> QED
      BY <1>7, <1>12, <3>2 DEF EndSound
  <2> QED
    BY <1>9, <2>1, <2>2, <2>3 DEF FrameSound
<1>15. StackSound'
  BY <1>9, <1>14 DEF StackSound
<1>16. Books(x)'
  BY <1>8, <1>9, <1>13 DEF Books
<1>17. TypeOK'
  BY <1>1, <1>7, <1>9, <1>12 DEF TypeOK
<1>18. FreedOnlyThroughHazard'
  BY <1>1, <1>7 DEF FreedOnlyThroughHazard
<1> QED
  BY <1>15, <1>16, <1>17, <1>18 DEF PointerInv

\* What makes a stack of calls well formed.
LEMMA ShapeOf ==
  ASSUME NEW t, NEW e,
         \A i \in 1 .. Len(t) - 1 : Link(t[i], t[i + 1], e),
         Outermost(t[Len(t)]),
         \A i, j \in 1 .. Len(t) :
           (t[i].op = "free" /\ t[j].op = "free" /\ t[i].at = t[j].at) => i = j
  PROVE  Shape(t, e)
BY DEF Shape

\* The calls that delete the object of the last pointer to it.
LEMMA Pushed ==
  ASSUME TypeOK, StackSound, stack # <<>>, Top.op = "destroy",
         NEW y \in Objects, y \notin Dying, data[Top.at] = y, data' = data,
         NEW a, a = Frame("destroyWeak", SelfOf(y), Null),
         NEW b, b = Frame("destroy", NextOf(y), Null),
         NEW c, c = Frame("free", NextOf(y), Null),
         NEW d, d = Frame("deleted", Top.at, Null),
         stack' = <<a, b, c>> \o (<<d>> \o Tail(stack))
  PROVE  /\ stack' \in Seq(FrameType) /\ Shape(stack, data)' /\ stack'[1] = a
         /\ \A f \in Frames' : f \in Frames \/ f \in {a, b, c, d}
         /\ \A f \in Frames : f = Top \/ f \in Frames'
         /\ Dying' = Dying \cup {y} /\ Ending' = Ending \cup {Top.at}
<1>1. PICK n : n = Len(stack)
  OBVIOUS
<1>2. /\ Top = stack[1] /\ Top \in Frames /\ n \in Nat \ {0}
      /\ n = 1 => Outermost(Top)
      /\ n > 1 => Link(Top, stack[2], data)
  BY <1>1, TopFacts
<1>3. PICK l : l = Top.at
  OBVIOUS
<1>4. l \in SharedAt
  BY <1>3, DestroyedAt
<1>5. /\ a \in FrameType /\ b \in FrameType /\ c \in FrameType /\ d \in FrameType
      /\ a.op = "destroyWeak" /\ b.op = "destroy" /\ c.op = "free" /\ d.op = "deleted"
      /\ a.at = SelfOf(y) /\ b.at = NextOf(y) /\ c.at = NextOf(y) /\ d.at = l
      /\ SelfOf(y)[2] = y /\ NextOf(y)[2] = y
  BY <1>3, <1>4, Places DEF Frame, FrameType
<1>6. PICK s : s = Tail(stack)
  OBVIOUS
<1>7. /\ s \in Seq(FrameType) /\ Len(s) = n - 1
      /\ \A i \in 1 .. n - 1 : s[i] = stack[i + 1]
  BY <1>1, <1>6, PopFacts DEF TypeOK
<1>8. /\ stack' \in Seq(FrameType) /\ Len(stack') = Len(s) + 4
      /\ stack'[1] = a /\ stack'[2] = b /\ stack'[3] = c /\ stack'[4] = d
      /\ \A i \in 1 .. Len(s) : stack'[i + 4] = s[i]
  <2>1. PICK t : t = stack' /\ t = <<a, b, c>> \o (<<d>> \o s)
    BY <1>6
  <2>3. t = <<a, b, c>> \o (<<d>> \o s)
    BY <2>1
  <2>4. a \in FrameType /\ b \in FrameType /\ c \in FrameType /\ d \in FrameType
    BY <1>5
  <2>5. s \in Seq(FrameType)
    BY <1>7
  <2>2. /\ t \in Seq(FrameType) /\ Len(t) = Len(s) + 4
        /\ t[1] = a /\ t[2] = b /\ t[3] = c /\ t[4] = d
        /\ \A i \in 1 .. Len(s) : t[i + 4] = s[i]
    BY <2>3, <2>4, <2>5, PushFacts
  <2> QED
    BY <2>1, <2>2
<1>9. Len(stack') = n + 3 /\ \A i \in 5 .. n + 3 : stack'[i] = stack[i - 3]
  <2>1. Len(stack') = n + 3
    BY <1>2, <1>7, <1>8
  <2>2. ASSUME NEW i \in 5 .. n + 3 PROVE stack'[i] = stack[i - 3]
    <3>1. i - 4 \in 1 .. n - 1 /\ (i - 4) + 4 = i /\ (i - 4) + 1 = i - 3
      BY <1>2, <2>2
    <3> QED
      BY <1>7, <1>8, <3>1, SMTT(60)
  <2> QED
    BY <2>1, <2>2
<1>10. \A f \in Frames' : f \in Frames \/ f \in {a, b, c, d}
  <2>1. SUFFICES ASSUME NEW i \in 1 .. n + 3, i \notin {1, 2, 3, 4}
                 PROVE  stack'[i] \in Frames
    BY <1>8, <1>9 DEF Frames
  <2>2. i \in 5 .. n + 3 /\ i - 3 \in 1 .. n
    BY <1>2, <2>1
  <2> QED
    BY <1>1, <1>9, <2>2 DEF Frames
<1>11. {a, b, c, d} \subseteq Frames' /\ \A f \in Frames : f = Top \/ f \in Frames'
  <2>1. {a, b, c, d} \subseteq Frames'
    <3>1. 1 \in 1 .. n + 3 /\ 2 \in 1 .. n + 3 /\ 3 \in 1 .. n + 3 /\ 4 \in 1 .. n + 3
      BY <1>2
    <3> QED
      BY <1>8, <1>9, <3>1 DEF Frames
  <2>2. ASSUME NEW j \in 1 .. n, j # 1 PROVE stack[j] \in Frames'
    <3>1. j + 3 \in 5 .. n + 3 /\ j + 3 \in 1 .. n + 3 /\ (j + 3) - 3 = j
      BY <1>2, <2>2
    <3> QED
      BY <1>9, <3>1 DEF Frames
  <2>3. ASSUME NEW f \in Frames, f # Top PROVE f \in Frames'
    <3>1. PICK j \in 1 .. n : f = stack[j]
      BY <1>1, <2>3 DEF Frames
    <3> QED
      BY <1>2, <2>2, <2>3, <3>1
  <2> QED
    BY <2>1, <2>3
<1>12. Dying' = Dying \cup {y}
  <2>1. ASSUME NEW o \in Objects PROVE o \in Dying' <=> o \in Dying \/ o = y
    <3>1. NextOf(o) = NextOf(y) <=> o = y
      BY DEF NextOf
    <3> QED
      BY <1>5, <1>10, <1>11, <3>1, ZenonT(60) DEF Dying
  <2>2. Dying \subseteq Objects /\ Dying' \subseteq Objects
    BY DEF Dying
  <2> QED
    BY <2>1, <2>2
<1>13. Ending' = Ending \cup {l}
  <2>1. ASSUME NEW k \in SharedAt PROVE k \in Ending' <=> k \in Ending \/ k = l
    BY <1>5, <1>10, <1>11 DEF Ending
  <2>2. Ending \subseteq SharedAt /\ Ending' \subseteq SharedAt
    BY DEF Ending
  <2> QED
    BY <1>4, <2>1, <2>2
<1>14. Shape(stack, data)'
  <2>1. Link(a, b, data) /\ Link(b, c, data) /\ Link(c, d, data)
    BY <1>3, <1>5 DEF Link
  <2>2. n > 1 => Link(d, stack[2], data)
    BY <1>2, <1>3, <1>5 DEF Link
  <2>3. ASSUME NEW i \in 1 .. n + 2 PROVE Link(stack'[i], stack'[i + 1], data')
    <3>1. CASE i \in {1, 2, 3}
      BY <1>8, <2>1, <3>1
    <3>2. CASE i = 4
      <4>1. n > 1 /\ 5 \in 5 .. n + 3 /\ 5 - 3 = 2 /\ 4 + 1 = 5
        BY <1>2, <2>3, <3>2
      <4>2. stack'[5] = stack[2]
        BY <1>9, <4>1
      <4> QED
        BY <1>8, <2>2, <3>2, <4>1, <4>2
    <3>3. CASE i \notin {1, 2, 3, 4}
      <4>1. /\ i \in 5 .. n + 3 /\ i + 1 \in 5 .. n + 3
            /\ i - 3 \in 1 .. n - 1 /\ (i + 1) - 3 = (i - 3) + 1
        BY <1>2, <2>3, <3>3
      <4>2. Link(stack[i - 3], stack[(i - 3) + 1], data)
        BY <1>1, <4>1 DEF StackSound, Shape
      <4> QED
        BY <1>9, <4>1, <4>2
    <3> QED
      BY <3>1, <3>2, <3>3
  <2>4. Outermost(stack'[n + 3])
    <3>1. CASE n = 1
      <4>1. stack'[n + 3] = d /\ Outermost(d)
        BY <1>2, <1>3, <1>5, <1>8, <3>1 DEF Outermost
      <4> QED
        BY <4>1
    <3>2. CASE n # 1
      <4>1. n + 3 \in 5 .. n + 3 /\ (n + 3) - 3 = n
        BY <1>2, <3>2
      <4> QED
        BY <1>1, <1>9, <4>1 DEF StackSound, Shape
    <3> QED
      BY <3>1, <3>2
  <2>5. ASSUME NEW i \in 1 .. n + 3, stack'[i].op = "free"
        PROVE  \/ i = 3 /\ stack'[i].at = NextOf(y)
               \/ /\ i \in 5 .. n + 3 /\ i - 3 \in 1 .. n
                  /\ stack'[i] = stack[i - 3] /\ stack'[i].at # NextOf(y)
    <3>1. i \notin {1, 2, 4}
      BY <1>5, <1>8, <2>5
    <3>2. CASE i = 3
      BY <1>5, <1>8, <3>2
    <3>3. CASE i # 3
      <4>1. i \in 5 .. n + 3 /\ i - 3 \in 1 .. n
        BY <1>2, <2>5, <3>1, <3>3, SMTT(60)
      <4>2. stack'[i] = stack[i - 3] /\ stack[i - 3] \in Frames
        BY <1>1, <1>9, <4>1 DEF Frames
      <4> QED
        BY <2>5, <4>1, <4>2 DEF Dying
    <3> QED
      BY <3>2, <3>3
  <2>6. ASSUME NEW i \in 1 .. n + 3, NEW j \in 1 .. n + 3,
               stack'[i].op = "free", stack'[j].op = "free",
               stack'[i].at = stack'[j].at
        PROVE  i = j
    <3>1. CASE i = 3 \/ j = 3
      <4>1. stack'[3].at = NextOf(y)
        BY <1>5, <1>8
      <4>2. i # 3 => stack'[i].at # NextOf(y)
        BY <2>5, <2>6
      <4>3. j # 3 => stack'[j].at # NextOf(y)
        BY <2>5, <2>6
      <4>4. i = 3 => j = 3
        BY <2>6, <4>1, <4>3, ZenonT(60)
      <4>5. j = 3 => i = 3
        BY <2>6, <4>1, <4>2, ZenonT(60)
      <4> QED
        BY <3>1, <4>4, <4>5
    <3>2. CASE i # 3 /\ j # 3
      <4>1. /\ i - 3 \in 1 .. n /\ j - 3 \in 1 .. n
            /\ stack'[i] = stack[i - 3] /\ stack'[j] = stack[j - 3]
        BY <2>5, <2>6, <3>2, ZenonT(60)
      <4>2. i - 3 = j - 3
        BY <1>1, <2>6, <4>1, SMTT(60) DEF StackSound, Shape
      <4> QED
        BY <1>2, <4>1, <4>2
    <3> QED
      BY <3>1, <3>2
  <2>7. (n + 3) - 1 = n + 2
    BY <1>2
  <2> QED
    <3>1. PICK t, e : t = stack' /\ e = data'
      OBVIOUS
    <3>2. Len(t) = n + 3 /\ Len(t) - 1 = n + 2
      BY <1>9, <2>7, <3>1
    <3>3. \A i \in 1 .. Len(t) - 1 : Link(t[i], t[i + 1], e)
      BY <2>3, <3>1, <3>2
    <3>4. Outermost(t[Len(t)])
      BY <2>4, <3>1, <3>2
    <3>5. \A i, j \in 1 .. Len(t) :
            (t[i].op = "free" /\ t[j].op = "free" /\ t[i].at = t[j].at) => i = j
      BY <2>6, <3>1, <3>2, SMTT(60)
    <3>6. Shape(t, e)
      BY <3>3, <3>4, <3>5, ShapeOf
    <3> QED
      BY <3>1, <3>6
<1>15. stack' \in Seq(FrameType) /\ stack'[1] = a
  BY <1>8
<1>16. \A f \in Frames : f = Top \/ f \in Frames'
  BY <1>11
<1>17. Ending' = Ending \cup {Top.at}
  BY <1>3, <1>13
<1> QED
  BY <1>10, <1>12, <1>14, <1>15, <1>16, <1>17

\* What holds a member's object is not deleted with the last pointer to
\* something else.
LEMMA NotSupported ==
  ASSUME TypeOK, StackSound, stack # <<>>, Top.op = "destroy",
         NEW x, Books(x), NEW y \in Objects, data[Top.at] = y, ref[y] = 1, unique # y,
         NEW f \in Frames, f.op \in {"copy", "move"},
         NEW A \in SUBSET Objects, Supported(A, f.at)
  PROVE  y \notin A
<1> SUFFICES ASSUME y \in A PROVE FALSE
  OBVIOUS
<1>1. PICK l : l = Top.at
  OBVIOUS
<1>2. /\ l \in SharedAt /\ InLiveMemory(l)
      /\ f.at = l \/ (l[1] = "next" /\ l[2] \in Dying)
      /\ \A j \in 2 .. Len(stack) : stack[j].op = "deleted" => stack[j].at # l
  BY <1>1, DestroyedAt
<1>3. PICK k \in SharedAt \ {f.at} : data[k] = y /\ (k[1] = "next" => k[2] \in A)
  BY DEF Supported
<1>4. k # l
  BY <1>2, <1>3 DEF Supported
<1>5. \A g \in Frames : g.op = "deleted" => ref[data[g.at]] = 0
  BY TopFacts DEF FrameSound, EndSound
<1>6. k \notin Ending /\ l \notin Ending
  BY <1>1, <1>3, <1>5 DEF Ending
<1>7. InLiveMemory(k)
  <2>1. k[1] = "next" => obj[k[2]] = "live"
    BY <1>3 DEF Supported
  <2>2. k[1] = "next" \/ k[1] = "var"
    BY <1>3, Places
  <2> QED
    BY <2>1, <2>2 DEF InLiveMemory
<1>8. k \in Points(y) /\ l \in Points(y)
  BY <1>1, <1>2, <1>3, <1>6, <1>7 DEF Points
<1>9. PICK m : m = Cardinality(Points(y))
  OBVIOUS
<1>10. m \in Nat /\ m > 1
  <2>1. Points(y) \subseteq SharedAt
    BY DEF Points
  <2> QED
    BY <1>4, <1>8, <1>9, <2>1, Counts
<1>11. ref[y] = m \/ ref[y] = m + 1
  BY <1>9, <1>10 DEF Books, CountBook
<1> QED
  BY <1>10, <1>11

LEMMA DestroyLastSound ==
  ASSUME PointerInv, DestroyLast
  PROVE  PointerInv'
<1>1. TypeOK /\ StackSound /\ stack # <<>> /\ Top.op = "destroy" /\ error = "none"
  BY DEF PointerInv, DestroyLast, Doing, Running
<1>2. PICK x : Books(x)
  BY DEF PointerInv, DestroyLast, Doing
<1>3. PICK l : l = Top.at
  OBVIOUS
<1>4. PICK y : y = data[l]
  OBVIOUS
<1>5. l \in SharedAt /\ InLiveMemory(l) /\ l \notin WeakAt
  BY <1>1, <1>3, DestroyedAt, Places
<1>6. /\ y \in Objects /\ block[y] = "live" /\ ref[y] = 1
      /\ ref' = [ref EXCEPT ![y] = 0]
      /\ obj' = obj /\ block' = block /\ weak' = weak /\ data' = data
      /\ unique' = unique /\ error' = error
  BY <1>1, <1>3, <1>4, <1>5 DEF DestroyLast, TypeOK
<1>7. /\ \A o \in Objects : o # y => ref'[o] = ref[o]
      /\ ref'[y] = 0
  BY <1>1, <1>6 DEF TypeOK
<1>8. BlockBook(y) /\ ObjectBook(y) /\ CountBook(y, x) /\ x \in Objects \cup {Null}
  BY <1>2, <1>6 DEF Books
<1>9. y \notin Dying /\ unique # y /\ obj[y] = "live"
  <2>1. y \notin Dying
    BY <1>1, <1>6, DyingLive DEF FreeSound
  <2> QED
    BY <1>6, <1>8, <2>1 DEF ObjectBook
<1>10. PICK a, b, c, d : /\ a = Frame("destroyWeak", SelfOf(y), Null)
                         /\ b = Frame("destroy", NextOf(y), Null)
                         /\ c = Frame("free", NextOf(y), Null)
                         /\ d = Frame("deleted", l, Null)
  OBVIOUS
<1>11. /\ stack' = <<a, b, c>> \o (<<d>> \o Tail(stack))
       /\ hazards' = hazards \cup {h \in {"sourceDied"} : SourceIn(y)}
  BY <1>3, <1>4, <1>10 DEF DestroyLast, Delete
<1>12. /\ stack' \in Seq(FrameType) /\ Shape(stack, data)' /\ stack'[1] = a
       /\ \A f \in Frames' : f \in Frames \/ f \in {a, b, c, d}
       /\ \A f \in Frames : f = Top \/ f \in Frames'
       /\ Dying' = Dying \cup {y} /\ Ending' = Ending \cup {l}
  BY <1>1, <1>3, <1>4, <1>6, <1>9, <1>10, <1>11, Pushed, ZenonT(60)
<1>13. l \notin Ending
  <2>1. \A f \in Frames : f.op = "deleted" => ref[data[f.at]] = 0
    BY <1>1, TopFacts DEF FrameSound, EndSound
  <2> QED
    BY <1>4, <1>6, <2>1 DEF Ending
<1>14. /\ Points(y) = {l} /\ Points(y)' = {} /\ x # y
       /\ \A o \in Objects : WeakPoints(o)' = WeakPoints(o)
       /\ \A o \in Objects : o # y => Points(o)' = Points(o)
  <2>1. l \in Points(y)
    BY <1>4, <1>5, <1>13 DEF Points
  <2>2. PICK m : m = Cardinality(Points(y))
    OBVIOUS
  <2>3. /\ m \in Nat /\ (m = 0 <=> Points(y) = {})
        /\ \A k \in Points(y) : k # l => m > 1
    <3>1. Points(y) \subseteq SharedAt
      BY DEF Points
    <3> QED
      BY <2>1, <2>2, <3>1, Counts
  <2>4. PICK e : e = IF x = y THEN 1 ELSE 0
    OBVIOUS
  <2>5. m + e = 1
    BY <1>6, <1>8, <2>2, <2>4 DEF CountBook
  <2>6. m = 1 /\ e = 0
    BY <2>1, <2>3, <2>4, <2>5
  <2>7. x # y /\ Points(y) = {l}
    BY <2>1, <2>3, <2>4, <2>6
  <2>8. Points(y)' = {}
    BY <1>6, <1>12, <2>7 DEF Points, InLiveMemory
  <2>9. ASSUME NEW o \in Objects PROVE WeakPoints(o)' = WeakPoints(o)
    BY <1>6 DEF WeakPoints, InLiveMemory
  <2>10. ASSUME NEW o \in Objects, o # y PROVE Points(o)' = Points(o)
    BY <1>4, <1>6, <1>12, <2>10 DEF Points, InLiveMemory
  <2> QED
    BY <2>7, <2>8, <2>9, <2>10
<1>15. ASSUME NEW o \in Objects
       PROVE  CountBook(o, x)' /\ BlockBook(o)' /\ ObjectBook(o)'
  <2>1. CountBook(o, x) /\ BlockBook(o) /\ ObjectBook(o)
    BY <1>2 DEF Books
  <2>2. CASE o = y
    <3>1. Cardinality({}) = 0
      BY FS_EmptySet
    <3>2. CountBook(o, x)'
      BY <1>6, <1>7, <1>14, <2>1, <2>2, <3>1 DEF CountBook
    <3>3. BlockBook(o)'
      BY <1>4, <1>6, <1>7, <1>12, <2>2 DEF BlockBook
    <3>4. ObjectBook(o)'
      BY <1>6, <1>7, <1>9, <1>12, <2>1, <2>2 DEF ObjectBook
    <3> QED
      BY <3>2, <3>3, <3>4
  <2>3. CASE o # y
    <3>1. CountBook(o, x)'
      BY <1>6, <1>7, <1>14, <2>1, <2>3 DEF CountBook
    <3>2. BlockBook(o)'
      BY <1>6, <1>7, <1>12, <2>1, <2>3 DEF BlockBook
    <3>3. ObjectBook(o)'
      BY <1>6, <1>7, <1>12, <2>1, <2>3 DEF ObjectBook
    <3> QED
      BY <3>1, <3>2, <3>3
  <2> QED
    BY <2>2, <2>3
<1>16. \A k : Alive(k)' => Alive(k)
  BY <1>6, <1>12 DEF Alive
<1>17. Copying(x)'
  <2>1. Copying(x)
    BY <1>2 DEF Books
  <2>2. \A f \in Frames' : f.op = "copy" => f \in Frames
    BY <1>10, <1>12 DEF Frame
  <2>3. \A f \in Frames : f.op = "copy" => f \in Frames'
    BY <1>1, <1>12
  <2> QED
    BY <1>6, <1>16, <2>1, <2>2, <2>3 DEF Copying
<1>18. ASSUME NEW f \in Frames', f \in Frames PROVE FrameSound(f)'
  <2>1. FrameSound(f) /\ f \in FrameType
    BY <1>1, <1>18, TopFacts
  <2>2. f.op = "free" => FreeSound(f.at[2])'
    BY <1>6, <1>7, <2>1 DEF FrameSound, FreeSound
  <2>3. ASSUME f.op = "deleted" PROVE EndSound(data[f.at])'
    <3>1. PICK v : v = data[f.at]
      OBVIOUS
    <3>2. data'[f.at] = v /\ EndSound(v)
      BY <1>6, <2>1, <2>3, <3>1 DEF FrameSound
    <3>3. v # y /\ hazards \subseteq hazards'
      BY <1>6, <1>11, <3>2 DEF EndSound
    <3> QED
      BY <1>6, <1>7, <3>2, <3>3 DEF EndSound
  <2>4. ASSUME f.op \in {"copy", "move"} PROVE AssignSound(f)'
    <3>1. AssignSound(f)
      BY <2>1, <2>4 DEF FrameSound
    <3>2. PICK A \in SUBSET Objects : Supported(A, f.at)
      BY <3>1 DEF AssignSound
    <3>3. y \notin A
      BY <1>1, <1>2, <1>3, <1>4, <1>6, <1>9, <1>18, <2>4, <3>2, NotSupported
    <3>4. \A q \in A : obj'[q] = obj[q] /\ q \notin Dying'
      BY <1>6, <1>12, <3>2, <3>3 DEF Supported
    <3>5. Supported(A, f.at)'
      BY <1>6, <3>2, <3>4, SupportKept
    <3>6. Alive(f.from) \/ hazards # {} => Alive(f.from)' \/ hazards' # {}
      <4>1. CASE f.from = NextOf(y)
        <5>1. SourceIn(y)
          BY <1>18, <4>1 DEF SourceIn, Frames
        <5> QED
          BY <1>11, <5>1
      <4>2. CASE f.from # NextOf(y)
        <5>1. f.from \in SharedAt
          BY <3>1 DEF AssignSound
        <5>2. f.from[1] = "next" => f.from[2] # y
          BY <4>2, <5>1, Places
        <5> QED
          BY <1>6, <1>11, <1>12, <5>2 DEF Alive
      <4> QED
        BY <4>1, <4>2
    <3> QED
      BY <3>1, <3>5, <3>6 DEF AssignSound
  <2> QED
    BY <2>1, <2>2, <2>3, <2>4 DEF FrameSound
<1>19. FrameSound(a)' /\ FrameSound(b)' /\ FrameSound(c)' /\ FrameSound(d)'
  <2>1. /\ SelfOf(y) \in WeakAt /\ SelfOf(y)[1] = "self"
        /\ NextOf(y) \in SharedAt /\ NextOf(y)[1] = "next" /\ NextOf(y)[2] = y
    BY <1>6, Places
  <2>2. FreeSound(y)' /\ EndSound(y)'
    BY <1>6, <1>7, <1>9 DEF FreeSound, EndSound
  <2>3. /\ a.op = "destroyWeak" /\ b.op = "destroy" /\ c.op = "free" /\ d.op = "deleted"
        /\ a.at = SelfOf(y) /\ b.at = NextOf(y) /\ c.at = NextOf(y) /\ d.at = l
    BY <1>10 DEF Frame
  <2>4. FrameSound(a)' /\ FrameSound(b)'
    BY <2>1, <2>3 DEF FrameSound
  <2>5. FrameSound(c)'
    BY <2>1, <2>2, <2>3 DEF FrameSound
  <2>6. FrameSound(d)'
    BY <1>4, <1>5, <1>6, <2>2, <2>3 DEF FrameSound
  <2> QED
    BY <2>4, <2>5, <2>6
<1>20. MembersEmpty' /\ MemoryFreed'
  <2>1. a.op = "destroyWeak" /\ a.at = SelfOf(y)
    BY <1>10 DEF Frame
  <2>2. \A o \in Dying : data'[SelfOf(o)] = Null
    BY <1>1, <1>6, TopFacts DEF StackSound, MembersEmpty
  <2> QED
    BY <1>12, <2>1, <2>2 DEF MembersEmpty, MemoryFreed
<1>21. StackSound'
  BY <1>12, <1>18, <1>19, <1>20 DEF StackSound
<1>22. Books(x)'
  BY <1>8, <1>15, <1>17 DEF Books
<1>23. TypeOK'
  <2>1. \A o \in Objects : CountBook(o, x)'
    BY <1>15
  <2>2. ref' = [o \in Objects |-> ref'[o]] /\ weak' = [o \in Objects |-> weak'[o]]
    BY <1>1, <1>6 DEF TypeOK
  <2>3. ref' \in [Objects -> 0 .. CountWord - 1]
    BY <2>1, <2>2, Ranges
  <2> QED
    BY <1>1, <1>6, <1>11, <1>12, <2>3 DEF TypeOK
<1>24. FreedOnlyThroughHazard'
  BY <1>1, <1>6 DEF FreedOnlyThroughHazard
<1> QED
  BY <1>21, <1>22, <1>23, <1>24 DEF PointerInv

LEMMA TouchFreedBlockSound ==
  ASSUME PointerInv, TouchFreedBlock
  PROVE  PointerInv'
<1>1. TypeOK /\ StackSound /\ stack # <<>> /\ FreedOnlyThroughHazard
  BY DEF PointerInv, TouchFreedBlock, Doing
<1>2. PICK x : Books(x)
  BY DEF PointerInv, TouchFreedBlock, Doing
<1>3. /\ Top.op \in {"destroy", "destroyWeak", "deleted"}
      /\ data[Top.at] # Null /\ block[data[Top.at]] # "live"
      /\ error' = "freed" /\ hazards' = hazards
      /\ UNCHANGED <<obj, block, ref, weak, data, unique, stack>>
  BY DEF TouchFreedBlock, Doing, Fail
<1>4. PICK l : l = Top.at
  OBVIOUS
<1>5. PICK y : y = data[l]
  OBVIOUS
<1>6. Top \in Frames /\ FrameSound(Top)
  BY <1>1, TopFacts
<1>7. hazards # {}
  <2>1. CASE Top.op = "deleted"
    BY <1>3, <1>4, <1>5, <1>6, <2>1 DEF FrameSound, EndSound
  <2>2. CASE Top.op = "destroy"
    <3>1. l \in SharedAt /\ InLiveMemory(l)
      BY <1>1, <1>4, <2>2, DestroyedAt
    <3>2. y \in Objects /\ block[y] # "live"
      BY <1>1, <1>3, <1>4, <1>5, <3>1 DEF TypeOK
    <3>3. ref[y] = 0 /\ CountBook(y, x)
      BY <1>2, <3>2 DEF Books, BlockBook
    <3>4. l \in Ending
      <4>1. SUFFICES ASSUME l \notin Ending PROVE FALSE
        OBVIOUS
      <4>2. l \in Points(y)
        BY <1>5, <3>1, <4>1 DEF Points
      <4>3. PICK m : m = Cardinality(Points(y))
        OBVIOUS
      <4>4. m \in Nat /\ m # 0
        <5>1. Points(y) \subseteq SharedAt
          BY DEF Points
        <5> QED
          BY <4>2, <4>3, <5>1, Counts
      <4> QED
        BY <3>3, <4>3, <4>4 DEF CountBook
    <3>5. PICK f \in Frames : f.op = "deleted" /\ f.at = l
      BY <3>4 DEF Ending
    <3>6. EndSound(y)
      BY <1>1, <1>5, <3>5, TopFacts DEF FrameSound
    <3> QED
      BY <3>2, <3>6 DEF EndSound
  <2>3. CASE Top.op = "destroyWeak"
    <3>1. l \in WeakAt /\ InLiveMemory(l)
      BY <1>1, <1>4, <2>3, SelfLive
    <3>2. y \in Objects /\ block[y] # "live"
      BY <1>1, <1>3, <1>4, <1>5, <3>1 DEF TypeOK
    <3>3. weak[y] = 0 /\ CountBook(y, x)
      BY <1>2, <3>2 DEF Books, BlockBook
    <3>4. l \in WeakPoints(y) /\ WeakPoints(y) \subseteq WeakAt
      BY <1>5, <3>1 DEF WeakPoints
    <3>5. Cardinality(WeakPoints(y)) # 0
      BY <3>4, Counts
    <3> QED
      BY <3>3, <3>5 DEF CountBook
  <2> QED
    BY <1>3, <2>1, <2>2, <2>3
<1> QED
  BY <1>1, <1>3, <1>7 DEF PointerInv, TypeOK, FreedOnlyThroughHazard, Running

LEMMA ReadFreedSourceSound ==
  ASSUME PointerInv, ReadFreedSource
  PROVE  PointerInv'
<1>1. TypeOK /\ StackSound /\ stack # <<>>
  BY DEF PointerInv, ReadFreedSource, Doing
<1>2. /\ Top.op \in {"copy", "move"} /\ ~InLiveMemory(Top.from)
      /\ error' = "freed" /\ hazards' = hazards
      /\ UNCHANGED <<obj, block, ref, weak, data, unique, stack>>
  BY DEF ReadFreedSource, Doing, Fail
<1>3. FrameSound(Top)
  BY <1>1, TopFacts
<1>4. Top.from \in SharedAt /\ (Alive(Top.from) \/ hazards # {})
  BY <1>2, <1>3 DEF FrameSound, AssignSound
<1>5. ~Alive(Top.from)
  <2>1. Top.from[1] = "var" \/ Top.from[1] = "next"
    BY <1>4, Places
  <2> QED
    BY <1>2, <2>1 DEF InLiveMemory, Alive
<1> QED
  BY <1>1, <1>2, <1>4, <1>5 DEF PointerInv, TypeOK, FreedOnlyThroughHazard, Running

-----------------------------------------------------------------------------
(***************************************************************************)
(* The end of an assignment.                                               *)
(***************************************************************************)
\* An assignment that goes on finds no other call in progress.
LEMMA LastCall ==
  ASSUME TypeOK, StackSound, stack # <<>>, Top.op \in {"copy", "move"}
  PROVE  /\ Tail(stack) = <<>> /\ Frames = {Top} /\ Dying = {} /\ Ending = {}
         /\ Top.at \in SharedAt /\ Top.from \in SharedAt /\ Top.at # Top.from
         /\ InLiveMemory(Top.at) /\ data[Top.at] = Null
<1>1. Top = stack[1] /\ Top \in Frames /\ stack \in Seq(FrameType)
  BY TopFacts DEF TypeOK
<1>2. PICK n : n = Len(stack) /\ n \in Nat \ {0}
  BY <1>1
<1>3. n = 1
  <2>1. SUFFICES ASSUME n # 1 PROVE FALSE
    OBVIOUS
  <2>2. 1 \in 1 .. n - 1
    BY <1>2, <2>1
  <2>3. Link(stack[1], stack[1 + 1], data)
    BY <1>2, <2>2 DEF StackSound, Shape
  <2> QED
    BY <1>1, <2>3 DEF Link
<1>4. Frames = {Top}
  BY <1>1, <1>2, <1>3 DEF Frames
<1>5. Tail(stack) = <<>>
  <2>1. Tail(stack) \in Seq(FrameType) /\ Len(Tail(stack)) = Len(stack) - 1
    BY <1>1, PopFacts
  <2>2. Len(Tail(stack)) = 0
    BY <1>2, <1>3, <2>1
  <2> QED
    BY <2>1, <2>2, EmptySeq
<1>6. Dying = {} /\ Ending = {}
  BY <1>4 DEF Dying, Ending
<1>7. data[Top.at] = Null
  BY <1>1 DEF StackSound, MembersEmpty
<1> QED
  BY <1>1, <1>4, <1>5, <1>6, <1>7, AssignedAt

\* A place handed from m to l, whatever was at l before.
LEMMA Moved ==
  ASSUME NEW S, IsFiniteSet(S), NEW T, IsFiniteSet(T), NEW l, NEW m, l # m,
         \A k : k # l /\ k # m => (k \in S <=> k \in T),
         m \notin T, m \in S <=> l \in T
  PROVE  /\ Cardinality(S) \in Nat /\ Cardinality(T) \in Nat
         /\ l \notin S => Cardinality(T) = Cardinality(S)
         /\ l \in S => Cardinality(S) = Cardinality(T) + 1
<1>1. PICK Q : Q = S \ {m}
  OBVIOUS
<1>2. IsFiniteSet(Q)
  BY <1>1, FS_Subset
<1>3. \A k : k # m => (k \in S <=> k \in Q)
  BY <1>1
<1>4. \A k : k # l => (k \in Q <=> k \in T)
  BY <1>1
<1>5. PICK s, t, q : s = Cardinality(S) /\ t = Cardinality(T) /\ q = Cardinality(Q)
  OBVIOUS
<1>6. /\ s \in Nat /\ q \in Nat
      /\ (m \in S <=> m \in Q) => q = s
      /\ m \in S /\ m \notin Q => s = q + 1
  BY <1>2, <1>3, <1>5, OneChanged
<1>7. /\ t \in Nat
      /\ (l \in Q <=> l \in T) => t = q
      /\ l \in Q /\ l \notin T => q = t + 1
      /\ l \notin Q /\ l \in T => t = q + 1
  BY <1>2, <1>4, <1>5, OneChanged
<1>8. m \notin Q /\ (l \in Q <=> l \in S)
  BY <1>1
<1>9. (l \notin S => t = s) /\ (l \in S => s = t + 1)
  <2>1. CASE m \in S
    BY <1>6, <1>7, <1>8, <2>1
  <2>2. CASE m \notin S
    BY <1>6, <1>7, <1>8, <2>2
  <2> QED
    BY <2>1, <2>2
<1> QED
  BY <1>5, <1>6, <1>7, <1>9

\* Between operations.
LEMMA IdleFacts ==
  ASSUME PointerInv, Idle
  PROVE  /\ TypeOK /\ error = "none" /\ stack = <<>>
         /\ Frames = {} /\ Dying = {} /\ Ending = {}
         /\ \A o \in Objects : CountBook(o, Null) /\ BlockBook(o) /\ ObjectBook(o)
<1>1. TypeOK /\ error = "none" /\ stack = <<>>
  BY DEF PointerInv, Idle, Running
<1>2. Frames = {} /\ Dying = {} /\ Ending = {}
  BY <1>1 DEF Frames, Dying, Ending
<1>3. PICK x : Books(x)
  BY <1>1 DEF PointerInv, Running
<1>4. x = Null
  BY <1>2, <1>3 DEF Books, Copying
<1> QED
  BY <1>1, <1>2, <1>3, <1>4 DEF Books

\* To come back to there it is enough that the books balance.
LEMMA IdleNext ==
  ASSUME TypeOK, stack' = <<>>, error' = "none", hazards' = hazards,
         obj' \in [Objects -> {"none", "live", "deleted"}],
         block' \in [Objects -> {"none", "live", "deleted"}],
         ref' = [o \in Objects |-> ref'[o]], weak' = [o \in Objects |-> weak'[o]],
         data' \in [SharedAt \cup WeakAt -> Objects \cup {Null}],
         unique' \in Objects \cup {Null},
         \A o \in Objects : CountBook(o, Null)' /\ BlockBook(o)' /\ ObjectBook(o)'
  PROVE  PointerInv'
<1>1. Frames' = {} /\ Dying' = {}
  BY DEF Frames, Dying
<1>2. /\ ref' \in [Objects -> 0 .. CountWord - 1]
      /\ weak' \in [Objects -> 0 .. CountWord - 1]
  BY Ranges
<1>3. TypeOK'
  BY <1>2, SMTT(60) DEF TypeOK
<1>4. Books(Null)'
  BY <1>1 DEF Books, Copying
<1>5. StackSound'
  BY <1>1 DEF StackSound, Shape, MembersEmpty, MemoryFreed
<1> QED
  BY <1>3, <1>4, <1>5 DEF PointerInv, FreedOnlyThroughHazard

LEMMA FinishMoveSound ==
  ASSUME PointerInv, FinishMove
  PROVE  PointerInv'
<1>1. TypeOK /\ StackSound /\ stack # <<>> /\ Top.op = "move" /\ error = "none"
  BY DEF PointerInv, FinishMove, Doing, Running
<1>2. PICK x : Books(x)
  BY DEF PointerInv, FinishMove, Doing
<1>3. PICK l, m : l = Top.at /\ m = Top.from
  OBVIOUS
<1>4. PICK y : y = data[m]
  OBVIOUS
<1>5. /\ Tail(stack) = <<>> /\ Frames = {Top} /\ Dying = {} /\ Ending = {}
      /\ l \in SharedAt /\ m \in SharedAt /\ l # m
      /\ InLiveMemory(l) /\ data[l] = Null
      /\ l \notin WeakAt /\ m \notin WeakAt
  BY <1>1, <1>3, LastCall, Places
<1>6. y \in Objects \cup {Null} /\ Null \notin Objects
  BY <1>1, <1>4, <1>5, PointerAssumption DEF TypeOK
<1>7. /\ InLiveMemory(m)
      /\ data' = [data EXCEPT ![l] = y, ![m] = Null] /\ stack' = <<>>
      /\ obj' = obj /\ block' = block /\ ref' = ref /\ weak' = weak
      /\ unique' = unique /\ error' = error /\ hazards' = hazards
  BY <1>3, <1>4, <1>5 DEF FinishMove
<1>8. /\ data'[l] = y /\ data'[m] = Null
      /\ \A k \in SharedAt \cup WeakAt : k # l /\ k # m => data'[k] = data[k]
      /\ data' \in [SharedAt \cup WeakAt -> Objects \cup {Null}]
  BY <1>1, <1>5, <1>6, <1>7 DEF TypeOK
<1>9. x = Null
  BY <1>1, <1>2, <1>5 DEF Books, Copying
<1>10. Ending' = {} /\ Dying' = {}
  BY <1>7 DEF Ending, Dying, Frames
<1>11. ASSUME NEW o \in Objects
       PROVE  CountBook(o, Null)' /\ BlockBook(o)' /\ ObjectBook(o)'
  <2>1. CountBook(o, Null) /\ BlockBook(o) /\ ObjectBook(o)
    BY <1>2, <1>9 DEF Books
  <2>2. WeakPoints(o)' = WeakPoints(o)
    BY <1>5, <1>7, <1>8 DEF WeakPoints, InLiveMemory
  <2>3. /\ \A k : k # l /\ k # m => (k \in Points(o) <=> k \in Points(o)')
        /\ m \notin Points(o)' /\ l \notin Points(o)
        /\ (m \in Points(o) <=> y = o) /\ (l \in Points(o)' <=> y = o)
    BY <1>4, <1>5, <1>6, <1>7, <1>8, <1>10 DEF Points, InLiveMemory
  <2>4. Cardinality(Points(o)') = Cardinality(Points(o))
    <3>1. Points(o) \subseteq SharedAt /\ Points(o)' \subseteq SharedAt
      BY DEF Points
    <3>2. IsFiniteSet(Points(o)) /\ IsFiniteSet(Points(o)')
      BY <3>1, Countable
    <3> QED
      BY <1>5, <2>3, <3>2, Moved
  <2>5. CountBook(o, Null)'
    BY <1>7, <2>1, <2>2, <2>4 DEF CountBook
  <2>6. BlockBook(o)'
    BY <1>5, <1>7, <2>1 DEF BlockBook
  <2>7. data[SelfOf(o)] = Null => data'[SelfOf(o)] = Null
    BY <1>5, <1>8, Places
  <2>8. obj[o] = "none" /\ data[NextOf(o)] = Null => data'[NextOf(o)] = Null
    <3>1. obj[o] = "none" => NextOf(o) # l
      BY <1>5, Places DEF InLiveMemory
    <3> QED
      BY <1>8, <3>1, Places
  <2>9. ObjectBook(o)'
    BY <1>5, <1>7, <1>10, <2>1, <2>7, <2>8 DEF ObjectBook
  <2> QED
    BY <2>5, <2>6, <2>9
<1> QED
  BY <1>1, <1>7, <1>8, <1>11, IdleNext DEF TypeOK

LEMMA FinishCopySound ==
  ASSUME PointerInv, FinishCopy
  PROVE  PointerInv'
<1>1. TypeOK /\ StackSound /\ stack # <<>> /\ Top.op = "copy" /\ error = "none"
  BY DEF PointerInv, FinishCopy, Doing, Running
<1>2. PICK x : Books(x)
  BY DEF PointerInv, FinishCopy, Doing
<1>3. PICK l, m : l = Top.at /\ m = Top.from
  OBVIOUS
<1>4. PICK y : y = data[m]
  OBVIOUS
<1>5. /\ Tail(stack) = <<>> /\ Frames = {Top} /\ Dying = {} /\ Ending = {}
      /\ l \in SharedAt /\ m \in SharedAt /\ l # m
      /\ InLiveMemory(l) /\ data[l] = Null
      /\ l \notin WeakAt /\ m \notin WeakAt
  BY <1>1, <1>3, LastCall, Places
<1>6. y \in Objects \cup {Null} /\ Null \notin Objects
  BY <1>1, <1>4, <1>5, PointerAssumption DEF TypeOK
<1>7. /\ InLiveMemory(m)
      /\ data' = [data EXCEPT ![l] = y] /\ stack' = <<>>
      /\ obj' = obj /\ block' = block /\ ref' = ref /\ weak' = weak
      /\ unique' = unique /\ error' = error /\ hazards' = hazards
  BY <1>3, <1>4, <1>5 DEF FinishCopy
<1>8. /\ data'[l] = y
      /\ \A k \in SharedAt \cup WeakAt : k # l => data'[k] = data[k]
      /\ data' \in [SharedAt \cup WeakAt -> Objects \cup {Null}]
  BY <1>1, <1>5, <1>6, <1>7 DEF TypeOK
<1>9. x = y
  <2>1. Alive(m)
    BY <1>5, <1>7 DEF Alive, InLiveMemory
  <2> QED
    BY <1>1, <1>2, <1>3, <1>4, <1>5, <2>1 DEF Books, Copying
<1>10. Ending' = {} /\ Dying' = {}
  BY <1>7 DEF Ending, Dying, Frames
<1>11. ASSUME NEW o \in Objects
       PROVE  CountBook(o, Null)' /\ BlockBook(o)' /\ ObjectBook(o)'
  <2>1. CountBook(o, y) /\ BlockBook(o) /\ ObjectBook(o)
    BY <1>2, <1>9 DEF Books
  <2>2. WeakPoints(o)' = WeakPoints(o)
    BY <1>5, <1>7, <1>8 DEF WeakPoints, InLiveMemory
  <2>3. /\ \A k : k # l => (k \in Points(o) <=> k \in Points(o)')
        /\ l \notin Points(o) /\ (l \in Points(o)' <=> y = o)
    BY <1>4, <1>5, <1>6, <1>7, <1>8, <1>10 DEF Points, InLiveMemory
  <2>4. PICK s, t : s = Cardinality(Points(o)) /\ t = Cardinality(Points(o)')
    OBVIOUS
  <2>5. /\ s \in Nat /\ t \in Nat
        /\ y = o => t = s + 1
        /\ y # o => t = s
    <3>1. Points(o) \subseteq SharedAt /\ Points(o)' \subseteq SharedAt
      BY DEF Points
    <3>2. IsFiniteSet(Points(o)) /\ IsFiniteSet(Points(o)')
      BY <3>1, Countable
    <3> QED
      BY <2>3, <2>4, <3>2, OneChanged
  <2>6. ref[o] = t
    BY <2>1, <2>4, <2>5 DEF CountBook
  <2>7. CountBook(o, Null)'
    BY <1>6, <1>7, <2>1, <2>2, <2>4, <2>5, <2>6 DEF CountBook
  <2>8. BlockBook(o)'
    BY <1>5, <1>7, <2>1 DEF BlockBook
  <2>9. data[SelfOf(o)] = Null => data'[SelfOf(o)] = Null
    BY <1>5, <1>8, Places
  <2>10. obj[o] = "none" /\ data[NextOf(o)] = Null => data'[NextOf(o)] = Null
    <3>1. obj[o] = "none" => NextOf(o) # l
      BY <1>5, Places DEF InLiveMemory
    <3> QED
      BY <1>8, <3>1, Places
  <2>11. ObjectBook(o)'
    BY <1>5, <1>7, <1>10, <2>1, <2>9, <2>10 DEF ObjectBook
  <2> QED
    BY <2>7, <2>8, <2>11
<1> QED
  BY <1>1, <1>7, <1>8, <1>11, IdleNext DEF TypeOK

-----------------------------------------------------------------------------
(***************************************************************************)
(* Operations of the program.                                              *)
(***************************************************************************)
\* Between operations what a pointer refers to has a control block, and what
\* a shared pointer refers to is there.
LEMMA Referred ==
  ASSUME PointerInv, Idle, NEW l, InLiveMemory(l), NEW y, y = data[l], y # Null
  PROVE  /\ l \in SharedAt => /\ y \in Objects /\ obj[y] = "live"
                              /\ block[y] = "live" /\ ref[y] \in Nat /\ ref[y] # 0
         /\ l \in WeakAt => /\ y \in Objects /\ block[y] = "live"
                            /\ weak[y] \in Nat /\ weak[y] # 0
<1>1. TypeOK /\ Ending = {}
  BY IdleFacts
<1>2. ASSUME l \in SharedAt \cup WeakAt
      PROVE  /\ y \in Objects /\ ref[y] \in Nat /\ weak[y] \in Nat
             /\ CountBook(y, Null) /\ BlockBook(y) /\ ObjectBook(y) /\ y # Null
  <2>1. y \in Objects
    BY <1>1, <1>2 DEF TypeOK
  <2>2. ref[y] \in Nat /\ weak[y] \in Nat
    BY <1>1, <2>1, Countable DEF TypeOK
  <2> QED
    BY <2>1, <2>2, IdleFacts
<1>3. ASSUME l \in SharedAt
      PROVE  /\ y \in Objects /\ obj[y] = "live"
             /\ block[y] = "live" /\ ref[y] \in Nat /\ ref[y] # 0
  <2>1. l \in Points(y) /\ Points(y) \subseteq SharedAt
    BY <1>1, <1>3 DEF Points
  <2>2. PICK s : s = Cardinality(Points(y))
    OBVIOUS
  <2>3. s \in Nat /\ s # 0
    BY <2>1, <2>2, Counts
  <2>4. ref[y] # 0
    BY <1>2, <1>3, <2>2, <2>3 DEF CountBook
  <2> QED
    BY <1>2, <1>3, <2>4 DEF BlockBook, ObjectBook
<1>4. ASSUME l \in WeakAt
      PROVE  /\ y \in Objects /\ block[y] = "live"
             /\ weak[y] \in Nat /\ weak[y] # 0
  <2>1. l \in WeakPoints(y) /\ WeakPoints(y) \subseteq WeakAt
    BY <1>4 DEF WeakPoints
  <2>2. Cardinality(WeakPoints(y)) # 0
    BY <2>1, Counts
  <2> QED
    BY <1>2, <1>4, <2>2 DEF CountBook, BlockBook
<1> QED
  BY <1>3, <1>4

\* What the program can name lies in live memory.
LEMMA NamedLive ==
  ASSUME PointerInv, Idle
  PROVE  /\ \A o \in Named : o \in Objects /\ obj[o] = "live"
         /\ \A l \in SharedPtrs : l \in SharedAt /\ InLiveMemory(l)
         /\ \A l \in WeakPtrs : l \in WeakAt /\ InLiveMemory(l)
<1>1. PICK S : S = {o \in Objects : obj[o] = "live"}
  OBVIOUS
<1>2. TypeOK
  BY IdleFacts
<1>3. Held \subseteq S
  <2>1. ASSUME NEW v \in SharedVars, data[Var(v)] # Null PROVE data[Var(v)] \in S
    <3>1. Var(v) \in SharedAt /\ InLiveMemory(Var(v))
      BY Places DEF InLiveMemory
    <3> QED
      BY <1>1, <2>1, <3>1, Referred
  <2>2. unique # Null => unique \in S
    <3>1. unique \in Objects \cup {Null}
      BY <1>2 DEF TypeOK
    <3> QED
      BY <1>1, <3>1, IdleFacts DEF ObjectBook
  <2> QED
    BY <2>1, <2>2 DEF Held
<1>4. Closed(S)
  <2>1. ASSUME NEW o \in S, data[NextOf(o)] # Null PROVE data[NextOf(o)] \in S
    <3>1. NextOf(o) \in SharedAt /\ InLiveMemory(NextOf(o))
      BY <1>1, <2>1, Places DEF InLiveMemory
    <3> QED
      BY <1>1, <2>1, <3>1, Referred
  <2> QED
    BY <2>1 DEF Closed
<1>5. \A o \in Named : o \in Objects /\ obj[o] = "live"
  <2>1. S \in SUBSET Objects
    BY <1>1
  <2>2. \A o \in Named : o \in S
    BY <1>3, <1>4, <2>1 DEF Named
  <2> QED
    BY <1>1, <2>2
<1>6. \A l \in SharedPtrs : l \in SharedAt /\ InLiveMemory(l)
  BY <1>5, Places DEF SharedPtrs, InLiveMemory
<1>7. \A l \in WeakPtrs : l \in WeakAt /\ InLiveMemory(l)
  BY <1>5, Places DEF WeakPtrs, InLiveMemory
<1> QED
  BY <1>5, <1>6, <1>7

LEMMA make_uniqueSound ==
  ASSUME PointerInv, NEW q \in Objects, make_unique(q)
  PROVE  PointerInv'
<1>1. /\ Idle /\ unique = Null /\ obj[q] = "none"
      /\ obj' = [obj EXCEPT ![q] = "live"] /\ unique' = q
      /\ block' = block /\ ref' = ref /\ weak' = weak /\ data' = data
      /\ stack' = stack /\ error' = error /\ hazards' = hazards
  BY DEF make_unique, Construct
<1>2. /\ TypeOK /\ error = "none" /\ stack = <<>>
      /\ Frames = {} /\ Dying = {} /\ Ending = {}
      /\ \A o \in Objects : CountBook(o, Null) /\ BlockBook(o) /\ ObjectBook(o)
  BY <1>1, IdleFacts
<1>3. /\ obj' \in [Objects -> {"none", "live", "deleted"}] /\ obj'[q] = "live"
      /\ \A o \in Objects : o # q => obj'[o] = obj[o]
  BY <1>1, <1>2 DEF TypeOK
<1>4. Dying' = {} /\ Ending' = {} /\ Null \notin Objects
  BY <1>1, <1>2, PointerAssumption DEF Dying, Ending, Frames
<1>5. \A k \in SharedAt \cup WeakAt :
        data[k] # Null => (InLiveMemory(k)' <=> InLiveMemory(k))
  <2>1. ASSUME NEW k \in SharedAt \cup WeakAt, data[k] # Null, k[1] # "var"
        PROVE  k[2] \in Objects /\ k[2] # q
    <3>1. data[NextOf(q)] = Null /\ data[SelfOf(q)] = Null
      BY <1>1, <1>2 DEF ObjectBook
    <3> QED
      BY <2>1, <3>1, Places
  <2> QED
    BY <1>3, <2>1 DEF InLiveMemory
<1>6. ASSUME NEW o \in Objects
      PROVE  CountBook(o, Null)' /\ BlockBook(o)' /\ ObjectBook(o)'
  <2>1. CountBook(o, Null) /\ BlockBook(o) /\ ObjectBook(o)
    BY <1>2
  <2>2. Points(o)' = Points(o) /\ WeakPoints(o)' = WeakPoints(o)
    BY <1>1, <1>2, <1>4, <1>5 DEF Points, WeakPoints
  <2>3. CountBook(o, Null)' /\ BlockBook(o)'
    BY <1>1, <1>2, <2>1, <2>2 DEF CountBook, BlockBook
  <2>4. ObjectBook(o)'
    <3>1. CASE o = q
      BY <1>1, <1>3, <2>1, <3>1 DEF ObjectBook
    <3>2. CASE o # q
      BY <1>1, <1>2, <1>3, <1>4, <2>1, <3>2 DEF ObjectBook
    <3> QED
      BY <3>1, <3>2
  <2> QED
    BY <2>3, <2>4
<1> QED
  BY <1>1, <1>2, <1>3, <1>6, IdleNext DEF TypeOK

\* A control block for an object that has none, and the first pointer to it.
LEMMA NewBlockSound ==
  ASSUME PointerInv, Idle, NEW v \in SharedVars, data[Var(v)] = Null,
         NEW q \in Objects, NewBlock(v, q), block[q] = "none",
         obj' = [obj EXCEPT ![q] = "live"], obj[q] = "none" \/ obj[q] = "live",
         unique' = unique \/ unique' = Null, unique' # q,
         \A o \in Objects : o # q => (unique' = o <=> unique = o),
         UNCHANGED <<stack, error, hazards>>
  PROVE  PointerInv'
<1>1. /\ TypeOK /\ error = "none" /\ stack = <<>>
      /\ Frames = {} /\ Dying = {} /\ Ending = {}
      /\ \A o \in Objects : CountBook(o, Null) /\ BlockBook(o) /\ ObjectBook(o)
  BY IdleFacts
<1>2. PICK l : l = Var(v)
  OBVIOUS
<1>3. l \in SharedAt /\ l \notin WeakAt /\ InLiveMemory(l) /\ InLiveMemory(l)'
  BY <1>2, Places DEF InLiveMemory
<1>4. /\ block' = [block EXCEPT ![q] = "live"] /\ ref' = [ref EXCEPT ![q] = 1]
      /\ data' = [data EXCEPT ![l] = q] /\ weak' = weak /\ Null \notin Objects
  BY <1>2, PointerAssumption DEF NewBlock
<1>5. /\ obj' \in [Objects -> {"none", "live", "deleted"}] /\ obj'[q] = "live"
      /\ \A o \in Objects : o # q => obj'[o] = obj[o]
      /\ block' \in [Objects -> {"none", "live", "deleted"}] /\ block'[q] = "live"
      /\ \A o \in Objects : o # q => block'[o] = block[o]
      /\ ref'[q] = 1 /\ \A o \in Objects : o # q => ref'[o] = ref[o]
      /\ data' \in [SharedAt \cup WeakAt -> Objects \cup {Null}] /\ data'[l] = q
      /\ \A k \in SharedAt \cup WeakAt : k # l => data'[k] = data[k]
      /\ ref' = [o \in Objects |-> ref'[o]] /\ weak' = [o \in Objects |-> weak'[o]]
  BY <1>1, <1>3, <1>4 DEF TypeOK
<1>6. Dying' = {} /\ Ending' = {}
  BY <1>1 DEF Dying, Ending, Frames
<1>7. \A k \in SharedAt \cup WeakAt :
        data[k] # Null => (InLiveMemory(k)' <=> InLiveMemory(k))
  <2>1. CASE obj[q] = "live"
    BY <1>5, <2>1, Places DEF InLiveMemory
  <2>2. ASSUME obj[q] = "none",
               NEW k \in SharedAt \cup WeakAt, data[k] # Null, k[1] # "var"
        PROVE  k[2] \in Objects /\ k[2] # q
    <3>1. data[NextOf(q)] = Null /\ data[SelfOf(q)] = Null
      BY <1>1, <2>2 DEF ObjectBook
    <3> QED
      BY <2>2, <3>1, Places
  <2> QED
    BY <1>5, <2>1, <2>2 DEF InLiveMemory
<1>8. ref[q] = 0 /\ weak[q] = 0 /\ Points(q) = {}
  <2>1. ref[q] = 0 /\ weak[q] = 0 /\ CountBook(q, Null)
    BY <1>1 DEF BlockBook
  <2>2. Points(q) \subseteq SharedAt
    BY DEF Points
  <2>3. PICK s : s = Cardinality(Points(q))
    OBVIOUS
  <2>4. s \in Nat /\ (s = 0 <=> Points(q) = {})
    BY <2>2, <2>3, Counts
  <2>5. s = 0
    BY <1>4, <2>1, <2>3, <2>4 DEF CountBook
  <2> QED
    BY <2>1, <2>4, <2>5
<1>9. ASSUME NEW o \in Objects
      PROVE  CountBook(o, Null)' /\ BlockBook(o)' /\ ObjectBook(o)'
  <2>1. CountBook(o, Null) /\ BlockBook(o) /\ ObjectBook(o)
    BY <1>1
  <2>2. WeakPoints(o)' = WeakPoints(o)
    BY <1>3, <1>4, <1>5, <1>7 DEF WeakPoints
  <2>3. o # q => Points(o)' = Points(o)
    <3>1. data[l] # o /\ o # Null
      BY <1>2, <1>4
    <3> QED
      BY <1>1, <1>3, <1>5, <1>6, <1>7, <3>1 DEF Points
  <2>4. Points(q)' = {l}
    <3>1. l \in Points(q)'
      BY <1>3, <1>5, <1>6 DEF Points
    <3>2. ASSUME NEW k \in SharedAt, k # l PROVE k \notin Points(q)'
      BY <1>1, <1>4, <1>5, <1>7, <1>8, <3>2 DEF Points
    <3>3. Points(q)' \subseteq SharedAt
      BY DEF Points
    <3> QED
      BY <3>1, <3>2, <3>3
  <2>5. CASE o = q
    <3>1. Cardinality(Points(o)') = 1
      BY <2>4, <2>5, FS_Singleton
    <3>2. CountBook(o, Null)'
      BY <1>4, <1>5, <1>8, <2>1, <2>2, <2>5, <3>1 DEF CountBook
    <3>3. BlockBook(o)' /\ ObjectBook(o)'
      BY <1>5, <2>5 DEF BlockBook, ObjectBook
    <3> QED
      BY <3>2, <3>3
  <2>6. CASE o # q
    <3>1. CountBook(o, Null)'
      BY <1>4, <1>5, <2>1, <2>2, <2>3, <2>6 DEF CountBook
    <3>2. BlockBook(o)'
      BY <1>1, <1>4, <1>5, <2>1, <2>6 DEF BlockBook
    <3>3. data[NextOf(o)] = data'[NextOf(o)] /\ data[SelfOf(o)] = data'[SelfOf(o)]
      BY <1>2, <1>5, Places
    <3>4. ObjectBook(o)'
      BY <1>1, <1>5, <1>6, <2>1, <2>6, <3>3 DEF ObjectBook
    <3> QED
      BY <3>1, <3>2, <3>4
  <2> QED
    BY <2>5, <2>6
<1>10. unique' \in Objects \cup {Null} /\ stack' = <<>> /\ error' = "none" /\ hazards' = hazards
  BY <1>1 DEF TypeOK
<1> QED
  BY <1>1, <1>5, <1>9, <1>10, IdleNext

LEMMA make_sharedSound ==
  ASSUME PointerInv, NEW v \in SharedVars, NEW q \in Objects, make_shared(v, q)
  PROVE  PointerInv'
<1>1. /\ Idle /\ data[Var(v)] = Null /\ obj[q] = "none"
      /\ obj' = [obj EXCEPT ![q] = "live"] /\ NewBlock(v, q)
      /\ unique' = unique /\ UNCHANGED <<stack, error, hazards>>
  BY DEF make_shared, Construct
<1>2. block[q] = "none" /\ unique # q
  BY <1>1, IdleFacts DEF ObjectBook
<1> QED
  BY <1>1, <1>2, NewBlockSound

LEMMA SharedFromUniqueSound ==
  ASSUME PointerInv, NEW v \in SharedVars, SharedFromUnique(v)
  PROVE  PointerInv'
<1>1. PICK q : q = unique
  OBVIOUS
<1>2. /\ Idle /\ data[Var(v)] = Null /\ q # Null /\ NewBlock(v, q)
      /\ unique' = Null /\ obj' = obj /\ UNCHANGED <<stack, error, hazards>>
  BY <1>1 DEF SharedFromUnique
<1>3. TypeOK /\ \A o \in Objects : ObjectBook(o)
  BY <1>2, IdleFacts
<1>4. q \in Objects
  BY <1>1, <1>2, <1>3 DEF TypeOK
<1>5. block[q] = "none" /\ obj[q] = "live" /\ q # Null
  BY <1>1, <1>2, <1>3, <1>4 DEF ObjectBook
<1>6. obj' = [obj EXCEPT ![q] = "live"]
  BY <1>2, <1>3, <1>4, <1>5 DEF TypeOK
<1>7. \A o \in Objects : o # q => (unique' = o <=> unique = o)
  BY <1>1, <1>2, PointerAssumption
<1> QED
  BY <1>2, <1>4, <1>5, <1>6, <1>7, NewBlockSound

\* One more pointer to an object that has one, or is not expired.
LEMMA GainedSound ==
  ASSUME PointerInv, Idle, NEW v \in SharedVars, data[Var(v)] = Null,
         NEW y \in Objects, ref[y] # 0,
         ref' = [ref EXCEPT ![y] = @ + 1], data' = [data EXCEPT ![Var(v)] = y],
         UNCHANGED <<obj, block, weak, unique, stack, error, hazards>>
  PROVE  PointerInv'
<1>1. /\ TypeOK /\ error = "none" /\ stack = <<>>
      /\ Frames = {} /\ Dying = {} /\ Ending = {}
      /\ \A o \in Objects : CountBook(o, Null) /\ BlockBook(o) /\ ObjectBook(o)
  BY IdleFacts
<1>2. PICK l : l = Var(v)
  OBVIOUS
<1>3. l \in SharedAt /\ l \notin WeakAt /\ InLiveMemory(l) /\ Null \notin Objects
  BY <1>2, Places, PointerAssumption DEF InLiveMemory
<1>4. /\ data' \in [SharedAt \cup WeakAt -> Objects \cup {Null}] /\ data'[l] = y
      /\ data[l] = Null
      /\ \A k \in SharedAt \cup WeakAt : k # l => data'[k] = data[k]
      /\ ref'[y] = ref[y] + 1 /\ \A o \in Objects : o # y => ref'[o] = ref[o]
      /\ ref' = [o \in Objects |-> ref'[o]] /\ weak' = [o \in Objects |-> weak'[o]]
  BY <1>1, <1>2, <1>3 DEF TypeOK
<1>5. Dying' = {} /\ Ending' = {}
  BY <1>1 DEF Dying, Ending, Frames
<1>6. ASSUME NEW o \in Objects
      PROVE  CountBook(o, Null)' /\ BlockBook(o)' /\ ObjectBook(o)'
  <2>1. CountBook(o, Null) /\ BlockBook(o) /\ ObjectBook(o)
    BY <1>1
  <2>2. WeakPoints(o)' = WeakPoints(o)
    BY <1>3, <1>4 DEF WeakPoints, InLiveMemory
  <2>3. /\ \A k : k # l => (k \in Points(o) <=> k \in Points(o)')
        /\ l \notin Points(o) /\ (l \in Points(o)' <=> y = o)
    BY <1>1, <1>3, <1>4, <1>5 DEF Points, InLiveMemory
  <2>4. PICK s, t : s = Cardinality(Points(o)) /\ t = Cardinality(Points(o)')
    OBVIOUS
  <2>5. /\ s \in Nat /\ t \in Nat
        /\ y = o => t = s + 1
        /\ y # o => t = s
    <3>1. Points(o) \subseteq SharedAt /\ Points(o)' \subseteq SharedAt
      BY DEF Points
    <3>2. IsFiniteSet(Points(o)) /\ IsFiniteSet(Points(o)')
      BY <3>1, Countable
    <3> QED
      BY <2>3, <2>4, <3>2, OneChanged
  <2>6. ref[o] = s /\ weak[o] = Cardinality(WeakPoints(o))
    BY <1>3, <2>1, <2>4, <2>5 DEF CountBook
  <2>7. ref'[o] = t
    BY <1>4, <2>5, <2>6
  <2>8. CountBook(o, Null)'
    BY <1>3, <2>2, <2>4, <2>5, <2>6, <2>7 DEF CountBook
  <2>9. (ref'[o] = 0 <=> ref[o] = 0) /\ (ref'[o] > 0 <=> ref[o] > 0)
    BY <1>4, <2>5, <2>6, <2>7
  <2>10. BlockBook(o)'
    BY <1>1, <2>1, <2>9 DEF BlockBook
  <2>11. data[NextOf(o)] = data'[NextOf(o)] /\ data[SelfOf(o)] = data'[SelfOf(o)]
    BY <1>2, <1>4, Places
  <2>12. ObjectBook(o)'
    BY <1>1, <1>5, <2>1, <2>9, <2>11 DEF ObjectBook
  <2> QED
    BY <2>8, <2>10, <2>12
<1> QED
  BY <1>1, <1>4, <1>6, IdleNext DEF TypeOK

LEMMA CopyConstructSound ==
  ASSUME PointerInv, NEW v \in SharedVars, NEW l \in SharedPtrs, CopyConstruct(v, l)
  PROVE  PointerInv'
<1>1. PICK y : y = data[l]
  OBVIOUS
<1>2. /\ Idle /\ data[Var(v)] = Null /\ y # Null
      /\ ref' = [ref EXCEPT ![y] = @ + 1] /\ data' = [data EXCEPT ![Var(v)] = y]
      /\ UNCHANGED <<obj, block, weak, unique, stack, error, hazards>>
  BY <1>1 DEF CopyConstruct, Referenced
<1>3. l \in SharedAt /\ InLiveMemory(l)
  BY <1>2, NamedLive
<1>4. y \in Objects /\ ref[y] # 0
  BY <1>1, <1>2, <1>3, Referred
<1> QED
  BY <1>2, <1>4, GainedSound

LEMMA lockSound ==
  ASSUME PointerInv, NEW v \in SharedVars, NEW l \in WeakPtrs, lock(v, l)
  PROVE  PointerInv'
<1>1. PICK y : y = data[l]
  OBVIOUS
<1>2. /\ Idle /\ data[Var(v)] = Null /\ y # Null /\ ref[y] # 0
      /\ ref' = [ref EXCEPT ![y] = @ + 1] /\ data' = [data EXCEPT ![Var(v)] = y]
      /\ UNCHANGED <<obj, block, weak, unique, stack, error, hazards>>
  BY <1>1 DEF lock, expired, Referenced
<1>3. l \in WeakAt /\ InLiveMemory(l)
  BY <1>2, NamedLive
<1>4. y \in Objects
  BY <1>1, <1>2, <1>3, Referred
<1> QED
  BY <1>2, <1>4, GainedSound

\* What operations on weak pointers do: the reference p that l held is dropped
\* from the counts, which have one too many for it.
LEMMA WeakSound ==
  ASSUME PointerInv, Idle, NEW p, NEW taken,
         p # Null => p \in Objects /\ block[p] = "live",
         taken = [o \in Objects |-> taken[o]],
         \A o \in Objects :
           /\ taken[o] = Cardinality(WeakPoints(o)') + (IF p = o THEN 1 ELSE 0)
           /\ taken[o] \in 0 .. CountWord - 1
           /\ taken[o] = 0 => weak[o] = 0
           /\ block[o] # "live" => taken[o] = 0,
         weak' = IF p = Null THEN taken ELSE Dropped(taken, p),
         block' = IF p = Null THEN block ELSE BlockWithoutWeak(taken, p),
         data' \in [SharedAt \cup WeakAt -> Objects \cup {Null}],
         \A k \in SharedAt : data'[k] = data[k],
         \A o \in Objects : obj[o] = "none" => data'[SelfOf(o)] = data[SelfOf(o)],
         UNCHANGED <<obj, ref, unique, stack, error, hazards>>
  PROVE  PointerInv'
<1>1. /\ TypeOK /\ error = "none" /\ stack = <<>>
      /\ Frames = {} /\ Dying = {} /\ Ending = {}
      /\ \A o \in Objects : CountBook(o, Null) /\ BlockBook(o) /\ ObjectBook(o)
  BY IdleFacts
<1>2. Dying' = {} /\ Ending' = {} /\ Null \notin Objects
  BY <1>1, PointerAssumption DEF Dying, Ending, Frames
<1>3. /\ p = Null => weak' = taken /\ block' = block
      /\ p # Null => weak' = [taken EXCEPT ![p] = (@ - 1) % CountWord]
      /\ p # Null => block' = IF weak'[p] = 0 /\ ref[p] = 0
                              THEN [block EXCEPT ![p] = "deleted"] ELSE block
  BY DEF Dropped, BlockWithoutWeak
<1>4. weak' = [o \in Objects |-> weak'[o]] /\ ref' = [o \in Objects |-> ref'[o]]
  <2>1. CASE p = Null
    BY <1>1, <1>3, <2>1 DEF TypeOK
  <2>2. CASE p # Null
    BY <1>1, <1>3, <2>2 DEF TypeOK
  <2> QED
    BY <2>1, <2>2
<1>5. block' \in [Objects -> {"none", "live", "deleted"}]
  BY <1>1, <1>3, ZenonT(60) DEF TypeOK
<1>6. ASSUME NEW o \in Objects
      PROVE  /\ weak'[o] = Cardinality(WeakPoints(o)')
             /\ o # p => weak'[o] = taken[o] /\ block'[o] = block[o]
             /\ o = p => /\ ref[o] = 0 /\ weak'[o] = 0 => block'[o] = "deleted"
                         /\ ref[o] # 0 \/ weak'[o] # 0 => block'[o] = "live"
  <2>1. PICK t : t = Cardinality(WeakPoints(o)')
    OBVIOUS
  <2>2. t \in Nat
    <3>1. WeakPoints(o)' \subseteq WeakAt
      BY DEF WeakPoints
    <3> QED
      BY <2>1, <3>1, Countable
  <2>3. CASE o = p
    <3>1. taken[o] = t + 1 /\ taken[o] \in 0 .. CountWord - 1
      BY <2>1, <2>3
    <3>2. taken[o] # 0 /\ taken[o] - 1 = t
      BY <2>2, <3>1
    <3>3. weak'[o] = (taken[o] - 1) % CountWord
      BY <1>2, <1>3, <2>3
    <3>4. weak'[o] = t
      BY <3>1, <3>2, <3>3, Lowered
    <3>5. /\ ref[o] = 0 /\ weak'[o] = 0 => block'[o] = "deleted"
          /\ ref[o] # 0 \/ weak'[o] # 0 => block'[o] = "live"
      BY <1>1, <1>2, <1>3, <2>3, ZenonT(60) DEF TypeOK
    <3> QED
      BY <2>1, <2>3, <3>4, <3>5
  <2>4. CASE o # p
    <3>1. taken[o] = t
      BY <2>1, <2>2, <2>4
    <3>2. weak'[o] = taken[o] /\ block'[o] = block[o]
      BY <1>1, <1>3, <2>4, ZenonT(60) DEF TypeOK
    <3> QED
      BY <2>1, <2>4, <3>1, <3>2
  <2> QED
    BY <2>3, <2>4
<1>7. ASSUME NEW o \in Objects
      PROVE  CountBook(o, Null)' /\ BlockBook(o)' /\ ObjectBook(o)'
  <2>1. CountBook(o, Null) /\ BlockBook(o) /\ ObjectBook(o)
    BY <1>1
  <2>2. Points(o)' = Points(o)
    BY <1>1, <1>2 DEF Points, InLiveMemory
  <2>3. CountBook(o, Null)'
    BY <1>6, <2>1, <2>2 DEF CountBook
  <2>4. BlockBook(o)'
    <3>1. CASE o = p
      BY <1>2, <1>6, <3>1 DEF BlockBook
    <3>2. CASE o # p
      <4>1. block[o] # "live" => ref[o] = 0 /\ taken[o] = 0
        BY <2>1 DEF BlockBook
      <4>2. ~(block[o] = "live" /\ ref[o] = 0 /\ taken[o] = 0)
        BY <1>1, <2>1 DEF BlockBook
      <4> QED
        BY <1>6, <3>2, <4>1, <4>2 DEF BlockBook
    <3> QED
      BY <3>1, <3>2
  <2>5. data[NextOf(o)] = data'[NextOf(o)]
    BY Places
  <2>6. (block[o] = "none") <=> (block'[o] = "none")
    BY <1>2, <1>6
  <2>7. ObjectBook(o)'
    BY <1>1, <1>2, <2>1, <2>5, <2>6 DEF ObjectBook
  <2> QED
    BY <2>3, <2>4, <2>7
<1> QED
  BY <1>1, <1>4, <1>5, <1>7, IdleNext DEF TypeOK

LEMMA WeakFromSound ==
  ASSUME PointerInv, NEW l \in WeakPtrs, NEW m \in SharedPtrs \cup WeakPtrs,
         WeakFrom(l, m)
  PROVE  PointerInv'
<1>1. PICK p, y : p = data[l] /\ y = data[m]
  OBVIOUS
<1>2. PICK taken : taken = [weak EXCEPT ![y] = @ + 1]
  OBVIOUS
<1>3. /\ Idle /\ y # Null
      /\ data' = [data EXCEPT ![l] = y]
      /\ weak' = IF p = Null THEN taken ELSE Dropped(taken, p)
      /\ block' = IF p = Null THEN block ELSE BlockWithoutWeak(taken, p)
      /\ UNCHANGED <<obj, ref, unique, stack, error, hazards>>
  BY <1>1, <1>2 DEF WeakFrom, Replace, Taken
<1>4. /\ TypeOK /\ stack = <<>>
      /\ \A o \in Objects : CountBook(o, Null) /\ BlockBook(o)
  BY <1>3, IdleFacts
<1>5. /\ l \in WeakAt /\ l \notin SharedAt /\ InLiveMemory(l) /\ InLiveMemory(l)'
      /\ m \in SharedAt \cup WeakAt /\ InLiveMemory(m) /\ Null \notin Objects
  BY <1>3, NamedLive, Places, PointerAssumption DEF InLiveMemory
<1>6. y \in Objects /\ block[y] = "live"
  BY <1>1, <1>3, <1>5, Referred
<1>7. p # Null => p \in Objects /\ block[p] = "live"
  BY <1>1, <1>3, <1>5, Referred
<1>8. /\ data' \in [SharedAt \cup WeakAt -> Objects \cup {Null}] /\ data'[l] = y
      /\ \A k \in SharedAt \cup WeakAt : k # l => data'[k] = data[k]
      /\ taken = [o \in Objects |-> taken[o]] /\ taken[y] = weak[y] + 1
      /\ \A o \in Objects : o # y => taken[o] = weak[o]
  BY <1>2, <1>3, <1>4, <1>5, <1>6 DEF TypeOK
<1>9. ASSUME NEW o \in Objects
      PROVE  /\ taken[o] = Cardinality(WeakPoints(o)') + (IF p = o THEN 1 ELSE 0)
             /\ taken[o] \in 0 .. CountWord - 1
             /\ taken[o] = 0 => weak[o] = 0
             /\ block[o] # "live" => taken[o] = 0
  <2>1. CountBook(o, Null) /\ BlockBook(o)
    BY <1>4
  <2>2. /\ \A k : k # l => (k \in WeakPoints(o) <=> k \in WeakPoints(o)')
        /\ (l \in WeakPoints(o) <=> p = o) /\ (l \in WeakPoints(o)' <=> y = o)
    BY <1>1, <1>3, <1>5, <1>8 DEF WeakPoints, InLiveMemory
  <2>3. PICK s, t : s = Cardinality(WeakPoints(o)) /\ t = Cardinality(WeakPoints(o)')
    OBVIOUS
  <2>4. WeakPoints(o) \subseteq WeakAt /\ WeakPoints(o)' \subseteq WeakAt
    BY DEF WeakPoints
  <2>5. /\ IsFiniteSet(WeakPoints(o)) /\ IsFiniteSet(WeakPoints(o)')
        /\ s \in Nat /\ t \in Nat /\ s + 1 < CountWord /\ CountWord \in Nat
    BY <2>3, <2>4, Countable
  <2>6. /\ (p = o <=> y = o) => t = s
        /\ p = o /\ y # o => s = t + 1
        /\ p # o /\ y = o => t = s + 1
    BY <2>2, <2>3, <2>5, OneChanged
  <2>7. weak[o] = s
    BY <2>1, <2>3 DEF CountBook
  <2>8. taken[o] = s + (IF y = o THEN 1 ELSE 0)
    BY <1>8, <2>5, <2>7
  <2>9. taken[o] = t + (IF p = o THEN 1 ELSE 0)
    BY <2>5, <2>6, <2>8
  <2>10. taken[o] \in 0 .. CountWord - 1 /\ (taken[o] = 0 => weak[o] = 0)
    BY <2>5, <2>7, <2>8
  <2>11. block[o] # "live" => taken[o] = 0
    BY <1>6, <1>8, <2>1 DEF BlockBook
  <2> QED
    BY <2>3, <2>9, <2>10, <2>11
<1>10. \A o \in Objects : obj[o] = "none" => data'[SelfOf(o)] = data[SelfOf(o)]
  BY <1>5, <1>8, Places DEF InLiveMemory
<1>11. \A k \in SharedAt : data'[k] = data[k]
  BY <1>5, <1>8
<1> QED
  BY <1>3, <1>7, <1>8, <1>9, <1>10, <1>11, WeakSound

LEMMA WeakMoveSound ==
  ASSUME PointerInv, NEW l \in WeakPtrs, NEW m \in WeakPtrs, WeakMove(l, m)
  PROVE  PointerInv'
<1>1. PICK p, y : p = data[l] /\ y = data[m]
  OBVIOUS
<1>2. /\ Idle /\ l # m
      /\ data' = [data EXCEPT ![l] = y, ![m] = Null]
      /\ weak' = IF p = Null THEN weak ELSE Dropped(weak, p)
      /\ block' = IF p = Null THEN block ELSE BlockWithoutWeak(weak, p)
      /\ UNCHANGED <<obj, ref, unique, stack, error, hazards>>
  BY <1>1 DEF WeakMove
<1>3. /\ TypeOK /\ stack = <<>>
      /\ \A o \in Objects : CountBook(o, Null) /\ BlockBook(o)
  BY <1>2, IdleFacts
<1>4. /\ l \in WeakAt /\ l \notin SharedAt /\ InLiveMemory(l)
      /\ m \in WeakAt /\ m \notin SharedAt /\ InLiveMemory(m)
      /\ Null \notin Objects
  BY <1>2, NamedLive, Places, PointerAssumption
<1>5. p # Null => p \in Objects /\ block[p] = "live"
  BY <1>1, <1>2, <1>4, Referred
<1>6. /\ data' \in [SharedAt \cup WeakAt -> Objects \cup {Null}]
      /\ data'[l] = y /\ data'[m] = Null
      /\ \A k \in SharedAt \cup WeakAt : k # l /\ k # m => data'[k] = data[k]
      /\ weak = [o \in Objects |-> weak[o]]
  BY <1>1, <1>2, <1>3, <1>4 DEF TypeOK
<1>7. ASSUME NEW o \in Objects
      PROVE  /\ weak[o] = Cardinality(WeakPoints(o)') + (IF p = o THEN 1 ELSE 0)
             /\ weak[o] \in 0 .. CountWord - 1
             /\ block[o] # "live" => weak[o] = 0
  <2>1. CountBook(o, Null) /\ BlockBook(o)
    BY <1>3
  <2>2. /\ \A k : k # l /\ k # m => (k \in WeakPoints(o) <=> k \in WeakPoints(o)')
        /\ m \notin WeakPoints(o)' /\ (l \in WeakPoints(o) <=> p = o)
        /\ (m \in WeakPoints(o) <=> y = o) /\ (l \in WeakPoints(o)' <=> y = o)
    BY <1>1, <1>2, <1>4, <1>6 DEF WeakPoints, InLiveMemory
  <2>3. PICK s, t : s = Cardinality(WeakPoints(o)) /\ t = Cardinality(WeakPoints(o)')
    OBVIOUS
  <2>4. WeakPoints(o) \subseteq WeakAt /\ WeakPoints(o)' \subseteq WeakAt
    BY DEF WeakPoints
  <2>5. IsFiniteSet(WeakPoints(o)) /\ IsFiniteSet(WeakPoints(o)')
    BY <2>4, Countable
  <2>6. /\ s \in Nat /\ t \in Nat
        /\ p # o => t = s
        /\ p = o => s = t + 1
    BY <1>2, <2>2, <2>3, <2>5, Moved
  <2>7. weak[o] = s /\ weak[o] \in 0 .. CountWord - 1
    BY <1>3, <2>1, <2>3 DEF CountBook, TypeOK
  <2>8. weak[o] = t + (IF p = o THEN 1 ELSE 0)
    BY <2>6, <2>7
  <2> QED
    BY <2>1, <2>3, <2>7, <2>8 DEF BlockBook
<1>8. \A o \in Objects : obj[o] = "none" => data'[SelfOf(o)] = data[SelfOf(o)]
  BY <1>4, <1>6, Places DEF InLiveMemory
<1>9. \A k \in SharedAt : data'[k] = data[k]
  BY <1>4, <1>6
<1>11. PICK taken : taken = weak
  OBVIOUS
<1>12. ASSUME NEW o \in Objects
       PROVE  /\ taken[o] = Cardinality(WeakPoints(o)') + (IF p = o THEN 1 ELSE 0)
              /\ taken[o] \in 0 .. CountWord - 1
              /\ taken[o] = 0 => weak[o] = 0
              /\ block[o] # "live" => taken[o] = 0
  BY <1>7, <1>11
<1>13. /\ taken = [o \in Objects |-> taken[o]]
       /\ weak' = IF p = Null THEN taken ELSE Dropped(taken, p)
       /\ block' = IF p = Null THEN block ELSE BlockWithoutWeak(taken, p)
  BY <1>2, <1>6, <1>11
<1>14. Idle /\ UNCHANGED <<obj, ref, unique, stack, error, hazards>>
  BY <1>2
<1>15. data' \in [SharedAt \cup WeakAt -> Objects \cup {Null}]
  BY <1>6
<1> QED
  BY <1>5, <1>8, <1>9, <1>12, <1>13, <1>14, <1>15, WeakSound

LEMMA WeakDestructorSound ==
  ASSUME PointerInv, NEW v \in WeakVars, WeakDestructor(v)
  PROVE  PointerInv'
<1>1. PICK l : l = Var(v)
  OBVIOUS
<1>2. PICK p : p = data[l]
  OBVIOUS
<1>3. /\ Idle /\ p # Null
      /\ data' = [data EXCEPT ![l] = Null]
      /\ weak' = IF p = Null THEN weak ELSE Dropped(weak, p)
      /\ block' = IF p = Null THEN block ELSE BlockWithoutWeak(weak, p)
      /\ UNCHANGED <<obj, ref, unique, stack, error, hazards>>
  BY <1>1, <1>2 DEF WeakDestructor, Replace
<1>4. /\ TypeOK /\ stack = <<>>
      /\ \A o \in Objects : CountBook(o, Null) /\ BlockBook(o)
  BY <1>3, IdleFacts
<1>5. /\ l \in WeakAt /\ l \notin SharedAt /\ InLiveMemory(l)
      /\ Null \notin Objects /\ \A o : SelfOf(o) # l
  BY <1>1, Places, PointerAssumption DEF InLiveMemory, Var, SelfOf
<1>6. p \in Objects /\ block[p] = "live"
  BY <1>2, <1>3, <1>5, Referred
<1>7. /\ data' \in [SharedAt \cup WeakAt -> Objects \cup {Null}] /\ data'[l] = Null
      /\ \A k \in SharedAt \cup WeakAt : k # l => data'[k] = data[k]
      /\ weak = [o \in Objects |-> weak[o]]
  BY <1>3, <1>4, <1>5 DEF TypeOK
<1>8. ASSUME NEW o \in Objects
      PROVE  /\ weak[o] = Cardinality(WeakPoints(o)') + (IF p = o THEN 1 ELSE 0)
             /\ weak[o] \in 0 .. CountWord - 1
             /\ block[o] # "live" => weak[o] = 0
  <2>1. CountBook(o, Null) /\ BlockBook(o)
    BY <1>4
  <2>2. /\ \A k : k # l => (k \in WeakPoints(o) <=> k \in WeakPoints(o)')
        /\ l \notin WeakPoints(o)' /\ (l \in WeakPoints(o) <=> p = o)
    BY <1>2, <1>3, <1>5, <1>7 DEF WeakPoints, InLiveMemory
  <2>3. PICK s, t : s = Cardinality(WeakPoints(o)) /\ t = Cardinality(WeakPoints(o)')
    OBVIOUS
  <2>4. WeakPoints(o) \subseteq WeakAt /\ WeakPoints(o)' \subseteq WeakAt
    BY DEF WeakPoints
  <2>5. IsFiniteSet(WeakPoints(o)) /\ IsFiniteSet(WeakPoints(o)')
    BY <2>4, Countable
  <2>6. /\ s \in Nat /\ t \in Nat
        /\ p # o => t = s
        /\ p = o => s = t + 1
    BY <2>2, <2>3, <2>5, OneChanged
  <2>7. weak[o] = s /\ weak[o] \in 0 .. CountWord - 1
    BY <1>4, <2>1, <2>3 DEF CountBook, TypeOK
  <2>8. weak[o] = t + (IF p = o THEN 1 ELSE 0)
    BY <2>6, <2>7
  <2> QED
    BY <2>1, <2>3, <2>7, <2>8 DEF BlockBook
<1>9. \A k \in SharedAt : data'[k] = data[k]
  BY <1>5, <1>7
<1>10. \A o \in Objects : obj[o] = "none" => data'[SelfOf(o)] = data[SelfOf(o)]
  BY <1>5, <1>7, Places
<1>11. PICK taken : taken = weak
  OBVIOUS
<1>12. ASSUME NEW o \in Objects
       PROVE  /\ taken[o] = Cardinality(WeakPoints(o)') + (IF p = o THEN 1 ELSE 0)
              /\ taken[o] \in 0 .. CountWord - 1
              /\ taken[o] = 0 => weak[o] = 0
              /\ block[o] # "live" => taken[o] = 0
  BY <1>8, <1>11
<1>13. /\ taken = [o \in Objects |-> taken[o]]
       /\ weak' = IF p = Null THEN taken ELSE Dropped(taken, p)
       /\ block' = IF p = Null THEN block ELSE BlockWithoutWeak(taken, p)
  BY <1>3, <1>7, <1>11
<1>14. Idle /\ UNCHANGED <<obj, ref, unique, stack, error, hazards>>
  BY <1>3
<1>15. data' \in [SharedAt \cup WeakAt -> Objects \cup {Null}]
  BY <1>7
<1> QED
  BY <1>6, <1>9, <1>10, <1>12, <1>13, <1>14, <1>15, WeakSound

\* A unique_ptr lets go of its object, and may hold a new one.
LEMMA UniqueGoneSound ==
  ASSUME PointerInv, Idle, NEW u, u = unique, u # Null, Delete(u, <<>>),
         unique' \in Objects \cup {Null}, unique' # u,
         unique' # Null => obj[unique'] = "none" /\ obj'[unique'] = "live",
         obj' \in [Objects -> {"none", "live", "deleted"}],
         \A o \in Objects : o # unique' => obj'[o] = obj[o],
         UNCHANGED <<block, ref, weak, data, error>>
  PROVE  PointerInv'
<1>1. /\ TypeOK /\ error = "none" /\ stack = <<>>
      /\ Frames = {} /\ Dying = {} /\ Ending = {}
      /\ \A o \in Objects : CountBook(o, Null) /\ BlockBook(o) /\ ObjectBook(o)
  BY IdleFacts
<1>2. PICK q : q = unique'
  OBVIOUS
<1>3. /\ u \in Objects /\ obj[u] = "live" /\ ref[u] = 0 /\ Null \notin Objects
      /\ obj'[u] = "live"
  <2>1. u \in Objects /\ Null \notin Objects
    BY <1>1, PointerAssumption DEF TypeOK
  <2>2. obj[u] = "live" /\ block[u] = "none"
    BY <1>1, <2>1 DEF ObjectBook
  <2>3. ref[u] = 0
    BY <1>1, <2>1, <2>2 DEF BlockBook
  <2> QED
    BY <2>1, <2>2, <2>3
<1>4. PICK a, b, c : /\ a = Frame("destroyWeak", SelfOf(u), Null)
                     /\ b = Frame("destroy", NextOf(u), Null)
                     /\ c = Frame("free", NextOf(u), Null)
  OBVIOUS
<1>5. stack' = <<a, b, c>> /\ hazards' = hazards
  <2>1. ~SourceIn(u)
    BY <1>1 DEF SourceIn
  <2>2. <<a, b, c>> \o <<>> = <<a, b, c>>
    OBVIOUS
  <2> QED
    BY <1>4, <2>1, <2>2 DEF Delete
<1>6. /\ a \in FrameType /\ b \in FrameType /\ c \in FrameType
      /\ a.op = "destroyWeak" /\ b.op = "destroy" /\ c.op = "free"
      /\ a.at = SelfOf(u) /\ b.at = NextOf(u) /\ c.at = NextOf(u)
      /\ SelfOf(u)[2] = u /\ NextOf(u)[2] = u
      /\ SelfOf(u) \in WeakAt /\ SelfOf(u)[1] = "self"
      /\ NextOf(u) \in SharedAt /\ NextOf(u)[1] = "next"
  BY <1>3, <1>4, Places DEF Frame, FrameType
<1>7. /\ stack' \in Seq(FrameType) /\ Len(stack') = 3
      /\ stack'[1] = a /\ stack'[2] = b /\ stack'[3] = c
  BY <1>5, <1>6
<1>8. Frames' = {a, b, c}
  BY <1>7 DEF Frames
<1>9. Dying' = {u} /\ Ending' = {}
  <2>1. \A o \in Objects : NextOf(o) = NextOf(u) <=> o = u
    BY DEF NextOf
  <2> QED
    BY <1>3, <1>6, <1>8, <2>1 DEF Dying, Ending
<1>10. Shape(stack, data)'
  <2>1. Link(a, b, data') /\ Link(b, c, data')
    BY <1>6 DEF Link
  <2>2. Outermost(c)
    BY <1>6 DEF Outermost
  <2>3. ASSUME NEW i \in 1 .. 2 PROVE Link(stack'[i], stack'[i + 1], data')
    BY <1>7, <2>1
  <2>4. ASSUME NEW i \in 1 .. 3, NEW j \in 1 .. 3,
               stack'[i].op = "free", stack'[j].op = "free"
        PROVE  i = j
    BY <1>6, <1>7, <2>4
  <2>5. Len(stack') - 1 = 2 /\ Len(stack') = 3
    BY <1>7
  <2> QED
    BY <1>7, <2>2, <2>3, <2>4, <2>5 DEF Shape
<1>11. FrameSound(a)' /\ FrameSound(b)' /\ FrameSound(c)'
  BY <1>3, <1>6 DEF FrameSound, FreeSound
<1>12. StackSound'
  <2>1. MembersEmpty' /\ MemoryFreed'
    BY <1>6, <1>7, <1>9 DEF MembersEmpty, MemoryFreed
  <2> QED
    BY <1>8, <1>10, <1>11, <2>1 DEF StackSound
<1>13. \A k \in SharedAt \cup WeakAt :
         data[k] # Null => (InLiveMemory(k)' <=> InLiveMemory(k))
  <2>1. ASSUME NEW k \in SharedAt \cup WeakAt, data[k] # Null, k[1] # "var"
        PROVE  k[2] \in Objects /\ k[2] # q
    <3>1. q # Null => data[NextOf(q)] = Null /\ data[SelfOf(q)] = Null
      BY <1>1, <1>2 DEF ObjectBook
    <3> QED
      BY <1>3, <2>1, <3>1, Places
  <2> QED
    BY <1>2, <2>1 DEF InLiveMemory
<1>14. ASSUME NEW o \in Objects
       PROVE  CountBook(o, Null)' /\ BlockBook(o)' /\ ObjectBook(o)'
  <2>1. CountBook(o, Null) /\ BlockBook(o) /\ ObjectBook(o) /\ o # Null
    BY <1>1, <1>3
  <2>2. Points(o)' = Points(o) /\ WeakPoints(o)' = WeakPoints(o)
    BY <1>1, <1>9, <1>13, <2>1 DEF Points, WeakPoints
  <2>3. CountBook(o, Null)' /\ BlockBook(o)'
    BY <1>1, <1>9, <2>1, <2>2 DEF CountBook, BlockBook
  <2>4. ObjectBook(o)'
    <3>1. CASE o = q
      BY <1>2, <1>3, <2>1, <3>1 DEF ObjectBook
    <3>2. CASE o = u
      BY <1>2, <1>3, <1>9, <2>1, <3>2 DEF ObjectBook
    <3>3. CASE o # q /\ o # u
      BY <1>1, <1>2, <1>9, <2>1, <3>3 DEF ObjectBook
    <3> QED
      BY <3>1, <3>2, <3>3
  <2> QED
    BY <2>3, <2>4
<1>15. Books(Null)'
  <2>1. Copying(Null)'
    BY <1>6, <1>8 DEF Copying
  <2> QED
    BY <1>14, <2>1 DEF Books
<1>16. TypeOK'
  BY <1>1, <1>5, <1>7 DEF TypeOK
<1>17. FreedOnlyThroughHazard'
  BY <1>1 DEF FreedOnlyThroughHazard
<1> QED
  BY <1>12, <1>15, <1>16, <1>17 DEF PointerInv

LEMMA UniqueAssignSound ==
  ASSUME PointerInv, NEW q \in Objects, UniqueAssign(q)
  PROVE  PointerInv'
<1>1. /\ Idle /\ unique # Null /\ obj[q] = "none" /\ unique' = q
      /\ obj' = [obj EXCEPT ![q] = "live"] /\ Delete(unique, <<>>)
      /\ UNCHANGED <<block, ref, weak, data, error>>
  BY DEF UniqueAssign, Construct
<1>2. TypeOK /\ \A o \in Objects : ObjectBook(o)
  BY <1>1, IdleFacts
<1>3. unique # q
  BY <1>1, <1>2 DEF ObjectBook
<1>4. /\ obj' \in [Objects -> {"none", "live", "deleted"}] /\ obj'[q] = "live"
      /\ \A o \in Objects : o # q => obj'[o] = obj[o]
  BY <1>1, <1>2 DEF TypeOK
<1>5. PICK u : u = unique
  OBVIOUS
<1>6. Delete(u, <<>>) /\ u # Null /\ unique' # u
  BY <1>1, <1>3, <1>5
<1> QED
  BY <1>1, <1>4, <1>5, <1>6, UniqueGoneSound

LEMMA UniqueDestructorSound ==
  ASSUME PointerInv, UniqueDestructor
  PROVE  PointerInv'
<1>1. PICK u : u = unique
  OBVIOUS
<1>2. /\ Idle /\ u # Null /\ unique' = Null /\ Delete(u, <<>>)
      /\ obj' = obj /\ UNCHANGED <<block, ref, weak, data, error>>
  BY <1>1 DEF UniqueDestructor
<1>3. obj' \in [Objects -> {"none", "live", "deleted"}]
  BY <1>2, IdleFacts DEF TypeOK
<1> QED
  BY <1>1, <1>2, <1>3, UniqueGoneSound

LEMMA SharedDestructorSound ==
  ASSUME PointerInv, NEW v \in SharedVars, SharedDestructor(v)
  PROVE  PointerInv'
<1>1. PICK f : f = Frame("destroy", Var(v), Null)
  OBVIOUS
<1>2. /\ Idle /\ stack' = <<f>>
      /\ UNCHANGED <<obj, block, ref, weak, data, unique, error, hazards>>
  BY <1>1 DEF SharedDestructor
<1>3. /\ TypeOK /\ error = "none" /\ stack = <<>>
      /\ Frames = {} /\ Dying = {} /\ Ending = {}
      /\ \A o \in Objects : CountBook(o, Null) /\ BlockBook(o) /\ ObjectBook(o)
  BY <1>2, IdleFacts
<1>4. /\ f \in FrameType /\ f.op = "destroy" /\ f.at = Var(v)
      /\ Var(v) \in SharedAt /\ Var(v)[1] = "var"
  BY <1>1, Places DEF Frame, FrameType
<1>5. stack' \in Seq(FrameType) /\ Len(stack') = 1 /\ stack'[1] = f
  BY <1>2, <1>4
<1>6. Frames' = {f} /\ Dying' = {} /\ Ending' = {}
  <2>1. Frames' = {f}
    BY <1>5 DEF Frames
  <2> QED
    BY <1>4, <2>1 DEF Dying, Ending
<1>7. StackSound'
  <2>1. Shape(stack, data)'
    BY <1>4, <1>5 DEF Shape, Outermost
  <2>2. FrameSound(f)'
    BY <1>4 DEF FrameSound
  <2>3. MembersEmpty' /\ MemoryFreed'
    BY <1>4, <1>5, <1>6 DEF MembersEmpty, MemoryFreed
  <2> QED
    BY <1>6, <2>1, <2>2, <2>3 DEF StackSound
<1>8. Books(Null)'
  <2>1. Copying(Null)'
    BY <1>4, <1>6 DEF Copying
  <2>2. ASSUME NEW o \in Objects
        PROVE  CountBook(o, Null)' /\ BlockBook(o)' /\ ObjectBook(o)'
    <3>1. Points(o)' = Points(o) /\ WeakPoints(o)' = WeakPoints(o)
      BY <1>2, <1>3, <1>6 DEF Points, WeakPoints, InLiveMemory
    <3> QED
      BY <1>2, <1>3, <1>6, <3>1 DEF CountBook, BlockBook, ObjectBook
  <2> QED
    BY <2>1, <2>2 DEF Books
<1>9. TypeOK' /\ FreedOnlyThroughHazard'
  BY <1>2, <1>3, <1>5 DEF TypeOK, FreedOnlyThroughHazard
<1> QED
  BY <1>7, <1>8, <1>9 DEF PointerInv

\* What the program can name is held by variables, and does not need itself to
\* be held: the objects reached without going through the member at l.
LEMMA NamedSupported ==
  ASSUME PointerInv, Idle, NEW l \in SharedPtrs
  PROVE  \E A \in SUBSET Objects : Supported(A, l)
<1>1. TypeOK /\ Dying = {} /\ Null \notin Objects
  BY IdleFacts, PointerAssumption
<1>2. ASSUME NEW v \in SharedVars, l = Var(v)
      PROVE  \E A \in SUBSET Objects : Supported(A, l)
  <2>1. l[1] # "next"
    BY <1>2, Places
  <2>2. Supported({}, l)
    BY <2>1 DEF Supported
  <2> QED
    BY <2>2
<1>3. ASSUME NEW p \in Named, l = NextOf(p)
      PROVE  \E A \in SUBSET Objects : Supported(A, l)
  <2> DEFINE ClosedBut(S) == \A o \in S : o # p => data[NextOf(o)] \in S \cup {Null}
  <2>1. PICK A : A = {o \in Objects : \A S \in SUBSET Objects :
                                        Held \subseteq S /\ ClosedBut(S) => o \in S}
    OBVIOUS
  <2>2. Held \subseteq Objects
    <3>1. \A v \in SharedVars : data[Var(v)] \in Objects \cup {Null}
      BY <1>1, Places DEF TypeOK
    <3>2. unique \in Objects \cup {Null}
      BY <1>1 DEF TypeOK
    <3> QED
      BY <3>1, <3>2 DEF Held
  <2>3. \A o \in A : o \in Objects /\ obj[o] = "live"
    <3>1. \A S : Closed(S) => ClosedBut(S)
      BY DEF Closed
    <3> HIDE DEF ClosedBut
    <3>2. A \subseteq Named
      BY <2>1, <3>1 DEF Named
    <3> QED
      BY <3>2, NamedLive
  <2>4. Held \subseteq A
    BY <2>1, <2>2
  <2>5. ASSUME NEW o \in A, o # p PROVE data[NextOf(o)] \in A \cup {Null}
    <3>1. data[NextOf(o)] \in Objects \cup {Null}
      BY <1>1, <2>3, Places DEF TypeOK
    <3>2. ASSUME NEW S \in SUBSET Objects, Held \subseteq S, ClosedBut(S)
          PROVE  data[NextOf(o)] \in S \cup {Null}
      <4>1. o \in S
        BY <2>1, <3>2
      <4> QED
        BY <2>5, <3>2, <4>1
    <3> HIDE DEF ClosedBut
    <3> QED
      BY <2>1, <3>1, <3>2
  <2>6. p \in A
    <3>1. p \in Objects
      BY NamedLive
    <3>2. ASSUME NEW S \in SUBSET Objects, Held \subseteq S, ClosedBut(S), p \notin S
          PROVE  FALSE
      <4>1. Closed(S)
        BY <3>2 DEF Closed
      <4> QED
        BY <3>2, <4>1 DEF Named
    <3> HIDE DEF ClosedBut
    <3> QED
      BY <2>1, <3>1, <3>2
  <2>7. ASSUME NEW a \in A
        PROVE  \/ unique = a
               \/ \E k \in SharedAt \ {l} :
                    data[k] = a /\ (k[1] = "next" => k[2] \in A)
    <3>1. SUFFICES ASSUME unique # a,
                          \A k \in SharedAt \ {l} :
                            ~(data[k] = a /\ (k[1] = "next" => k[2] \in A))
                   PROVE  FALSE
      OBVIOUS
    <3>2. PICK S : S = A \ {a}
      OBVIOUS
    <3>3. S \in SUBSET Objects
      BY <2>3, <3>2
    <3>4. Held \subseteq S
      <4>1. ASSUME NEW v \in SharedVars PROVE data[Var(v)] # a
        <5>1. Var(v) \in SharedAt /\ Var(v)[1] = "var" /\ Var(v) # l
          BY <1>3, Places DEF Var, NextOf
        <5> QED
          BY <3>1, <5>1
      <4>2. a \notin Held
        BY <3>1, <4>1 DEF Held
      <4> QED
        BY <2>4, <3>2, <4>2
    <3>5. ClosedBut(S)
      <4>1. SUFFICES ASSUME NEW o \in A, o # p, data[NextOf(o)] # Null
                     PROVE  data[NextOf(o)] \in A /\ data[NextOf(o)] # a
        BY <3>2
      <4>2. NextOf(o) \in SharedAt /\ NextOf(o)[2] = o /\ NextOf(o) # l
        BY <1>3, <2>3, <4>1, Places DEF NextOf
      <4> QED
        BY <2>5, <3>1, <4>1, <4>2
    <3> HIDE DEF ClosedBut
    <3>6. a \in S
      BY <2>1, <2>7, <3>3, <3>4, <3>5
    <3> QED
      BY <3>2, <3>6
  <2>8. Supported(A, l)
    <3>1. l[2] = p
      BY <1>3 DEF NextOf
    <3> QED
      BY <1>1, <2>3, <2>6, <2>7, <3>1 DEF Supported
  <2> QED
    BY <2>3, <2>8
<1>4. (\E v \in SharedVars : l = Var(v)) \/ (\E p \in Named : l = NextOf(p))
  BY DEF SharedPtrs
<1> QED
  BY <1>2, <1>3, <1>4

\* An assignment begins: a copy counts its source in advance.
LEMMA AssignStartSound ==
  ASSUME PointerInv, Idle, NEW l \in SharedPtrs, NEW m \in SharedPtrs, l # m,
         NEW op \in {"copy", "move"}, NEW x,
         op = "copy" => x = data[m], op = "move" => x = Null,
         ref' = IF x = Null THEN ref ELSE [ref EXCEPT ![x] = @ + 1],
         stack' = Append(OldValue(l), Frame(op, l, m)),
         UNCHANGED <<obj, block, weak, data, unique, error, hazards>>
  PROVE  PointerInv'
<1>1. /\ TypeOK /\ error = "none" /\ stack = <<>>
      /\ Frames = {} /\ Dying = {} /\ Ending = {}
      /\ \A o \in Objects : CountBook(o, Null) /\ BlockBook(o) /\ ObjectBook(o)
  BY IdleFacts
<1>2. /\ l \in SharedAt /\ InLiveMemory(l) /\ m \in SharedAt /\ InLiveMemory(m)
      /\ Null \notin Objects
  BY NamedLive, PointerAssumption
<1>3. x # Null => /\ x \in Objects /\ ref[x] \in Nat /\ ref[x] # 0
                  /\ obj[x] = "live" /\ block[x] = "live"
  BY <1>2, Referred
<1>4. PICK f, d : f = Frame(op, l, m) /\ d = Frame("destroy", l, Null)
  OBVIOUS
<1>5. /\ f \in FrameType /\ f.op = op /\ f.at = l /\ f.from = m
      /\ d \in FrameType /\ d.op = "destroy" /\ d.at = l
  BY <1>2, <1>4 DEF Frame, FrameType
<1>6. /\ stack' \in Seq(FrameType) /\ Shape(stack, data)'
      /\ f \in Frames' /\ \A g \in Frames' : g = f \/ g = d
      /\ (stack'[1] = f /\ data[l] = Null) \/ stack'[1] = d
  <2>1. CASE data[l] = Null
    <3>1. stack' = <<f>>
      BY <1>4, <2>1 DEF OldValue
    <3>2. stack' \in Seq(FrameType) /\ Len(stack') = 1 /\ stack'[1] = f
      BY <1>5, <3>1
    <3>3. Frames' = {f}
      BY <3>2 DEF Frames
    <3>4. Outermost(f)
      BY <1>5 DEF Outermost
    <3>5. Shape(stack, data)'
      BY <3>2, <3>4 DEF Shape
    <3> QED
      BY <2>1, <3>2, <3>3, <3>5
  <2>2. CASE data[l] # Null
    <3>1. stack' = Append(<<d>>, f)
      <4>1. OldValue(l) = <<d>>
        BY <1>4, <2>2 DEF OldValue
      <4> QED
        BY <1>4, <4>1
    <3>2. /\ stack' \in Seq(FrameType) /\ Len(stack') = 2
          /\ stack'[1] = d /\ stack'[2] = f
      <4>1. <<d>> \in Seq(FrameType) /\ Len(<<d>>) = 1 /\ <<d>>[1] = d
        BY <1>5
      <4> QED
        BY <1>5, <3>1, <4>1, AppendProperties
    <3>3. Frames' = {d, f}
      BY <3>2 DEF Frames
    <3>4. Outermost(f) /\ Link(d, f, data')
      BY <1>5 DEF Outermost, Link
    <3>5. ASSUME NEW i \in 1 .. 2 PROVE stack'[i].op # "free"
      BY <1>5, <3>2
    <3>6. ASSUME NEW i \in 1 .. 2 - 1 PROVE Link(stack'[i], stack'[i + 1], data')
      BY <3>2, <3>4
    <3>7. Shape(stack, data)'
      BY <3>2, <3>4, <3>5, <3>6 DEF Shape
    <3> QED
      BY <3>2, <3>3, <3>7
  <2> QED
    BY <2>1, <2>2
<1>7. Dying' = {} /\ Ending' = {}
  BY <1>5, <1>6 DEF Dying, Ending
<1>8. FrameSound(f)'
  <2>1. PICK A \in SUBSET Objects : Supported(A, l)
    BY NamedSupported
  <2>2. Supported(A, l)'
    BY <1>1, <1>7, <2>1, SupportKept
  <2>3. Alive(m)'
    BY <1>2, <1>7 DEF Alive, InLiveMemory
  <2>4. AssignSound(f)'
    BY <1>2, <1>5, <2>2, <2>3 DEF AssignSound
  <2> QED
    BY <1>2, <1>5, <2>4 DEF FrameSound
<1>9. StackSound'
  <2>1. FrameSound(d)'
    BY <1>2, <1>5 DEF FrameSound
  <2>2. MembersEmpty' /\ MemoryFreed'
    BY <1>5, <1>6, <1>7 DEF MembersEmpty, MemoryFreed
  <2> QED
    BY <1>6, <1>8, <2>1, <2>2 DEF StackSound
<1>10. /\ ref' = [o \in Objects |-> ref'[o]]
       /\ \A o \in Objects : o # x => ref'[o] = ref[o]
       /\ x # Null => ref'[x] = ref[x] + 1
  <2>1. CASE x = Null
    BY <1>1, <2>1 DEF TypeOK
  <2>2. CASE x # Null
    BY <1>1, <1>3, <2>2 DEF TypeOK
  <2> QED
    BY <2>1, <2>2
<1>11. ASSUME NEW o \in Objects
       PROVE  CountBook(o, x)' /\ BlockBook(o)' /\ ObjectBook(o)'
  <2>1. CountBook(o, Null) /\ BlockBook(o) /\ ObjectBook(o) /\ o # Null
    BY <1>1, <1>2
  <2>2. Points(o)' = Points(o) /\ WeakPoints(o)' = WeakPoints(o)
    BY <1>1, <1>7 DEF Points, WeakPoints, InLiveMemory
  <2>3. PICK s : s = Cardinality(Points(o))
    OBVIOUS
  <2>4. s \in Nat
    <3>1. Points(o) \subseteq SharedAt
      BY DEF Points
    <3> QED
      BY <2>3, <3>1, Countable
  <2>5. ref[o] = s /\ weak[o] = Cardinality(WeakPoints(o))
    BY <2>1, <2>3, <2>4 DEF CountBook
  <2>6. ref'[o] = s + (IF x = o THEN 1 ELSE 0)
    BY <1>10, <2>1, <2>4, <2>5
  <2>7. CountBook(o, x)'
    BY <2>2, <2>3, <2>5, <2>6 DEF CountBook
  <2>8. (ref'[o] = 0 <=> ref[o] = 0) /\ (ref'[o] > 0 <=> ref[o] > 0)
    <3>1. CASE x = o
      BY <1>3, <2>1, <2>4, <2>5, <2>6, <3>1
    <3>2. CASE x # o
      BY <1>10, <3>2
    <3> QED
      BY <3>1, <3>2
  <2>9. BlockBook(o)' /\ ObjectBook(o)'
    BY <1>1, <1>7, <2>1, <2>8 DEF BlockBook, ObjectBook
  <2> QED
    BY <2>7, <2>9
<1>12. Books(x)'
  <2>1. Copying(x)'
    BY <1>5, <1>6 DEF Copying
  <2> QED
    BY <1>3, <1>11, <2>1 DEF Books
<1>13. TypeOK'
  <2>1. weak' = [o \in Objects |-> weak'[o]]
    BY <1>1 DEF TypeOK
  <2>2. ref' \in [Objects -> 0 .. CountWord - 1]
    BY <1>10, <1>11, <2>1, Ranges
  <2> QED
    BY <1>1, <1>6, <2>2 DEF TypeOK
<1>14. FreedOnlyThroughHazard'
  BY <1>1 DEF FreedOnlyThroughHazard
<1> QED
  BY <1>9, <1>12, <1>13, <1>14 DEF PointerInv

LEMMA CopyAssignSound ==
  ASSUME PointerInv, NEW l \in SharedPtrs, NEW m \in SharedPtrs, CopyAssign(l, m)
  PROVE  PointerInv'
<1>1. PICK x : x = data[m]
  OBVIOUS
<1>2. /\ Idle /\ l # m
      /\ ref' = IF x = Null THEN ref ELSE [ref EXCEPT ![x] = @ + 1]
      /\ stack' = Append(OldValue(l), Frame("copy", l, m))
      /\ UNCHANGED <<obj, block, weak, data, unique, error, hazards>>
  BY <1>1 DEF CopyAssign, Referenced
<1> QED
  BY <1>1, <1>2, AssignStartSound

LEMMA MoveAssignSound ==
  ASSUME PointerInv, NEW l \in SharedPtrs, NEW m \in SharedPtrs, MoveAssign(l, m)
  PROVE  PointerInv'
<1>1. PICK x : x = Null
  OBVIOUS
<1>2. /\ Idle /\ l # m
      /\ ref' = IF x = Null THEN ref ELSE [ref EXCEPT ![x] = @ + 1]
      /\ stack' = Append(OldValue(l), Frame("move", l, m))
      /\ UNCHANGED <<obj, block, weak, data, unique, error, hazards>>
  BY <1>1 DEF MoveAssign
<1> QED
  BY <1>1, <1>2, AssignStartSound

\* A program that stops changes nothing else.
LEMMA FailSound ==
  ASSUME PointerInv, Fail("null") \/ Fail("stopped")
  PROVE  PointerInv'
BY DEF PointerInv, Fail, TypeOK, FreedOnlyThroughHazard, Running

-----------------------------------------------------------------------------
(***************************************************************************)
(* The theorems.                                                           *)
(***************************************************************************)
LEMMA InitSound == Init => PointerInv
<1> SUFFICES ASSUME Init PROVE PointerInv
  OBVIOUS
<1>1. Frames = {} /\ Dying = {} /\ Ending = {} /\ stack = <<>>
  BY DEF Init, Frames, Dying, Ending
<1>2. CountWord \in Nat /\ CountWord > 0
  <2>1. Cardinality({}) \in Nat /\ Cardinality({}) + 1 < CountWord
    BY Countable
  <2> QED
    BY <2>1, Countable
<1>3. TypeOK /\ FreedOnlyThroughHazard
  BY <1>2 DEF Init, TypeOK, FreedOnlyThroughHazard
<1>4. StackSound
  BY <1>1 DEF StackSound, Shape, MembersEmpty, MemoryFreed
<1>5. ASSUME NEW o \in Objects PROVE CountBook(o, Null) /\ BlockBook(o) /\ ObjectBook(o)
  <2>1. o # Null
    BY PointerAssumption
  <2>2. /\ \A l \in SharedAt \cup WeakAt : data[l] = Null
        /\ NextOf(o) \in SharedAt /\ SelfOf(o) \in WeakAt
    BY Places DEF Init
  <2>3. Points(o) = {} /\ WeakPoints(o) = {}
    BY <2>1, <2>2 DEF Points, WeakPoints
  <2>4. Cardinality({}) = 0
    BY FS_EmptySet
  <2> QED
    BY <1>1, <2>1, <2>2, <2>3, <2>4 DEF Init, CountBook, BlockBook, ObjectBook
<1>6. Books(Null)
  BY <1>1, <1>5 DEF Books, Copying
<1> QED
  BY <1>3, <1>4, <1>6 DEF PointerInv

LEMMA NextSound == PointerInv /\ [Next]_vars => PointerInv'
<1> SUFFICES ASSUME PointerInv, [Next]_vars PROVE PointerInv'
  OBVIOUS
<1>1. CASE Step
  BY <1>1, DestroyWeakSound, FreeMemorySound, DestroyNotLastSound,
     DestroyLastSound, DestroyBlockSound, TouchFreedBlockSound,
     FinishMoveSound, FinishCopySound, ReadFreedSourceSound DEF Step
<1>2. CASE Operation
  <2>1. CASE \E o \in Objects : make_unique(o) \/ UniqueAssign(o)
    BY <2>1, make_uniqueSound, UniqueAssignSound
  <2>2. CASE UniqueDestructor
    BY <2>2, UniqueDestructorSound
  <2>3. ASSUME NEW v \in SharedVars,
               \/ \E o \in Objects : make_shared(v, o)
               \/ SharedFromUnique(v) \/ SharedDestructor(v)
               \/ \E l \in SharedPtrs : CopyConstruct(v, l)
               \/ \E l \in WeakPtrs : lock(v, l)
        PROVE  PointerInv'
    BY <2>3, make_sharedSound, SharedFromUniqueSound, SharedDestructorSound,
       CopyConstructSound, lockSound
  <2>4. CASE \E l \in SharedPtrs : static_pointer_cast(l) \/ check(l)
    BY <2>4, FailSound DEF static_pointer_cast, check
  <2>5. CASE \E l, m \in SharedPtrs : CopyAssign(l, m) \/ MoveAssign(l, m)
    BY <2>5, CopyAssignSound, MoveAssignSound
  <2>6. CASE \E l \in WeakPtrs, m \in SharedPtrs \cup WeakPtrs :
               WeakFrom(l, m) \/ WeakFromNull(l, m)
    BY <2>6, WeakFromSound, FailSound DEF WeakFromNull
  <2>7. CASE \E l, m \in WeakPtrs : WeakMove(l, m)
    BY <2>7, WeakMoveSound
  <2>8. CASE \E v \in WeakVars : WeakDestructor(v)
    BY <2>8, WeakDestructorSound
  <2> QED
    BY <1>2, <2>1, <2>2, <2>3, <2>4, <2>5, <2>6, <2>7, <2>8 DEF Operation
<1>3. CASE Halted
  BY <1>3 DEF Halted, Running, vars, PointerInv, TypeOK, FreedOnlyThroughHazard
<1>4. CASE UNCHANGED vars
  <2>1. Frames' = Frames /\ Dying' = Dying /\ Ending' = Ending
    BY <1>4 DEF vars, Frames, Dying, Ending
  <2>2. TypeOK' /\ FreedOnlyThroughHazard'
    BY <1>4 DEF vars, PointerInv, TypeOK, FreedOnlyThroughHazard
  <2>3. CASE Running
    <3>1. PICK x : Books(x)
      BY <2>3 DEF PointerInv
    <3>2. \A o : Points(o)' = Points(o) /\ WeakPoints(o)' = WeakPoints(o)
      BY <1>4, <2>1 DEF vars, Points, WeakPoints, InLiveMemory
    <3>3. \A l : Alive(l)' <=> Alive(l)
      BY <1>4, <2>1 DEF vars, Alive
    <3>4. Copying(x)'
      BY <1>4, <2>1, <3>1, <3>3 DEF vars, Books, Copying
    <3>5. ASSUME NEW o \in Objects
          PROVE  CountBook(o, x)' /\ BlockBook(o)' /\ ObjectBook(o)'
      <4>1. CountBook(o, x) /\ BlockBook(o) /\ ObjectBook(o)
        BY <3>1 DEF Books
      <4> QED
        BY <1>4, <2>1, <3>2, <4>1 DEF vars, CountBook, BlockBook, ObjectBook
    <3>6. Books(x)'
      BY <3>1, <3>4, <3>5 DEF Books
    <3>7. StackSound
      BY <2>3 DEF PointerInv
    <3>8. Shape(stack, data)' /\ MembersEmpty' /\ MemoryFreed'
      BY <1>4, <2>1, <3>7 DEF vars, StackSound, Shape, MembersEmpty, MemoryFreed
    <3>9. ASSUME NEW f \in Frames PROVE FrameSound(f)'
      <4>1. FrameSound(f)
        BY <3>7 DEF StackSound
      <4>2. \A A, l : Supported(A, l)' <=> Supported(A, l)
        BY <1>4, <2>1 DEF vars, Supported
      <4>3. AssignSound(f) => AssignSound(f)'
        BY <1>4, <3>3, <4>2 DEF vars, AssignSound
      <4> QED
        BY <1>4, <4>1, <4>3 DEF vars, FrameSound, FreeSound, EndSound
    <3> QED
      BY <2>1, <2>2, <3>6, <3>8, <3>9 DEF PointerInv, StackSound
  <2>4. CASE ~Running
    BY <1>4, <2>2, <2>4 DEF vars, PointerInv, Running
  <2> QED
    BY <2>3, <2>4
<1> QED
  BY <1>1, <1>2, <1>3, <1>4 DEF Next

\* The counts in the control blocks and the calls in progress stay what the
\* invariant says, through every step of the code.
THEOREM InvHolds == Spec => []PointerInv
<1>1. Init => PointerInv
  BY InitSound
<1>2. PointerInv /\ [Next]_vars => PointerInv'
  BY NextSound
<1> QED
  BY <1>1, <1>2, PTL DEF Spec

LEMMA InvSound == PointerInv => CountsSound
<1> SUFFICES ASSUME PointerInv, Idle
             PROVE  /\ TypeOK
                    /\ \A o \in Objects : block[o] = "live" =>
                         /\ ref[o] = Cardinality(Refers(SharedAt, o))
                         /\ weak[o] = Cardinality(Refers(WeakAt, o))
                    /\ \A o \in Objects :
                         /\ obj[o] = "live" <=> ref[o] > 0 \/ unique = o
                         /\ Refers(SharedAt \cup WeakAt, o) # {} => block[o] = "live"
                         /\ block[o] = "live" => Refers(SharedAt \cup WeakAt, o) # {}
  BY DEF CountsSound, CountsExact, OwnedIsLive, BlocksNotLeaked, PointerInv
<1>1. /\ TypeOK /\ Dying = {} /\ Ending = {} /\ Null \notin Objects
      /\ \A o \in Objects : CountBook(o, Null) /\ BlockBook(o) /\ ObjectBook(o)
  BY IdleFacts, PointerAssumption
<1>2. ASSUME NEW o \in Objects
      PROVE  /\ ref[o] = Cardinality(Refers(SharedAt, o))
             /\ weak[o] = Cardinality(Refers(WeakAt, o))
             /\ obj[o] = "live" <=> ref[o] > 0 \/ unique = o
             /\ Refers(SharedAt \cup WeakAt, o) # {} <=> block[o] = "live"
  <2>1. Points(o) = Refers(SharedAt, o) /\ WeakPoints(o) = Refers(WeakAt, o)
    BY <1>1 DEF Points, WeakPoints, Refers
  <2>2. CountBook(o, Null) /\ BlockBook(o) /\ ObjectBook(o) /\ o # Null
    BY <1>1
  <2>3. PICK s, t : s = Cardinality(Points(o)) /\ t = Cardinality(WeakPoints(o))
    OBVIOUS
  <2>4. /\ s \in Nat /\ (s = 0 <=> Points(o) = {})
        /\ t \in Nat /\ (t = 0 <=> WeakPoints(o) = {})
    BY <2>3, Counts DEF Points, WeakPoints
  <2>5. ref[o] = s /\ weak[o] = t
    BY <2>2, <2>3, <2>4 DEF CountBook
  <2>6. Refers(SharedAt \cup WeakAt, o) # {} <=> s # 0 \/ t # 0
    BY <2>1, <2>4 DEF Refers
  <2>7. block[o] = "live" <=> s # 0 \/ t # 0
    BY <1>1, <2>2, <2>5 DEF BlockBook
  <2> QED
    BY <1>1, <2>1, <2>2, <2>3, <2>5, <2>6, <2>7 DEF ObjectBook
<1> QED
  BY <1>1, <1>2

\* shared_ptr and weak_ptr keep their books: between any two operations the
\* counts of every control block are exactly the numbers of pointers to it, an
\* object exists as long as a pointer owns it and no longer, and a control
\* block as long as any pointer refers to it and no longer.
THEOREM CountsStaySound == Spec => []CountsSound
<1>1. PointerInv => CountsSound
  BY InvSound
<1> QED
  BY <1>1, InvHolds, PTL

\* destroy, operator= and the destructors of members touch no memory that is
\* freed, unless a weak reference of a dying object to itself or an assignment
\* from a member of the dying object (p = p->next) was met.
THEOREM FreedOnlyThroughHazards == Spec => []FreedOnlyThroughHazard
<1>1. PointerInv => FreedOnlyThroughHazard
  BY DEF PointerInv
<1> QED
  BY <1>1, InvHolds, PTL

\* What a pointer refers to has an owner until the pointer is destroyed.
LEMMA StillOwned ==
  ASSUME PointerInv, Doing("destroy"), NEW y, y = data[Top.at], y # Null
  PROVE  y \in Objects /\ ref[y] # 0
<1>1. TypeOK /\ StackSound /\ stack # <<>> /\ Top.op = "destroy"
  BY DEF PointerInv, Doing
<1>2. PICK x : Books(x)
  BY DEF PointerInv, Doing
<1>3. PICK l : l = Top.at
  OBVIOUS
<1>4. /\ l \in SharedAt /\ InLiveMemory(l)
      /\ \A j \in 2 .. Len(stack) : stack[j].op = "deleted" => stack[j].at # l
  BY <1>1, <1>3, DestroyedAt
<1>5. y \in Objects
  BY <1>1, <1>3, <1>4 DEF TypeOK
<1>6. l \notin Ending
  <2>1. SUFFICES ASSUME NEW f \in Frames, f.op = "deleted" PROVE f.at # l
    BY DEF Ending
  <2>2. PICK i \in 1 .. Len(stack) : f = stack[i]
    BY DEF Frames
  <2>3. i # 1 /\ Len(stack) \in Nat
    BY <1>1, <2>1, <2>2, TopFacts
  <2>4. i \in 2 .. Len(stack)
    BY <2>3
  <2> QED
    BY <1>4, <2>1, <2>2, <2>4
<1>7. l \in Points(y) /\ Points(y) \subseteq SharedAt
  BY <1>3, <1>4, <1>6 DEF Points
<1>8. PICK s : s = Cardinality(Points(y))
  OBVIOUS
<1>9. s \in Nat /\ s # 0
  BY <1>7, <1>8, Counts
<1> QED
  BY <1>2, <1>5, <1>8, <1>9 DEF Books, CountBook

\* A count of zero is never raised again.
LEMMA StaysZero ==
  ASSUME PointerInv, [Next]_vars, NEW o \in Objects, block[o] # "none", ref[o] = 0
  PROVE  ref'[o] = 0
<1>2. TypeOK
  BY DEF PointerInv
<1>3. ASSUME NEW y \in Objects, ref[y] # 0 \/ block[y] = "none",
             NEW c, ref' = [ref EXCEPT ![y] = c]
      PROVE  ref'[o] = 0
  BY <1>2, <1>3 DEF TypeOK
<1>4. CASE DestroyNotLast
  <2>1. PICK y : y = data[Top.at]
    OBVIOUS
  <2>2. /\ Doing("destroy")
        /\ ref' = IF y = Null THEN ref ELSE [ref EXCEPT ![y] = (@ - 1) % CountWord]
    BY <1>4, <2>1 DEF DestroyNotLast
  <2>3. CASE y # Null
    BY <1>3, <2>1, <2>2, <2>3, StillOwned
  <2> QED
    BY <2>2, <2>3
<1>5. CASE DestroyLast
  BY <1>2, <1>5 DEF DestroyLast, TypeOK
<1>6. ASSUME NEW v \in SharedVars, NEW q \in Objects, make_shared(v, q)
      PROVE  ref'[o] = 0
  <2>1. block[q] = "none"
    BY <1>6, IdleFacts DEF make_shared, Construct, ObjectBook
  <2> QED
    BY <1>3, <1>6, <2>1 DEF make_shared, NewBlock
<1>7. ASSUME NEW v \in SharedVars, SharedFromUnique(v)
      PROVE  ref'[o] = 0
  <2>1. unique \in Objects /\ block[unique] = "none"
    BY <1>2, <1>7, IdleFacts DEF SharedFromUnique, ObjectBook, TypeOK
  <2> QED
    BY <1>3, <1>7, <2>1 DEF SharedFromUnique, NewBlock
<1>8. ASSUME Idle, NEW l \in SharedPtrs, ref' = Referenced(l)
      PROVE  ref'[o] = 0
  <2>1. PICK y : y = data[l]
    OBVIOUS
  <2>2. ref' = IF y = Null THEN ref ELSE [ref EXCEPT ![y] = @ + 1]
    BY <1>8, <2>1 DEF Referenced
  <2>3. y # Null => y \in Objects /\ ref[y] # 0
    BY <1>8, <2>1, NamedLive, Referred
  <2> QED
    BY <1>3, <2>2, <2>3
<1>9. ASSUME NEW v \in SharedVars, NEW l \in WeakPtrs, lock(v, l)
      PROVE  ref'[o] = 0
  <2>1. PICK y : y = data[l]
    OBVIOUS
  <2>2. Idle /\ y # Null /\ ref[y] # 0 /\ ref' = [ref EXCEPT ![y] = @ + 1]
    BY <1>9, <2>1 DEF lock, expired, Referenced
  <2>3. y \in Objects
    BY <2>1, <2>2, NamedLive, Referred
  <2> QED
    BY <1>3, <2>2, <2>3
<1>10. CASE Step
  <2>1. Step => DestroyNotLast \/ DestroyLast \/ ref' = ref
    BY DEF Step, DestroyWeak, FreeMemory, DestroyBlock, TouchFreedBlock,
           FinishMove, FinishCopy, ReadFreedSource, Fail
  <2> QED
    BY <1>4, <1>5, <1>10, <2>1
<1>11. CASE Operation
  <2>1. CASE \E q \in Objects : make_unique(q) \/ UniqueAssign(q)
    BY <2>1 DEF make_unique, UniqueAssign
  <2>2. CASE UniqueDestructor
    BY <2>2 DEF UniqueDestructor
  <2>3. ASSUME NEW v \in SharedVars,
               \/ \E q \in Objects : make_shared(v, q)
               \/ SharedFromUnique(v) \/ SharedDestructor(v)
               \/ \E l \in SharedPtrs : CopyConstruct(v, l)
               \/ \E l \in WeakPtrs : lock(v, l)
        PROVE  ref'[o] = 0
    BY <1>6, <1>7, <1>8, <1>9, <2>3 DEF SharedDestructor, CopyConstruct
  <2>4. CASE \E l \in SharedPtrs : static_pointer_cast(l) \/ check(l)
    BY <2>4 DEF static_pointer_cast, check, Fail
  <2>5. CASE \E l, m \in SharedPtrs : CopyAssign(l, m) \/ MoveAssign(l, m)
    BY <1>8, <2>5 DEF CopyAssign, MoveAssign
  <2>6. CASE \E l \in WeakPtrs, m \in SharedPtrs \cup WeakPtrs :
               WeakFrom(l, m) \/ WeakFromNull(l, m)
    BY <2>6 DEF WeakFrom, WeakFromNull, Replace, Fail
  <2>7. CASE \E l, m \in WeakPtrs : WeakMove(l, m)
    BY <2>7 DEF WeakMove
  <2>8. CASE \E v \in WeakVars : WeakDestructor(v)
    BY <2>8 DEF WeakDestructor, Replace
  <2> QED
    BY <1>11, <2>1, <2>2, <2>3, <2>4, <2>5, <2>6, <2>7, <2>8 DEF Operation
<1>12. CASE Halted \/ UNCHANGED vars
  BY <1>12 DEF Halted, vars
<1> QED
  BY <1>10, <1>11, <1>12 DEF Next

\* lock and the copies give an object no owner after its last one is gone, so
\* expired, once true, stays true: also while the object is being deleted.
THEOREM DeadStaysDead == Spec => NeverRevived
<1>1. PointerInv /\ [Next]_vars =>
        [\A o \in Objects : block[o] # "none" /\ ref[o] = 0 => ref'[o] = 0]_vars
  BY StaysZero
<1> QED
  BY <1>1, InvHolds, PTL DEF Spec, NeverRevived
=============================================================================
