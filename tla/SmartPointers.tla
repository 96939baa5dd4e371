--------------------------- MODULE SmartPointers ----------------------------
(***************************************************************************)
(* unique_ptr, shared_ptr and weak_ptr,                                    *)
(* src/header/LanguageFeatures/SmartPointer.hpp.                           *)
(*                                                                         *)
(* An object and the control block (shared_ptr::Data) made for it share a  *)
(* name, so a pointer is the name it refers to, or Null.  Pointers are     *)
(* variables or members of objects: every object has a shared member       *)
(* `next' (Storage::next, FilesystemNode::next) and a weak member `self'   *)
(* (PartitionTable::self and ::storage), declared in this order.           *)
(*                                                                         *)
(* Deleting an object destroys its members, and an assignment goes on      *)
(* after the old value is destroyed; `stack' holds what is left to do, the *)
(* innermost call first.  Touching a control block or a member that is     *)
(* already deleted is undefined and ends a behaviour with error "freed".   *)
(***************************************************************************)
EXTENDS Integers, Sequences, FiniteSets

CONSTANTS Objects,     \* the objects a behaviour may create
          SharedVars,  \* variables of type shared_ptr
          WeakVars,    \* variables of type weak_ptr
          Null,        \* nullptr
          CountWord    \* 2^32: the counts are computed modulo this

VARIABLES
  obj,      \* object -> "none", "live" or "deleted"
  block,    \* control block -> "none", "live" or "deleted"
  ref,      \* Data::refCount
  weak,     \* Data::weakCount
  data,     \* pointer -> what it refers to
  unique,   \* what the unique_ptr variable refers to
  stack,    \* calls in progress, innermost first
  error,    \* "none", "freed", "null" (nullptr dereferenced), "stopped" (check)
  hazards   \* history: "backReference", a weak reference to an object was
            \* destroyed while the object was being deleted; "sourceDied",
            \* the source of an assignment was deleted with the old value

vars == <<obj, block, ref, weak, data, unique, stack, error, hazards>>

Var(v) == <<"var", v>>
NextOf(o) == <<"next", o>>
SelfOf(o) == <<"self", o>>
SharedAt == {Var(v) : v \in SharedVars} \cup {NextOf(o) : o \in Objects}
WeakAt == {Var(v) : v \in WeakVars} \cup {SelfOf(o) : o \in Objects}

\* A variable has one type, and there are fewer pointers than the counts count.
ASSUME PointerAssumption ==
  /\ Null \notin Objects /\ SharedVars \cap WeakVars = {}
  /\ IsFiniteSet(SharedAt \cup WeakAt) /\ CountWord \in Nat
  /\ Cardinality(SharedAt \cup WeakAt) + 1 < CountWord

Init ==
  /\ obj = [o \in Objects |-> "none"]
  /\ block = [o \in Objects |-> "none"]
  /\ ref = [o \in Objects |-> 0]
  /\ weak = [o \in Objects |-> 0]
  /\ data = [l \in SharedAt \cup WeakAt |-> Null]
  /\ unique = Null
  /\ stack = <<>>
  /\ error = "none"
  /\ hazards = {}

-----------------------------------------------------------------------------
Running == error = "none"
Idle == Running /\ stack = <<>>

\* The memory the pointer at l lies in has not been freed.
InLiveMemory(l) == l[1] # "var" => obj[l[2]] = "live"

\* Objects the program can name: operator-> from a variable, then `next' from
\* one to the other.
Held == ({data[Var(v)] : v \in SharedVars} \cup {unique}) \ {Null}
Closed(S) == \A o \in S : data[NextOf(o)] \in S \cup {Null}
Named == {o \in Objects : \A S \in SUBSET Objects :
                            Held \subseteq S /\ Closed(S) => o \in S}

SharedPtrs == {Var(v) : v \in SharedVars} \cup {NextOf(o) : o \in Named}
WeakPtrs == {Var(v) : v \in WeakVars} \cup {SelfOf(o) : o \in Named}

Fail(kind) ==
  /\ error' = kind
  /\ UNCHANGED <<obj, block, ref, weak, data, unique, stack, hazards>>

Top == Head(stack)
Doing(op) == Running /\ stack # <<>> /\ Top.op = op

Frame(op, l, from) == [op |-> op, at |-> l, from |-> from]

-----------------------------------------------------------------------------
(***************************************************************************)
(* weak_ptr::destroy on a reference to o # Null: the count it leaves, and  *)
(* the control blocks, given the weak counts w it finds.                   *)
(***************************************************************************)
\* Faulty: one reference is counted twice.
DroppedTwice(w, o) == [w EXCEPT ![o] = @ - 2]

Dropped(w, o) == [w EXCEPT ![o] = (@ - 1) % CountWord]

\* Faulty: the block is deleted with the last weak reference.
BlockWithoutWeakOnly(w, o) ==
  IF Dropped(w, o)[o] = 0 THEN [block EXCEPT ![o] = "deleted"] ELSE block

BlockWithoutWeak(w, o) ==
  IF Dropped(w, o)[o] = 0 /\ ref[o] = 0
  THEN [block EXCEPT ![o] = "deleted"] ELSE block

DestroyWeak ==
  LET o == data[Top.at] IN
  /\ Doing("destroyWeak")
  /\ o # Null => block[o] = "live"
  /\ weak' = IF o = Null THEN weak ELSE Dropped(weak, o)
  /\ block' = IF o = Null THEN block ELSE BlockWithoutWeak(weak, o)
  /\ data' = [data EXCEPT ![Top.at] = Null]
  /\ stack' = Tail(stack)
  /\ hazards' = hazards \cup
       {h \in {"backReference"} : o # Null /\ obj[o] = "live" /\ ref[o] = 0}
  /\ UNCHANGED <<obj, ref, unique, error>>

(***************************************************************************)
(* delete of object o: its members are destroyed in reverse order, then    *)
(* its memory is freed, then comes `rest'.                                 *)
(***************************************************************************)
SourceIn(o) == \E i \in 1 .. Len(stack) : stack[i].from = NextOf(o)

Delete(o, rest) ==
  /\ stack' = <<Frame("destroyWeak", SelfOf(o), Null),
                Frame("destroy", NextOf(o), Null),
                Frame("free", NextOf(o), Null)>> \o rest
  /\ hazards' = hazards \cup {h \in {"sourceDied"} : SourceIn(o)}

FreeMemory ==
  /\ Doing("free")
  /\ obj' = [obj EXCEPT ![Top.at[2]] = "deleted"]
  /\ stack' = Tail(stack)
  /\ UNCHANGED <<block, ref, weak, data, unique, error, hazards>>

(***************************************************************************)
(* shared_ptr::destroy.  With the last reference the object is deleted,    *)
(* with the count already at 0, and only then the control block is looked  *)
(* at again.                                                               *)
(***************************************************************************)
DestroyNotLast ==
  LET o == data[Top.at] IN
  /\ Doing("destroy")
  /\ o # Null => block[o] = "live" /\ ref[o] # 1
  /\ ref' = IF o = Null THEN ref ELSE [ref EXCEPT ![o] = (@ - 1) % CountWord]
  /\ data' = [data EXCEPT ![Top.at] = Null]
  /\ stack' = Tail(stack)
  /\ UNCHANGED <<obj, block, weak, unique, error, hazards>>

DestroyLast ==
  LET o == data[Top.at] IN
  /\ Doing("destroy")
  /\ o # Null /\ block[o] = "live" /\ ref[o] = 1
  /\ ref' = [ref EXCEPT ![o] = 0]
  /\ Delete(o, <<Frame("deleted", Top.at, Null)>> \o Tail(stack))
  /\ UNCHANGED <<obj, block, weak, data, unique, error>>

\* Faulty: the control block is left to the weak references.
BlockWithoutObjectKept(o) == block

BlockWithoutObject(o) ==
  IF weak[o] = 0 THEN [block EXCEPT ![o] = "deleted"] ELSE block

DestroyBlock ==
  LET o == data[Top.at] IN
  /\ Doing("deleted")
  /\ block[o] = "live"
  /\ block' = BlockWithoutObject(o)
  /\ data' = [data EXCEPT ![Top.at] = Null]
  /\ stack' = Tail(stack)
  /\ UNCHANGED <<obj, ref, weak, unique, error, hazards>>

\* A control block is touched, or deleted, that is deleted already.
TouchFreedBlock ==
  /\ Doing("destroy") \/ Doing("destroyWeak") \/ Doing("deleted")
  /\ data[Top.at] # Null
  /\ block[data[Top.at]] # "live"
  /\ Fail("freed")

(***************************************************************************)
(* The end of shared_ptr::operator=, after the old value is destroyed.     *)
(* The source is read again.                                               *)
(***************************************************************************)
\* Faulty: a moved-from pointer keeps its value.
FinishMoveKeeps ==
  /\ Doing("move") /\ InLiveMemory(Top.from)
  /\ data' = [data EXCEPT ![Top.at] = data[Top.from]]
  /\ stack' = Tail(stack)
  /\ UNCHANGED <<obj, block, ref, weak, unique, error, hazards>>

FinishMove ==
  /\ Doing("move") /\ InLiveMemory(Top.from)
  /\ data' = [data EXCEPT ![Top.at] = data[Top.from], ![Top.from] = Null]
  /\ stack' = Tail(stack)
  /\ UNCHANGED <<obj, block, ref, weak, unique, error, hazards>>

\* Faulty: the copy begins again after the old value is destroyed.
FinishCopyRepeats ==
  /\ Doing("copy") /\ InLiveMemory(Top.from)
  /\ data' = [data EXCEPT ![Top.at] = data[Top.from]]
  /\ UNCHANGED <<obj, block, ref, weak, unique, stack, error, hazards>>

FinishCopy ==
  /\ Doing("copy") /\ InLiveMemory(Top.from)
  /\ data' = [data EXCEPT ![Top.at] = data[Top.from]]
  /\ stack' = Tail(stack)
  /\ UNCHANGED <<obj, block, ref, weak, unique, error, hazards>>

ReadFreedSource ==
  /\ Doing("copy") \/ Doing("move")
  /\ ~InLiveMemory(Top.from)
  /\ Fail("freed")

Step ==
  \/ DestroyWeak \/ FreeMemory \/ DestroyNotLast \/ DestroyLast
  \/ DestroyBlock \/ TouchFreedBlock \/ FinishMove \/ FinishCopy
  \/ ReadFreedSource

-----------------------------------------------------------------------------
(***************************************************************************)
(* Operations of the program.  A shared variable that is Null stands for   *)
(* one about to be constructed as well.                                    *)
(***************************************************************************)
Construct(o) == obj[o] = "none" /\ obj' = [obj EXCEPT ![o] = "live"]

NewBlock(v, o) ==
  /\ block' = [block EXCEPT ![o] = "live"]
  /\ ref' = [ref EXCEPT ![o] = 1]
  /\ data' = [data EXCEPT ![Var(v)] = o]
  /\ UNCHANGED weak

make_shared(v, o) ==
  /\ Idle /\ data[Var(v)] = Null
  /\ Construct(o)
  /\ NewBlock(v, o)
  /\ UNCHANGED <<unique, stack, error, hazards>>

make_unique(o) ==
  /\ Idle /\ unique = Null
  /\ Construct(o)
  /\ unique' = o
  /\ UNCHANGED <<block, ref, weak, data, stack, error, hazards>>

\* Assignment of a new object to a unique_ptr that holds one already.
UniqueAssign(o) ==
  /\ Idle /\ unique # Null
  /\ Construct(o)
  /\ Delete(unique, <<>>)
  /\ unique' = o
  /\ UNCHANGED <<block, ref, weak, data, error>>

UniqueDestructor ==
  /\ Idle /\ unique # Null
  /\ unique' = Null
  /\ Delete(unique, <<>>)
  /\ UNCHANGED <<obj, block, ref, weak, data, error>>

SharedFromUnique(v) ==
  /\ Idle /\ data[Var(v)] = Null /\ unique # Null
  /\ NewBlock(v, unique)
  /\ unique' = Null
  /\ UNCHANGED <<obj, stack, error, hazards>>

SharedDestructor(v) ==
  /\ Idle /\ data[Var(v)] # Null
  /\ stack' = <<Frame("destroy", Var(v), Null)>>
  /\ UNCHANGED <<obj, block, ref, weak, data, unique, error, hazards>>

\* The count after one more reference to what l refers to.
Referenced(l) ==
  IF data[l] = Null THEN ref ELSE [ref EXCEPT ![data[l]] = @ + 1]

\* Faulty: static_pointer_cast takes no reference.
CopyConstructUncounted(v, l) ==
  /\ Idle /\ data[Var(v)] = Null /\ data[l] # Null
  /\ data' = [data EXCEPT ![Var(v)] = data[l]]
  /\ UNCHANGED <<obj, block, ref, weak, unique, stack, error, hazards>>

\* The copy constructor, and static_pointer_cast of a pointer that is set.
CopyConstruct(v, l) ==
  /\ Idle /\ data[Var(v)] = Null /\ data[l] # Null
  /\ ref' = Referenced(l)
  /\ data' = [data EXCEPT ![Var(v)] = data[l]]
  /\ UNCHANGED <<obj, block, weak, unique, stack, error, hazards>>

\* static_pointer_cast reads the control block without a test.
static_pointer_cast(l) == Idle /\ data[l] = Null /\ Fail("null")

\* check, called by operator-> and operator*.
check(l) == Idle /\ data[l] = Null /\ Fail("stopped")

\* Assignment to a pointer that is set destroys its value first.
OldValue(l) ==
  IF data[l] = Null THEN <<>> ELSE <<Frame("destroy", l, Null)>>

CopyAssign(l, from) ==
  /\ Idle /\ l # from
  /\ ref' = Referenced(from)
  /\ stack' = Append(OldValue(l), Frame("copy", l, from))
  /\ UNCHANGED <<obj, block, weak, data, unique, error, hazards>>

\* Also the move constructor, when l is a fresh variable.
MoveAssign(l, from) ==
  /\ Idle /\ l # from
  /\ stack' = Append(OldValue(l), Frame("move", l, from))
  /\ UNCHANGED <<obj, block, ref, weak, data, unique, error, hazards>>

(***************************************************************************)
(* Operations of weak_ptr delete control blocks but no object, so each is  *)
(* one step.  `taken' are the weak counts with the new reference counted.  *)
(***************************************************************************)
Replace(l, o, taken) ==
  /\ data' = [data EXCEPT ![l] = o]
  /\ weak' = IF data[l] = Null THEN taken ELSE Dropped(taken, data[l])
  /\ block' = IF data[l] = Null THEN block
              ELSE BlockWithoutWeak(taken, data[l])
  /\ UNCHANGED <<obj, ref, unique, stack, error, hazards>>

Taken(o) == [weak EXCEPT ![o] = @ + 1]

\* Construction or assignment from a shared_ptr or another weak_ptr.
WeakFrom(l, from) ==
  /\ Idle /\ l # from /\ data[from] # Null
  /\ Replace(l, data[from], Taken(data[from]))

\* operator= does not test its source; the constructors do.
WeakFromNull(l, from) ==
  /\ Idle /\ l # from /\ data[from] = Null
  /\ Fail("null")

WeakMove(l, from) ==
  /\ Idle /\ l # from
  /\ data' = [data EXCEPT ![l] = data[from], ![from] = Null]
  /\ weak' = IF data[l] = Null THEN weak ELSE Dropped(weak, data[l])
  /\ block' = IF data[l] = Null THEN block ELSE BlockWithoutWeak(weak, data[l])
  /\ UNCHANGED <<obj, ref, unique, stack, error, hazards>>

WeakDestructor(v) ==
  /\ Idle /\ data[Var(v)] # Null
  /\ Replace(Var(v), Null, weak)

\* Faulty: only a null pointer counts as expired.
expiredIfNull(l) == data[l] = Null

expired(l) == data[l] = Null \/ ref[data[l]] = 0

\* lock of a pointer that is not expired; otherwise the result is empty.
lock(v, l) ==
  /\ Idle /\ data[Var(v)] = Null
  /\ ~expired(l)
  /\ ref' = Referenced(l)
  /\ data' = [data EXCEPT ![Var(v)] = data[l]]
  /\ UNCHANGED <<obj, block, weak, unique, stack, error, hazards>>

Halted == ~Running /\ UNCHANGED vars

Operation ==
  \/ \E o \in Objects : make_unique(o) \/ UniqueAssign(o)
  \/ UniqueDestructor
  \/ \E v \in SharedVars :
       \/ \E o \in Objects : make_shared(v, o)
       \/ SharedFromUnique(v) \/ SharedDestructor(v)
       \/ \E l \in SharedPtrs : CopyConstruct(v, l)
       \/ \E l \in WeakPtrs : lock(v, l)
  \/ \E l \in SharedPtrs : static_pointer_cast(l) \/ check(l)
  \/ \E l, from \in SharedPtrs : CopyAssign(l, from) \/ MoveAssign(l, from)
  \/ \E l \in WeakPtrs, from \in SharedPtrs \cup WeakPtrs :
       WeakFrom(l, from) \/ WeakFromNull(l, from)
  \/ \E l, from \in WeakPtrs : WeakMove(l, from)
  \/ \E v \in WeakVars : WeakDestructor(v)

Next == Step \/ Operation \/ Halted

Spec == Init /\ [][Next]_vars /\ WF_vars(Step)

-----------------------------------------------------------------------------
FrameType ==
  [op : {"destroy", "destroyWeak", "deleted", "free", "copy", "move"},
   at : SharedAt \cup WeakAt, from : SharedAt \cup {Null}]

\* Types.
TypeOK ==
  /\ obj \in [Objects -> {"none", "live", "deleted"}]
  /\ block \in [Objects -> {"none", "live", "deleted"}]
  /\ ref \in [Objects -> 0 .. CountWord - 1]
  /\ weak \in [Objects -> 0 .. CountWord - 1]
  /\ data \in [SharedAt \cup WeakAt -> Objects \cup {Null}]
  /\ unique \in Objects \cup {Null}
  /\ stack \in Seq(FrameType)
  /\ error \in {"none", "freed", "null", "stopped"}
  /\ hazards \subseteq {"backReference", "sourceDied"}

Refers(at, o) == {l \in at : InLiveMemory(l) /\ data[l] = o}

\* Between operations both counts of every control block are the numbers of
\* pointers that refer to it, members of unreachable objects included.
CountsExact ==
  Idle => \A o \in Objects : block[o] = "live" =>
            /\ ref[o] = Cardinality(Refers(SharedAt, o))
            /\ weak[o] = Cardinality(Refers(WeakAt, o))

\* Between operations an object exists exactly as long as something owns it,
\* and no pointer anywhere refers to a control block that is deleted.
OwnedIsLive ==
  Idle => \A o \in Objects :
            /\ obj[o] = "live" <=> ref[o] > 0 \/ unique = o
            /\ Refers(SharedAt \cup WeakAt, o) # {} => block[o] = "live"

\* A control block is given back with the last pointer to it, shared or weak:
\* none is kept for an object nobody refers to.
BlocksNotLeaked ==
  Idle => \A o \in Objects :
            block[o] = "live" => Refers(SharedAt \cup WeakAt, o) # {}

\* Between operations the books balance: types, exact counts, owned objects
\* and only those alive, no control block too many or too few.
CountsSound == TypeOK /\ CountsExact /\ OwnedIsLive /\ BlocksNotLeaked

\* No deleted control block or member is touched, unless the deleted object
\* is referred to weakly by itself or by what it owns (as a Storage is by its
\* PartitionTable) or held the pointer being assigned from (p = p->next).
FreedOnlyThroughHazard == error = "freed" => hazards # {}

\* An object whose last owner is gone gets no owner again: weak references to
\* it do not revive it, not even while it is being deleted.
NeverRevived ==
  [][\A o \in Objects :
       block[o] # "none" /\ ref[o] = 0 => ref'[o] = 0]_vars

\* Every destruction comes to an end, however long the chain of members it
\* deletes.
DestructionEnds == stack # <<>> ~> (stack = <<>> \/ error # "none")
=============================================================================
