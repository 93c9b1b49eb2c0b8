---------------------------- MODULE ObjectProofs ----------------------------
(***************************************************************************)
(* Theorems about Object, for any number of threads, objects and           *)
(* references, and their proofs.  Each part of the invariant IInv has a    *)
(* lemma of its own that says that every step preserves it.                *)
(***************************************************************************)
EXTENDS Object, FiniteSetTheorems, TLAPS

USE ObjectAssumption

LEMMA RefsFinite ==
    ASSUME NEW o \in Objects
    PROVE  IsFiniteSet(RefsTo(o)) /\ Cardinality(RefsTo(o)) \in Nat
BY FS_Subset, FS_CardinalityType DEF RefsTo

\* One more reference to o, in a place r that was free.
LEMMA RefAdded ==
    ASSUME TypeOK, RefcExact, NEW o \in Objects, NEW r \in Refs, NEW h \in Holdings,
           ref[r] = Free, h.obj = o, ref' = [ref EXCEPT ![r] = h],
           refc' = [refc EXCEPT ![o] = @ + 1]
    PROVE  RefcExact'
<1> SUFFICES ASSUME NEW x \in Objects PROVE refc'[x] = Cardinality(RefsTo(x)')
    BY DEF RefcExact
<1>1. refc[x] = Cardinality(RefsTo(x)) /\ refc[x] \in Nat
    BY DEF RefcExact, TypeOK
<1>2. CASE x = o
  <2>1. RefsTo(x)' = RefsTo(x) \cup {r}
      BY <1>2 DEF RefsTo, TypeOK, Holdings
  <2>2. r \notin RefsTo(x)
      BY DEF RefsTo
  <2>3. Cardinality(RefsTo(x)') = Cardinality(RefsTo(x)) + 1
      BY <2>1, <2>2, RefsFinite, FS_AddElement
  <2>4. refc'[x] = refc[x] + 1
      BY <1>2 DEF TypeOK
  <2> QED BY <1>1, <2>3, <2>4
<1>3. CASE x # o
  <2>1. RefsTo(x)' = RefsTo(x)
      BY <1>3 DEF RefsTo, TypeOK, Holdings
  <2> QED BY <1>1, <1>3, <2>1 DEF TypeOK
<1> QED BY <1>2, <1>3

\* A reference is one of those refc counts.
LEMMA RefCounted ==
    ASSUME TypeOK, RefcExact, NEW r \in Refs, ref[r] # Free
    PROVE  /\ ref[r].obj \in Objects
           /\ refc[ref[r].obj] \in Nat \ {0}
           /\ Cardinality(RefsTo(ref[r].obj) \ {r}) = refc[ref[r].obj] - 1
<1>1. ref[r].obj \in Objects
    BY DEF TypeOK, Holdings
<1>2. PICK o \in Objects : o = ref[r].obj
    BY <1>1
<1>3. r \in RefsTo(o)
    BY <1>2 DEF RefsTo
<1>4. refc[o] = Cardinality(RefsTo(o)) /\ refc[o] \in Nat
    BY DEF RefcExact, TypeOK
<1>5. /\ IsFiniteSet(RefsTo(o) \ {r})
      /\ Cardinality(RefsTo(o) \ {r}) = Cardinality(RefsTo(o)) - 1
    BY <1>3, RefsFinite, FS_RemoveElement
<1>6. Cardinality(RefsTo(o) \ {r}) \in Nat
    BY <1>5, FS_CardinalityType
<1> QED BY <1>2, <1>4, <1>5, <1>6

\* Nothing that RefsTo depends on changes when a reference changes its use.
LEMMA RefsKept ==
    ASSUME TypeOK, RefcExact, refc' = refc,
           \A r \in Refs : (ref'[r] # Free <=> ref[r] # Free)
                           /\ (ref[r] # Free => ref'[r].obj = ref[r].obj)
    PROVE  RefcExact'
<1> SUFFICES ASSUME NEW x \in Objects PROVE refc'[x] = Cardinality(RefsTo(x)')
    BY DEF RefcExact
<1>1. RefsTo(x)' = RefsTo(x)
    BY DEF RefsTo
<1> QED BY <1>1 DEF RefcExact

\* What select's failure does to the references.
LEMMA Forgotten ==
    ASSUME TypeOK, NEW t \in Threads, SelectFails(t), NEW r \in Refs
    PROVE  /\ ref'[r] # Free <=> ref[r] # Free
           /\ ref[r] # Free => /\ ref'[r].obj = ref[r].obj
                               /\ ref'[r].late = ref[r].late
                               /\ ref'[r].use \in {ref[r].use, "lost"}
<1>1. ref' = [x \in Refs |-> IF Holds(t, x) THEN [ref[x] EXCEPT !.use = "lost"] ELSE ref[x]]
    BY DEF SelectFails
<1>2. CASE ref[r] = Free
    BY <1>1, <1>2 DEF Holds
<1>3. CASE ref[r] \in Holdings
  <2>1. /\ [ref[r] EXCEPT !.use = "lost"] \in Holdings
        /\ [ref[r] EXCEPT !.use = "lost"].obj = ref[r].obj
        /\ [ref[r] EXCEPT !.use = "lost"].late = ref[r].late
        /\ [ref[r] EXCEPT !.use = "lost"].use = "lost"
      BY <1>3 DEF Holdings, Uses
  <2> QED BY <1>1, <1>3, <2>1
<1> QED BY <1>2, <1>3 DEF TypeOK

\* ... and what Deselect does.
LEMMA Deselected ==
    ASSUME TypeOK, NEW t \in Threads, NEW r \in Refs, Deselect(t, r)
    PROVE  /\ \A s \in Refs : s # r => ref'[s] = ref[s]
           /\ ref[r] # Free /\ ref'[r] # Free
           /\ ref[r].obj \in Objects
           /\ ref'[r].obj = ref[r].obj /\ ref'[r].late = ref[r].late
           /\ ref'[r].use = "call" /\ ref[r].use = "work"
<1>1. ref[r] \in Holdings /\ ref' = [ref EXCEPT ![r].use = "call"] /\ ref[r].use = "work"
    BY DEF Deselect, Holds, TypeOK
<1>2. ref'[r] = [ref[r] EXCEPT !.use = "call"]
    BY <1>1 DEF TypeOK
<1> QED BY <1>1, <1>2 DEF Holdings, Uses, TypeOK

\* ... and what Lookup and Pick add.
LEMMA LookedUp ==
    ASSUME TypeOK, NEW t \in Threads, NEW r \in Refs, NEW o \in Objects,
           NEW use \in {"call", "wait"}, Lookup(t, r, o, use)
    PROVE  /\ ref[r] = Free /\ ref'[r] # Free
           /\ ref'[r].use \notin {"work", "lost"} /\ ref'[r].obj = o
           /\ life[o] \in {"live", "condemned"} /\ (life[o] = "condemned" => ref'[r].late)
           /\ \A s \in Refs : s # r => ref'[s] = ref[s]
           /\ selected' = selected /\ life' = life /\ cancelled' = cancelled
<1> DEFINE h == [thread |-> t, obj |-> o, use |-> use, late |-> life[o] = "condemned"]
<1>1. /\ h \in Holdings /\ h.obj = o /\ h.use \notin {"work", "lost"}
      /\ life[o] = "condemned" => h.late
    BY DEF Holdings, Uses
<1>2. /\ ref[r] = Free /\ ref' = [ref EXCEPT ![r] = h]
      /\ life[o] \in {"live", "condemned"}
      /\ selected' = selected /\ life' = life /\ cancelled' = cancelled
    BY DEF Lookup, Registered
<1> HIDE DEF h
<1>3. ref'[r] = h /\ \A s \in Refs : s # r => ref'[s] = ref[s]
    BY <1>2 DEF TypeOK
<1> QED BY <1>1, <1>2, <1>3

LEMMA Picked ==
    ASSUME TypeOK, WalkLocked, NEW t \in Threads, NEW r \in Refs, Pick(t, r)
    PROVE  \E o \in Objects :
              /\ o = at[t]
              /\ ref[r] = Free /\ ref'[r] # Free
              /\ ref'[r].use = "work" /\ ref'[r].obj = o
              /\ life[o] # "live" => ref'[r].late
              /\ \A s \in Refs : s # r => ref'[s] = ref[s]
              /\ selected' = [selected EXCEPT ![o] = TRUE] /\ ~selected[o]
              /\ life' = life /\ cancelled' = cancelled
<1>1. PICK o \in Objects : o = at[t]
    BY DEF Pick, TypeOK
<1> DEFINE h == [thread |-> t, obj |-> o, use |-> "work", late |-> life[o] # "live"]
<1>2. h \in Holdings /\ h.use = "work" /\ h.obj = o /\ (life[o] # "live" => h.late)
    BY DEF Holdings, Uses
<1>3. ref[r] = Free /\ ref' = [ref EXCEPT ![r] = h]
      /\ selected' = [selected EXCEPT ![o] = TRUE] /\ ~selected[o]
      /\ life' = life /\ cancelled' = cancelled
    BY <1>1 DEF Pick, WalkLocked
<1> HIDE DEF h
<1>4. ref'[r] = h /\ \A s \in Refs : s # r => ref'[s] = ref[s]
    BY <1>3 DEF TypeOK
<1> QED BY <1>1, <1>2, <1>3, <1>4

LEMMA RefcStep ==
    ASSUME TypeOK, RefcExact, [Next]_vars
    PROVE  RefcExact'
<1>1. CASE UNCHANGED <<ref, refc>>
    BY <1>1, RefsKept
<1>2. ASSUME NEW t \in Threads, NEW r \in Refs, NEW o \in Objects,
             NEW use \in {"call", "wait"}, Lookup(t, r, o, use)
      PROVE  RefcExact'
  <2> DEFINE h == [thread |-> t, obj |-> o, use |-> use, late |-> life[o] = "condemned"]
  <2>1. h \in Holdings /\ h.obj = o
      BY DEF Holdings, Uses
  <2>2. ref[r] = Free /\ ref' = [ref EXCEPT ![r] = h] /\ refc' = [refc EXCEPT ![o] = @ + 1]
      BY <1>2 DEF Lookup
  <2> HIDE DEF h
  <2> QED BY <2>1, <2>2, RefAdded
<1>3. ASSUME NEW t \in Threads, NEW r \in Refs, Pick(t, r)
      PROVE  RefcExact'
  <2>0. at[t] \in Objects
      BY <1>3 DEF Pick, TypeOK
  <2> DEFINE h == [thread |-> t, obj |-> at[t], use |-> "work", late |-> life[at[t]] # "live"]
  <2>1. h \in Holdings /\ h.obj = at[t]
      BY <2>0 DEF Holdings, Uses
  <2>2. ref[r] = Free /\ ref' = [ref EXCEPT ![r] = h]
        /\ refc' = [refc EXCEPT ![at[t]] = @ + 1]
      BY <1>3 DEF Pick
  <2> HIDE DEF h
  <2>3. PICK o \in Objects : o = at[t]
      BY <2>0
  <2> QED BY <2>1, <2>2, <2>3, RefAdded
<1>4. ASSUME NEW t \in Threads, NEW r \in Refs, Release(t, r)
      PROVE  RefcExact'
  <2> SUFFICES ASSUME NEW x \in Objects PROVE refc'[x] = Cardinality(RefsTo(x)')
      BY DEF RefcExact
  <2>1. /\ ref[r] # Free /\ ref' = [ref EXCEPT ![r] = Free]
        /\ refc' = [refc EXCEPT ![ref[r].obj] = refc[ref[r].obj] - 1]
      BY <1>4 DEF Release, Holds
  <2>2. RefsTo(x)' = RefsTo(x) \ {r}
      BY <2>1 DEF RefsTo, TypeOK
  <2>3. CASE x = ref[r].obj
      BY <2>1, <2>2, <2>3, RefCounted DEF TypeOK
  <2>4. CASE x # ref[r].obj
    <3>1. RefsTo(x)' = RefsTo(x)
        BY <2>2, <2>4 DEF RefsTo
    <3> QED BY <2>1, <2>4, <3>1 DEF RefcExact, TypeOK
  <2> QED BY <2>3, <2>4
<1>5. ASSUME NEW t \in Threads, NEW r \in Refs, Deselect(t, r)
      PROVE  RefcExact'
    BY <1>5, Deselected, RefsKept DEF Deselect
<1>6. ASSUME NEW t \in Threads, SelectFails(t)
      PROVE  RefcExact'
    BY <1>6, Forgotten, RefsKept DEF SelectFails
<1>7. ASSUME Next PROVE RefcExact'
  <2>1. PICK t \in Threads : Step(t)
      BY <1>7 DEF Next
  <2>2. \/ UNCHANGED <<ref, refc>>
        \/ \E r \in Refs, o \in Objects, use \in {"call", "wait"} : Lookup(t, r, o, use)
        \/ \E r \in Refs : Pick(t, r) \/ Release(t, r) \/ Deselect(t, r)
        \/ SelectFails(t)
      BY <2>1 DEF Step, Finish, Made, Signal, Kill, EndList, Selected, Sleep, Test, Skip,
                  Consider, MakeFails, List, Pulse, WakeUp, Create, Cancel
  <2> QED BY <1>1, <1>2, <1>3, <1>4, <1>5, <1>6, <2>2
<1> QED BY <1>1, <1>7 DEF vars

\* What Release does, with its conditions spelt out.
ReleaseEffect(t, r, o, n) ==
    /\ ref[r] \in Holdings /\ ref[r].obj = o /\ ref[r].use \in {"call", "wait"}
    /\ n = refc[o] - 1 /\ Cardinality(RefsTo(o) \ {r}) = n
    /\ ref' = [ref EXCEPT ![r] = Free]
    /\ refc' = [refc EXCEPT ![o] = n]
    /\ pc[t] = "run"
    /\ \/ /\ n = 0 /\ cancelled[o]
          /\ pc' = [pc EXCEPT ![t] = "kill"]
          /\ at' = [at EXCEPT ![t] = o]
          /\ life' = [life EXCEPT ![o] = IF @ = "live" THEN "condemned" ELSE @]
       \/ /\ ~(n = 0 /\ cancelled[o])
          /\ \/ pc' = [pc EXCEPT ![t] = "signal"]
             \/ pc' = [pc EXCEPT ![t] = "run"]
          /\ at' = [at EXCEPT ![t] = None]
          /\ life' = life
    /\ UNCHANGED <<cancelled, selected, making, todo, stockmx, lazemx>>

LEMMA Released ==
    ASSUME TypeOK, RefcExact, NEW t \in Threads, NEW r \in Refs, Release(t, r)
    PROVE  \E o \in Objects, n \in Nat : ReleaseEffect(t, r, o, n)
<1>1. ref[r] \in Holdings /\ ref[r] # Free /\ pc[t] = "run" /\ ref[r].use \in {"call", "wait"}
    BY DEF Release, Holds, TypeOK
<1>2. PICK o \in Objects : o = ref[r].obj
    BY <1>1, RefCounted
<1>3. refc[o] \in Nat \ {0} /\ Cardinality(RefsTo(o) \ {r}) = refc[o] - 1
    BY <1>1, <1>2, RefCounted
<1>4. PICK n \in Nat : n = refc[o] - 1
    BY <1>3
<1>5. /\ ref' = [ref EXCEPT ![r] = Free]
      /\ refc' = [refc EXCEPT ![o] = n]
      /\ UNCHANGED <<cancelled, selected, making, todo, stockmx, lazemx>>
    BY <1>2, <1>4 DEF Release
<1>6. CASE n = 0 /\ cancelled[o]
  <2>1. refc[ref[r].obj] - 1 = 0 /\ cancelled[ref[r].obj]
      BY <1>2, <1>4, <1>6
  <2>2. pc' = [pc EXCEPT ![t] = "kill"]
      BY <2>1 DEF Release, KillMe, SignalWaiter
  <2>3. at' = [at EXCEPT ![t] = o]
      BY <2>1, <1>2 DEF Release, KillMe
  <2>4. life' = [life EXCEPT ![o] = IF @ = "live" THEN "condemned" ELSE @]
      BY <2>1, <1>2 DEF Release, KillMe
  <2> QED BY <1>1, <1>2, <1>3, <1>4, <1>5, <1>6, <2>2, <2>3, <2>4 DEF ReleaseEffect
<1>7. CASE ~(n = 0 /\ cancelled[o])
  <2>1. ~(refc[ref[r].obj] - 1 = 0 /\ cancelled[ref[r].obj])
      BY <1>2, <1>4, <1>7
  <2>2. at' = [at EXCEPT ![t] = None]
      BY <2>1 DEF Release, KillMe
  <2>3. life' = [life EXCEPT ![o] = life[o]]
      BY <2>1, <1>2 DEF Release, KillMe
  <2>4. life' = life
      BY <2>3 DEF TypeOK
  <2>5. pc' = [pc EXCEPT ![t] = "signal"] \/ pc' = [pc EXCEPT ![t] = "run"]
      BY <2>1 DEF Release, KillMe, SignalWaiter
  <2> QED BY <1>1, <1>2, <1>3, <1>4, <1>5, <1>7, <2>2, <2>4, <2>5 DEF ReleaseEffect
<1> QED BY <1>6, <1>7

LEMMA TypeStep ==
    ASSUME TypeOK, RefcExact, [Next]_vars
    PROVE  TypeOK'
<1>0. CASE UNCHANGED vars
    BY <1>0 DEF TypeOK, vars
<1>1. ASSUME NEW t \in Threads, NEW o \in Objects, Create(t, o)
      PROVE  TypeOK'
    BY <1>1 DEF Create, TypeOK
<1>2. ASSUME NEW t \in Threads, Made(t)
      PROVE  TypeOK'
    BY <1>2 DEF Made, TypeOK
<1>3. ASSUME NEW t \in Threads, MakeFails(t)
      PROVE  TypeOK'
    BY <1>3 DEF MakeFails, HandlerDone, TypeOK
<1>4. ASSUME NEW t \in Threads, NEW r \in Refs, NEW o \in Objects,
             NEW use \in {"call", "wait"}, Lookup(t, r, o, use)
      PROVE  TypeOK'
  <2> DEFINE h == [thread |-> t, obj |-> o, use |-> use, late |-> life[o] = "condemned"]
  <2>1. h \in Holdings
      BY DEF Holdings, Uses
  <2>2. ref' = [ref EXCEPT ![r] = h]
      BY <1>4 DEF Lookup
  <2> HIDE DEF h
  <2>3. ref' \in [Refs -> Holdings \cup {Free}]
      BY <2>1, <2>2 DEF TypeOK
  <2>4. refc' \in [Objects -> Nat]
      BY <1>4 DEF Lookup, TypeOK
  <2> QED BY <1>4, <2>3, <2>4 DEF Lookup, TypeOK
<1>5. ASSUME NEW t \in Threads, NEW r \in Refs, Cancel(t, r)
      PROVE  TypeOK'
    BY <1>5 DEF Cancel, TypeOK
<1>6. ASSUME NEW t \in Threads, NEW r \in Refs, Deselect(t, r)
      PROVE  TypeOK'
  <2>1. ref[r] \in Holdings /\ ref' = [ref EXCEPT ![r].use = "call"]
      BY <1>6 DEF Deselect, Holds, TypeOK
  <2>2. [ref[r] EXCEPT !.use = "call"] \in Holdings
      BY <2>1 DEF Holdings, Uses
  <2>3. ref' \in [Refs -> Holdings \cup {Free}]
      BY <2>1, <2>2 DEF TypeOK
  <2> QED BY <1>6, <2>3 DEF Deselect, TypeOK
<1>7. ASSUME NEW t \in Threads, NEW r \in Refs, Release(t, r)
      PROVE  TypeOK'
  <2>1. PICK o \in Objects, n \in Nat : ReleaseEffect(t, r, o, n)
      BY <1>7, Released
  <2>2. /\ ref' \in [Refs -> Holdings \cup {Free}]
        /\ refc' \in [Objects -> Nat]
        /\ life' \in [Objects -> {"none", "live", "condemned", "gone"}]
        /\ cancelled' = cancelled /\ selected' = selected /\ making' = making
        /\ todo' = todo /\ stockmx' = stockmx /\ lazemx' = lazemx
      BY <2>1 DEF ReleaseEffect, TypeOK
  <2>3. CASE pc' = [pc EXCEPT ![t] = "kill"] /\ at' = [at EXCEPT ![t] = o]
      BY <2>1, <2>2, <2>3 DEF ReleaseEffect, TypeOK
  <2>4. CASE pc' = [pc EXCEPT ![t] = "signal"] /\ at' = [at EXCEPT ![t] = None]
      BY <2>1, <2>2, <2>4 DEF ReleaseEffect, TypeOK
  <2>5. CASE pc' = [pc EXCEPT ![t] = "run"] /\ at' = [at EXCEPT ![t] = None]
      BY <2>1, <2>2, <2>5 DEF ReleaseEffect, TypeOK
  <2> QED BY <2>1, <2>3, <2>4, <2>5 DEF ReleaseEffect
<1>8. ASSUME NEW t \in Threads, Signal(t)
      PROVE  TypeOK'
    BY <1>8 DEF Signal, TypeOK
<1>9. ASSUME NEW t \in Threads, Kill(t)
      PROVE  TypeOK'
    BY <1>9 DEF Kill, TypeOK
<1>10. ASSUME NEW t \in Threads, List(t)
      PROVE  TypeOK'
    BY <1>10 DEF List, Registered, TypeOK
<1>11. ASSUME NEW t \in Threads, NEW o \in Objects, Skip(t, o)
      PROVE  TypeOK'
    BY <1>11 DEF Skip, TypeOK
<1>12. ASSUME NEW t \in Threads, NEW o \in Objects, Consider(t, o)
      PROVE  TypeOK'
    BY <1>12 DEF Consider, TypeOK
<1>13. ASSUME NEW t \in Threads, Pulse(t)
      PROVE  TypeOK'
    BY <1>13 DEF Pulse, TypeOK
<1>14. ASSUME NEW t \in Threads, NEW r \in Refs, Pick(t, r)
      PROVE  TypeOK'
  <2>0. at[t] \in Objects
      BY <1>14 DEF Pick, TypeOK
  <2> DEFINE h == [thread |-> t, obj |-> at[t], use |-> "work", late |-> life[at[t]] # "live"]
  <2>1. h \in Holdings
      BY <2>0 DEF Holdings, Uses
  <2>2. ref' = [ref EXCEPT ![r] = h]
      BY <1>14 DEF Pick
  <2> HIDE DEF h
  <2>3. ref' \in [Refs -> Holdings \cup {Free}]
      BY <2>1, <2>2 DEF TypeOK
  <2>4. refc' \in [Objects -> Nat]
      BY <1>14 DEF Pick, TypeOK
  <2> QED BY <1>14, <2>3, <2>4 DEF Pick, TypeOK
<1>15. ASSUME NEW t \in Threads, EndList(t)
      PROVE  TypeOK'
    BY <1>15 DEF EndList, TypeOK
<1>16. ASSUME NEW t \in Threads, Selected(t)
      PROVE  TypeOK'
    BY <1>16 DEF Selected, TypeOK
<1>17. ASSUME NEW t \in Threads, SelectFails(t)
      PROVE  TypeOK'
  <2>1. ASSUME NEW r \in Refs
        PROVE  ref'[r] \in Holdings \cup {Free}
    <3>1. ref'[r] = IF Holds(t, r) THEN [ref[r] EXCEPT !.use = "lost"] ELSE ref[r]
        BY <1>17 DEF SelectFails
    <3>2. CASE Holds(t, r)
      <4>1. ref[r] \in Holdings
          BY <3>2 DEF Holds, TypeOK
      <4> QED BY <3>1, <3>2, <4>1 DEF Holdings, Uses
    <3>3. CASE ~Holds(t, r)
        BY <3>1, <3>3 DEF TypeOK
    <3> QED BY <3>2, <3>3
  <2>2. ref' \in [Refs -> Holdings \cup {Free}]
      BY <1>17, <2>1 DEF SelectFails
  <2> QED BY <1>17, <2>2 DEF SelectFails, TypeOK
<1>18. ASSUME NEW t \in Threads, Sleep(t)
      PROVE  TypeOK'
    BY <1>18 DEF Sleep, TypeOK
<1>19. ASSUME NEW t \in Threads, WakeUp(t)
      PROVE  TypeOK'
    BY <1>19 DEF WakeUp, TypeOK
<1>20. ASSUME NEW t \in Threads, Test(t)
      PROVE  TypeOK'
    BY <1>20 DEF Test, TypeOK
<1> QED BY <1>0, <1>1, <1>2, <1>3, <1>4, <1>5, <1>6, <1>7, <1>8, <1>9, <1>10, <1>11, <1>12, <1>13, <1>14, <1>15, <1>16, <1>17, <1>18, <1>19, <1>20 DEF Next, Step, Finish









LEMMA WalkStep ==
    ASSUME TypeOK, RefcExact, WalkLocked, [Next]_vars
    PROVE  WalkLocked'
<1>1. CASE UNCHANGED <<todo, stockmx, pc, at, selected>>
    BY <1>1 DEF WalkLocked, TypeOK
<1>2. ASSUME NEW t \in Threads, MakeFails(t)
      PROVE  WalkLocked'
    BY <1>2 DEF MakeFails, WalkLocked, TypeOK
<1>3. ASSUME NEW t \in Threads, NEW r \in Refs, NEW o \in Objects,
             NEW use \in {"call", "wait"}, Lookup(t, r, o, use)
      PROVE  WalkLocked'
    BY <1>3 DEF Lookup, WalkLocked, TypeOK
<1>4. ASSUME NEW t \in Threads, NEW r \in Refs, Deselect(t, r)
      PROVE  WalkLocked'
    BY <1>4 DEF Deselect, WalkLocked, TypeOK
<1>5. ASSUME NEW t \in Threads, NEW r \in Refs, Release(t, r)
      PROVE  WalkLocked'
  <2>1. PICK o \in Objects, n \in Nat : ReleaseEffect(t, r, o, n)
      BY <1>5, Released
  <2> QED BY <2>1 DEF ReleaseEffect, WalkLocked, TypeOK
<1>6. ASSUME NEW t \in Threads, Signal(t)
      PROVE  WalkLocked'
    BY <1>6 DEF Signal, WalkLocked, TypeOK
<1>7. ASSUME NEW t \in Threads, Kill(t)
      PROVE  WalkLocked'
    BY <1>7 DEF Kill, WalkLocked, TypeOK
<1>8. ASSUME NEW t \in Threads, List(t)
      PROVE  WalkLocked'
    BY <1>8 DEF List, WalkLocked, TypeOK
<1>9. ASSUME NEW t \in Threads, NEW o \in Objects, Skip(t, o)
      PROVE  WalkLocked'
    BY <1>9 DEF Skip, WalkLocked, TypeOK
<1>10. ASSUME NEW t \in Threads, NEW o \in Objects, Consider(t, o)
      PROVE  WalkLocked'
    BY <1>10 DEF Consider, WalkLocked, TypeOK
<1>11. ASSUME NEW t \in Threads, NEW r \in Refs, Pick(t, r)
      PROVE  WalkLocked'
    BY <1>11 DEF Pick, WalkLocked, TypeOK
<1>12. ASSUME NEW t \in Threads, EndList(t)
      PROVE  WalkLocked'
    BY <1>12 DEF EndList, WalkLocked, TypeOK
<1>13. ASSUME NEW t \in Threads, Selected(t)
      PROVE  WalkLocked'
    BY <1>13 DEF Selected, WalkLocked, TypeOK
<1>14. ASSUME NEW t \in Threads, SelectFails(t)
      PROVE  WalkLocked'
    BY <1>14 DEF SelectFails, WalkLocked, TypeOK
<1>15. ASSUME NEW t \in Threads, Sleep(t)
      PROVE  WalkLocked'
    BY <1>15 DEF Sleep, WalkLocked, TypeOK
<1>16. ASSUME NEW t \in Threads, WakeUp(t)
      PROVE  WalkLocked'
    BY <1>16 DEF WakeUp, WalkLocked, TypeOK
<1>17. ASSUME NEW t \in Threads, Test(t)
      PROVE  WalkLocked'
    BY <1>17 DEF Test, WalkLocked, TypeOK
<1>18. ASSUME Next PROVE WalkLocked'
  <2>1. PICK t \in Threads : Step(t)
      BY <1>18 DEF Next
  <2>2. \/ UNCHANGED <<todo, stockmx, pc, at, selected>>
        \/ MakeFails(t)
        \/ \E r \in Refs, o \in Objects, use \in {"call", "wait"} : Lookup(t, r, o, use)
        \/ \E r \in Refs : Deselect(t, r)
        \/ \E r \in Refs : Release(t, r)
        \/ Signal(t)
        \/ Kill(t)
        \/ List(t)
        \/ \E o \in Objects : Skip(t, o)
        \/ \E o \in Objects : Consider(t, o)
        \/ \E r \in Refs : Pick(t, r)
        \/ EndList(t)
        \/ Selected(t)
        \/ SelectFails(t)
        \/ Sleep(t)
        \/ WakeUp(t)
        \/ Test(t)
      BY <2>1 DEF Step, Finish, Create, Made, Cancel, Pulse
  <2> QED BY <1>1, <1>2, <1>3, <1>4, <1>5, <1>6, <1>7, <1>8, <1>9, <1>10, <1>11, <1>12, <1>13, <1>14, <1>15, <1>16, <1>17, <2>2
<1> QED BY <1>1, <1>18 DEF vars

LEMMA WalkMeetsNoDeadStep ==
    ASSUME TypeOK, RefcExact, WalkLocked, WalkMeetsNoDead, [Next]_vars
    PROVE  WalkMeetsNoDead'
<1>1. CASE UNCHANGED <<todo, life>>
    BY <1>1 DEF WalkMeetsNoDead, TypeOK
<1>2. ASSUME NEW t \in Threads, NEW o \in Objects, Create(t, o)
      PROVE  WalkMeetsNoDead'
    BY <1>2 DEF Create, WalkMeetsNoDead, TypeOK
<1>3. ASSUME NEW t \in Threads, MakeFails(t)
      PROVE  WalkMeetsNoDead'
    BY <1>3 DEF MakeFails, WalkMeetsNoDead, TypeOK
<1>4. ASSUME NEW t \in Threads, NEW r \in Refs, Release(t, r)
      PROVE  WalkMeetsNoDead'
  <2>1. PICK o \in Objects, n \in Nat : ReleaseEffect(t, r, o, n)
      BY <1>4, Released
  <2> QED BY <2>1 DEF ReleaseEffect, WalkMeetsNoDead, TypeOK
<1>5. ASSUME NEW t \in Threads, Kill(t)
      PROVE  WalkMeetsNoDead'
    BY <1>5 DEF Kill, WalkMeetsNoDead, TypeOK, WalkLocked
<1>6. ASSUME NEW t \in Threads, List(t)
      PROVE  WalkMeetsNoDead'
    BY <1>6 DEF List, WalkMeetsNoDead, TypeOK, Registered
<1>7. ASSUME NEW t \in Threads, NEW o \in Objects, Skip(t, o)
      PROVE  WalkMeetsNoDead'
    BY <1>7 DEF Skip, WalkMeetsNoDead, TypeOK
<1>8. ASSUME NEW t \in Threads, NEW r \in Refs, Pick(t, r)
      PROVE  WalkMeetsNoDead'
    BY <1>8 DEF Pick, WalkMeetsNoDead, TypeOK
<1>9. ASSUME NEW t \in Threads, EndList(t)
      PROVE  WalkMeetsNoDead'
    BY <1>9 DEF EndList, WalkMeetsNoDead, TypeOK
<1>10. ASSUME Next PROVE WalkMeetsNoDead'
  <2>1. PICK t \in Threads : Step(t)
      BY <1>10 DEF Next
  <2>2. \/ UNCHANGED <<todo, life>>
        \/ \E o \in Objects : Create(t, o)
        \/ MakeFails(t)
        \/ \E r \in Refs : Release(t, r)
        \/ Kill(t)
        \/ List(t)
        \/ \E o \in Objects : Skip(t, o)
        \/ \E r \in Refs : Pick(t, r)
        \/ EndList(t)
      BY <2>1 DEF Step, Finish, Made, Lookup, Cancel, Deselect, Signal, Consider, Pulse, Selected, SelectFails, Sleep, WakeUp, Test
  <2> QED BY <1>1, <1>2, <1>3, <1>4, <1>5, <1>6, <1>7, <1>8, <1>9, <2>2
<1> QED BY <1>1, <1>10 DEF vars

LEMMA BornStep ==
    ASSUME TypeOK, RefcExact, Born, WalkLocked, [Next]_vars
    PROVE  Born'
<1>1. CASE UNCHANGED <<life, cancelled, selected, ref, making, todo, pc, at>>
    BY <1>1 DEF Born, TypeOK
<1>2. ASSUME NEW t \in Threads, NEW o \in Objects, Create(t, o)
      PROVE  Born'
    BY <1>2 DEF Create, Born, TypeOK
<1>3. ASSUME NEW t \in Threads, Made(t)
      PROVE  Born'
    BY <1>3 DEF Made, Born, TypeOK
<1>4. ASSUME NEW t \in Threads, MakeFails(t)
      PROVE  Born'
    BY <1>4 DEF MakeFails, Born, TypeOK, HandlerDone
<1>5. ASSUME NEW t \in Threads, NEW r \in Refs, NEW o \in Objects,
             NEW use \in {"call", "wait"}, Lookup(t, r, o, use)
      PROVE  Born'
    BY <1>5 DEF Lookup, Born, TypeOK, Registered
<1>6. ASSUME NEW t \in Threads, NEW r \in Refs, Cancel(t, r)
      PROVE  Born'
    BY <1>6 DEF Cancel, Born, TypeOK, Holds, Holdings
<1>7. ASSUME NEW t \in Threads, NEW r \in Refs, Deselect(t, r)
      PROVE  Born'
  <2>1. \A x \in Refs : ref'[x] # Free => ref[x] # Free /\ ref'[x].obj = ref[x].obj
      BY <1>7, Deselected
  <2>2. \A x \in Refs : ref'[x] # Free => life[ref'[x].obj] # "none"
      BY <2>1 DEF Born
  <2> QED BY <1>7, <2>2 DEF Deselect, Born, TypeOK
<1>8. ASSUME NEW t \in Threads, NEW r \in Refs, Release(t, r)
      PROVE  Born'
  <2>1. PICK o \in Objects, n \in Nat : ReleaseEffect(t, r, o, n)
      BY <1>8, Released
  <2>2. /\ \A x \in Objects : life[x] # "none" => life'[x] # "none"
        /\ \A x \in Objects : life[x] \in {"condemned", "gone"} => life'[x] \in {"condemned", "gone"}
      BY <2>1 DEF ReleaseEffect, TypeOK
  <2>3. \A x \in Refs : ref'[x] # Free => ref[x] # Free /\ ref'[x] = ref[x] /\ ref[x].obj \in Objects
      BY <2>1 DEF ReleaseEffect, TypeOK, Holdings
  <2>4. ASSUME NEW u \in Threads, pc'[u] = "kill"
        PROVE  life'[at'[u]] \in {"condemned", "gone"}
    <3>1. CASE u = t /\ pc' = [pc EXCEPT ![t] = "kill"]
      <4>1. at'[u] = o /\ life[o] # "none"
          BY <2>1, <2>4, <3>1 DEF ReleaseEffect, Born, TypeOK
      <4>2. life'[o] = IF life[o] = "live" THEN "condemned" ELSE life[o]
          BY <2>1, <3>1 DEF ReleaseEffect, TypeOK
      <4> QED BY <4>1, <4>2 DEF TypeOK
    <3>2. CASE u # t
        BY <2>1, <2>2, <2>4, <3>2 DEF ReleaseEffect, Born, TypeOK
    <3> QED BY <2>1, <2>4, <3>1, <3>2 DEF ReleaseEffect, TypeOK
  <2> QED BY <2>1, <2>2, <2>3, <2>4 DEF ReleaseEffect, Born, TypeOK
<1>9. ASSUME NEW t \in Threads, Signal(t)
      PROVE  Born'
    BY <1>9 DEF Signal, Born, TypeOK
<1>10. ASSUME NEW t \in Threads, Kill(t)
      PROVE  Born'
    BY <1>10 DEF Kill, Born, TypeOK
<1>11. ASSUME NEW t \in Threads, List(t)
      PROVE  Born'
    BY <1>11 DEF List, Born, TypeOK, Registered
<1>12. ASSUME NEW t \in Threads, NEW o \in Objects, Skip(t, o)
      PROVE  Born'
    BY <1>12 DEF Skip, Born, TypeOK
<1>13. ASSUME NEW t \in Threads, NEW o \in Objects, Consider(t, o)
      PROVE  Born'
    BY <1>13 DEF Consider, Born, TypeOK
<1>14. ASSUME NEW t \in Threads, Pulse(t)
      PROVE  Born'
    BY <1>14 DEF Pulse, Born, TypeOK, WalkLocked
<1>15. ASSUME NEW t \in Threads, NEW r \in Refs, Pick(t, r)
      PROVE  Born'
    BY <1>15 DEF Pick, Born, TypeOK, WalkLocked
<1>16. ASSUME NEW t \in Threads, EndList(t)
      PROVE  Born'
    BY <1>16 DEF EndList, Born, TypeOK
<1>17. ASSUME NEW t \in Threads, Selected(t)
      PROVE  Born'
    BY <1>17 DEF Selected, Born, TypeOK
<1>18. ASSUME NEW t \in Threads, SelectFails(t)
      PROVE  Born'
  <2>1. \A x \in Refs : ref'[x] # Free => ref[x] # Free /\ ref'[x].obj = ref[x].obj
      BY <1>18, Forgotten
  <2>2. \A x \in Refs : ref'[x] # Free => life[ref'[x].obj] # "none"
      BY <2>1 DEF Born
  <2> QED BY <1>18, <2>2 DEF SelectFails, Born, TypeOK
<1>19. ASSUME NEW t \in Threads, Sleep(t)
      PROVE  Born'
    BY <1>19 DEF Sleep, Born, TypeOK
<1>20. ASSUME NEW t \in Threads, WakeUp(t)
      PROVE  Born'
    BY <1>20 DEF WakeUp, Born, TypeOK
<1>21. ASSUME NEW t \in Threads, Test(t)
      PROVE  Born'
    BY <1>21 DEF Test, Born, TypeOK
<1>22. ASSUME Next PROVE Born'
  <2>1. PICK t \in Threads : Step(t)
      BY <1>22 DEF Next
  <2>2. \/ UNCHANGED <<life, cancelled, selected, ref, making, todo, pc, at>>
        \/ \E o \in Objects : Create(t, o)
        \/ Made(t)
        \/ MakeFails(t)
        \/ \E r \in Refs, o \in Objects, use \in {"call", "wait"} : Lookup(t, r, o, use)
        \/ \E r \in Refs : Cancel(t, r)
        \/ \E r \in Refs : Deselect(t, r)
        \/ \E r \in Refs : Release(t, r)
        \/ Signal(t)
        \/ Kill(t)
        \/ List(t)
        \/ \E o \in Objects : Skip(t, o)
        \/ \E o \in Objects : Consider(t, o)
        \/ Pulse(t)
        \/ \E r \in Refs : Pick(t, r)
        \/ EndList(t)
        \/ Selected(t)
        \/ SelectFails(t)
        \/ Sleep(t)
        \/ WakeUp(t)
        \/ Test(t)
      BY <2>1 DEF Step, Finish
  <2> QED BY <1>1, <1>2, <1>3, <1>4, <1>5, <1>6, <1>7, <1>8, <1>9, <1>10, <1>11, <1>12, <1>13, <1>14, <1>15, <1>16, <1>17, <1>18, <1>19, <1>20, <1>21, <2>2
<1> QED BY <1>1, <1>22 DEF vars

LEMMA ServedStep ==
    ASSUME TypeOK, RefcExact, WalkLocked, OneWorkerEach, ServedIsSelected, [Next]_vars
    PROVE  ServedIsSelected'
<1>1. CASE UNCHANGED <<ref, selected>>
    BY <1>1 DEF ServedIsSelected, Serves, TypeOK
<1>2. ASSUME NEW t \in Threads, NEW r \in Refs, NEW o \in Objects,
             NEW use \in {"call", "wait"}, Lookup(t, r, o, use)
      PROVE  ServedIsSelected'
    BY <1>2, LookedUp DEF Lookup, ServedIsSelected, Serves, TypeOK
<1>3. ASSUME NEW t \in Threads, NEW r \in Refs, Deselect(t, r)
      PROVE  ServedIsSelected'
  <2>1. selected' = [selected EXCEPT ![ref[r].obj] = FALSE]
      BY <1>3 DEF Deselect
  <2>2. Serves(r, ref[r].obj)
      BY <1>3, Deselected DEF Serves
  <2> QED BY <1>3, <2>1, <2>2, Deselected DEF ServedIsSelected, OneWorkerEach, Serves, TypeOK
<1>4. ASSUME NEW t \in Threads, NEW r \in Refs, Release(t, r)
      PROVE  ServedIsSelected'
  <2>1. PICK o \in Objects, n \in Nat : ReleaseEffect(t, r, o, n)
      BY <1>4, Released
  <2> QED BY <2>1 DEF ReleaseEffect, ServedIsSelected, Serves, TypeOK
<1>5. ASSUME NEW t \in Threads, NEW r \in Refs, Pick(t, r)
      PROVE  ServedIsSelected'
  <2>1. PICK o \in Objects :
           /\ o = at[t]
           /\ ref[r] = Free /\ ref'[r] # Free
           /\ ref'[r].use = "work" /\ ref'[r].obj = o
           /\ life[o] # "live" => ref'[r].late
           /\ \A s \in Refs : s # r => ref'[s] = ref[s]
           /\ selected' = [selected EXCEPT ![o] = TRUE] /\ ~selected[o]
           /\ life' = life /\ cancelled' = cancelled
      BY <1>5, Picked
  <2> QED BY <2>1 DEF ServedIsSelected, Serves, TypeOK
<1>6. ASSUME NEW t \in Threads, SelectFails(t)
      PROVE  ServedIsSelected'
  <2>1. selected' = selected
      BY <1>6 DEF SelectFails
  <2> QED BY <1>6, <2>1, Forgotten DEF ServedIsSelected, Serves
<1>7. ASSUME Next PROVE ServedIsSelected'
  <2>1. PICK t \in Threads : Step(t)
      BY <1>7 DEF Next
  <2>2. \/ UNCHANGED <<ref, selected>>
        \/ \E r \in Refs, o \in Objects, use \in {"call", "wait"} : Lookup(t, r, o, use)
        \/ \E r \in Refs : Deselect(t, r)
        \/ \E r \in Refs : Release(t, r)
        \/ \E r \in Refs : Pick(t, r)
        \/ SelectFails(t)
      BY <2>1 DEF Step, Finish, Create, Made, MakeFails, Cancel, Signal, Kill, List, Skip, Consider, Pulse, EndList, Selected, Sleep, WakeUp, Test
  <2> QED BY <1>1, <1>2, <1>3, <1>4, <1>5, <1>6, <2>2
<1> QED BY <1>1, <1>7 DEF vars

LEMMA OneWorkerStep ==
    ASSUME TypeOK, RefcExact, WalkLocked, OneWorkerEach, ServedIsSelected, [Next]_vars
    PROVE  OneWorkerEach'
<1>1. CASE UNCHANGED <<ref, selected>>
    BY <1>1 DEF OneWorkerEach, Serves, TypeOK
<1>2. ASSUME NEW t \in Threads, NEW r \in Refs, NEW o \in Objects,
             NEW use \in {"call", "wait"}, Lookup(t, r, o, use)
      PROVE  OneWorkerEach'
    BY <1>2, LookedUp DEF Lookup, OneWorkerEach, Serves, TypeOK
<1>3. ASSUME NEW t \in Threads, NEW r \in Refs, Deselect(t, r)
      PROVE  OneWorkerEach'
    BY <1>3, Deselected DEF Deselect, OneWorkerEach, Serves, TypeOK
<1>4. ASSUME NEW t \in Threads, NEW r \in Refs, Release(t, r)
      PROVE  OneWorkerEach'
  <2>1. PICK o \in Objects, n \in Nat : ReleaseEffect(t, r, o, n)
      BY <1>4, Released
  <2> QED BY <2>1 DEF ReleaseEffect, OneWorkerEach, Serves, TypeOK
<1>5. ASSUME NEW t \in Threads, NEW r \in Refs, Pick(t, r)
      PROVE  OneWorkerEach'
  <2>1. PICK o \in Objects :
           /\ o = at[t]
           /\ ref[r] = Free /\ ref'[r] # Free
           /\ ref'[r].use = "work" /\ ref'[r].obj = o
           /\ life[o] # "live" => ref'[r].late
           /\ \A s \in Refs : s # r => ref'[s] = ref[s]
           /\ selected' = [selected EXCEPT ![o] = TRUE] /\ ~selected[o]
           /\ life' = life /\ cancelled' = cancelled
      BY <1>5, Picked
  <2>2. \A s \in Refs : ~Serves(s, o)
      BY <2>1 DEF ServedIsSelected
  <2> QED BY <2>1, <2>2 DEF OneWorkerEach, Serves
<1>6. ASSUME NEW t \in Threads, SelectFails(t)
      PROVE  OneWorkerEach'
  <2> QED BY <1>6, Forgotten DEF OneWorkerEach, Serves
<1>7. ASSUME Next PROVE OneWorkerEach'
  <2>1. PICK t \in Threads : Step(t)
      BY <1>7 DEF Next
  <2>2. \/ UNCHANGED <<ref, selected>>
        \/ \E r \in Refs, o \in Objects, use \in {"call", "wait"} : Lookup(t, r, o, use)
        \/ \E r \in Refs : Deselect(t, r)
        \/ \E r \in Refs : Release(t, r)
        \/ \E r \in Refs : Pick(t, r)
        \/ SelectFails(t)
      BY <2>1 DEF Step, Finish, Create, Made, MakeFails, Cancel, Signal, Kill, List, Skip, Consider, Pulse, EndList, Selected, Sleep, WakeUp, Test
  <2> QED BY <1>1, <1>2, <1>3, <1>4, <1>5, <1>6, <2>2
<1> QED BY <1>1, <1>7 DEF vars

LEMMA SelectedStep ==
    ASSUME TypeOK, RefcExact, WalkLocked, SelectedIsServed,
           "interrupted" \notin Mishaps, [Next]_vars
    PROVE  SelectedIsServed'
<1>1. CASE UNCHANGED <<ref, selected>>
    BY <1>1 DEF SelectedIsServed, Serves, TypeOK
<1>2. ASSUME NEW t \in Threads, NEW r \in Refs, NEW o \in Objects,
             NEW use \in {"call", "wait"}, Lookup(t, r, o, use)
      PROVE  SelectedIsServed'
    BY <1>2, LookedUp DEF Lookup, SelectedIsServed, Serves, TypeOK
<1>3. ASSUME NEW t \in Threads, NEW r \in Refs, Deselect(t, r)
      PROVE  SelectedIsServed'
  <2>1. selected' = [selected EXCEPT ![ref[r].obj] = FALSE]
      BY <1>3 DEF Deselect
  <2> QED BY <1>3, <2>1, Deselected DEF SelectedIsServed, Serves, TypeOK
<1>4. ASSUME NEW t \in Threads, NEW r \in Refs, Release(t, r)
      PROVE  SelectedIsServed'
  <2>1. PICK o \in Objects, n \in Nat : ReleaseEffect(t, r, o, n)
      BY <1>4, Released
  <2> QED BY <2>1 DEF ReleaseEffect, SelectedIsServed, Serves, TypeOK
<1>5. ASSUME NEW t \in Threads, NEW r \in Refs, Pick(t, r)
      PROVE  SelectedIsServed'
  <2>1. PICK o \in Objects :
           /\ o = at[t]
           /\ ref[r] = Free /\ ref'[r] # Free
           /\ ref'[r].use = "work" /\ ref'[r].obj = o
           /\ life[o] # "live" => ref'[r].late
           /\ \A s \in Refs : s # r => ref'[s] = ref[s]
           /\ selected' = [selected EXCEPT ![o] = TRUE] /\ ~selected[o]
           /\ life' = life /\ cancelled' = cancelled
      BY <1>5, Picked
  <2>2. \A s \in Refs, x \in Objects : Serves(s, x) => s # r
      BY <2>1 DEF Serves
  <2> QED BY <2>1, <2>2 DEF SelectedIsServed, Serves, TypeOK
<1>6. ASSUME NEW t \in Threads, SelectFails(t)
      PROVE  SelectedIsServed'
    BY <1>6 DEF SelectFails, SelectedIsServed, Serves, TypeOK
<1>7. ASSUME Next PROVE SelectedIsServed'
  <2>1. PICK t \in Threads : Step(t)
      BY <1>7 DEF Next
  <2>2. \/ UNCHANGED <<ref, selected>>
        \/ \E r \in Refs, o \in Objects, use \in {"call", "wait"} : Lookup(t, r, o, use)
        \/ \E r \in Refs : Deselect(t, r)
        \/ \E r \in Refs : Release(t, r)
        \/ \E r \in Refs : Pick(t, r)
        \/ SelectFails(t)
      BY <2>1 DEF Step, Finish, Create, Made, MakeFails, Cancel, Signal, Kill, List, Skip, Consider, Pulse, EndList, Selected, Sleep, WakeUp, Test
  <2> QED BY <1>1, <1>2, <1>3, <1>4, <1>5, <1>6, <2>2
<1> QED BY <1>1, <1>7 DEF vars

LEMMA NothingLostStep ==
    ASSUME TypeOK, RefcExact, NothingLost,
           "interrupted" \notin Mishaps, [Next]_vars
    PROVE  NothingLost'
<1>1. CASE UNCHANGED <<ref>>
    BY <1>1 DEF NothingLost, TypeOK
<1>2. ASSUME NEW t \in Threads, NEW r \in Refs, NEW o \in Objects,
             NEW use \in {"call", "wait"}, Lookup(t, r, o, use)
      PROVE  NothingLost'
    BY <1>2, LookedUp DEF Lookup, NothingLost, TypeOK
<1>3. ASSUME NEW t \in Threads, NEW r \in Refs, Deselect(t, r)
      PROVE  NothingLost'
    BY <1>3, Deselected DEF Deselect, NothingLost, TypeOK
<1>4. ASSUME NEW t \in Threads, NEW r \in Refs, Release(t, r)
      PROVE  NothingLost'
  <2>1. PICK o \in Objects, n \in Nat : ReleaseEffect(t, r, o, n)
      BY <1>4, Released
  <2> QED BY <2>1 DEF ReleaseEffect, NothingLost, TypeOK
<1>5. ASSUME NEW t \in Threads, NEW r \in Refs, Pick(t, r)
      PROVE  NothingLost'
  <2>1. at[t] \in Objects
      BY <1>5 DEF Pick, TypeOK
  <2>2. \A s \in Refs : ref'[s] = ref[s] \/ ref'[s].use = "work"
      BY <1>5 DEF Pick, TypeOK
  <2> QED BY <2>2 DEF NothingLost
<1>6. ASSUME NEW t \in Threads, SelectFails(t)
      PROVE  NothingLost'
    BY <1>6 DEF SelectFails, NothingLost, TypeOK
<1>7. ASSUME Next PROVE NothingLost'
  <2>1. PICK t \in Threads : Step(t)
      BY <1>7 DEF Next
  <2>2. \/ UNCHANGED <<ref>>
        \/ \E r \in Refs, o \in Objects, use \in {"call", "wait"} : Lookup(t, r, o, use)
        \/ \E r \in Refs : Deselect(t, r)
        \/ \E r \in Refs : Release(t, r)
        \/ \E r \in Refs : Pick(t, r)
        \/ SelectFails(t)
      BY <2>1 DEF Step, Finish, Create, Made, MakeFails, Cancel, Signal, Kill, List, Skip, Consider, Pulse, EndList, Selected, Sleep, WakeUp, Test
  <2> QED BY <1>1, <1>2, <1>3, <1>4, <1>5, <1>6, <2>2
<1> QED BY <1>1, <1>7 DEF vars

LEMMA DeletedUnusedStep ==
    ASSUME TypeOK, RefcExact, Born, WalkLocked, WalkMeetsNoDead, DeletedUnused,
           "declined" \notin Mishaps, [Next]_vars
    PROVE  DeletedUnused'
<1>1. CASE UNCHANGED <<ref, life>>
    BY <1>1 DEF DeletedUnused, TypeOK
<1>2. ASSUME NEW t \in Threads, NEW o \in Objects, Create(t, o)
      PROVE  DeletedUnused'
    BY <1>2 DEF Create, DeletedUnused, TypeOK
<1>3. ASSUME NEW t \in Threads, MakeFails(t)
      PROVE  DeletedUnused'
    BY <1>3 DEF MakeFails, DeletedUnused, TypeOK
<1>4. ASSUME NEW t \in Threads, NEW r \in Refs, NEW o \in Objects,
             NEW use \in {"call", "wait"}, Lookup(t, r, o, use)
      PROVE  DeletedUnused'
  <2>1. \A x \in Refs \ {r} : ref'[x] = ref[x]
      BY <1>4, LookedUp
  <2>2. life' = life /\ ref'[r].obj = o /\ life[o] # "gone" /\ (life[o] = "condemned" => ref'[r].late)
      BY <1>4, LookedUp
  <2> QED BY <2>1, <2>2 DEF DeletedUnused
<1>5. ASSUME NEW t \in Threads, NEW r \in Refs, Deselect(t, r)
      PROVE  DeletedUnused'
  <2>1. life' = life
      BY <1>5 DEF Deselect
  <2> QED BY <1>5, <2>1, Deselected DEF DeletedUnused
<1>6. ASSUME NEW t \in Threads, NEW r \in Refs, Release(t, r)
      PROVE  DeletedUnused'
  <2>1. PICK o \in Objects, n \in Nat : ReleaseEffect(t, r, o, n)
      BY <1>6, Released
  <2>2. \A x \in Refs : ref'[x] # Free => x # r /\ ref[x] # Free /\ ref'[x] = ref[x] /\ ref[x].obj \in Objects
      BY <2>1 DEF ReleaseEffect, TypeOK, Holdings
  <2>3. CASE n = 0 /\ cancelled[o]
    <3>1. RefsTo(o) \ {r} = {}
        BY <2>1, <2>3, RefsFinite, FS_Subset, FS_EmptySet DEF ReleaseEffect
    <3>2. \A x \in Refs : ref'[x] # Free => ref[x].obj # o
        BY <2>2, <3>1 DEF RefsTo
    <3>3. \A y \in Objects : y # o => life'[y] = life[y]
        BY <2>1, <2>3 DEF ReleaseEffect, TypeOK
    <3> QED BY <2>2, <3>2, <3>3 DEF DeletedUnused
  <2>4. CASE ~(n = 0 /\ cancelled[o])
      BY <2>1, <2>2, <2>4 DEF ReleaseEffect, DeletedUnused
  <2> QED BY <2>3, <2>4
<1>7. ASSUME NEW t \in Threads, Kill(t)
      PROVE  DeletedUnused'
  <2>1. at[t] \in Objects /\ life[at[t]] \in {"condemned", "gone"} /\ ref' = ref
        /\ life' = [life EXCEPT ![at[t]] = "gone"]
      BY <1>7 DEF Kill, Born, TypeOK
  <2>2. \A x \in Objects : life'[x] \in {"condemned", "gone"} => life[x] \in {"condemned", "gone"}
      BY <2>1 DEF TypeOK
  <2>3. \A s \in Refs : ref[s] # Free => ref[s].obj \in Objects
      BY DEF TypeOK, Holdings
  <2> QED BY <2>1, <2>2, <2>3 DEF DeletedUnused
<1>8. ASSUME NEW t \in Threads, NEW r \in Refs, Pick(t, r)
      PROVE  DeletedUnused'
  <2>1. PICK o \in Objects :
           /\ o = at[t]
           /\ ref[r] = Free /\ ref'[r] # Free
           /\ ref'[r].use = "work" /\ ref'[r].obj = o
           /\ life[o] # "live" => ref'[r].late
           /\ \A s \in Refs : s # r => ref'[s] = ref[s]
           /\ selected' = [selected EXCEPT ![o] = TRUE] /\ ~selected[o]
           /\ life' = life /\ cancelled' = cancelled
      BY <1>8, Picked
  <2> QED BY <2>1 DEF DeletedUnused
<1>9. ASSUME NEW t \in Threads, SelectFails(t)
      PROVE  DeletedUnused'
  <2>1. life' = life
      BY <1>9 DEF SelectFails
  <2> QED BY <1>9, <2>1, Forgotten DEF DeletedUnused
<1>10. ASSUME Next PROVE DeletedUnused'
  <2>1. PICK t \in Threads : Step(t)
      BY <1>10 DEF Next
  <2>2. \/ UNCHANGED <<ref, life>>
        \/ \E o \in Objects : Create(t, o)
        \/ MakeFails(t)
        \/ \E r \in Refs, o \in Objects, use \in {"call", "wait"} : Lookup(t, r, o, use)
        \/ \E r \in Refs : Deselect(t, r)
        \/ \E r \in Refs : Release(t, r)
        \/ Kill(t)
        \/ \E r \in Refs : Pick(t, r)
        \/ SelectFails(t)
      BY <2>1 DEF Step, Finish, Made, Cancel, Signal, List, Skip, Consider, Pulse, EndList, Selected, Sleep, WakeUp, Test
  <2> QED BY <1>1, <1>2, <1>3, <1>4, <1>5, <1>6, <1>7, <1>8, <1>9, <2>2
<1> QED BY <1>1, <1>10 DEF vars

\* CancelledNotForgotten where nothing is lost.
Remembered(o) ==
    \/ \E r \in Refs : ref[r] # Free /\ ref[r].obj = o
    \/ \E t \in Threads : pc[t] = "pick" /\ at[t] = o

AllRemembered == \A o \in Objects : life[o] = "live" /\ cancelled[o] => Remembered(o)

LEMMA RememberedMeans ==
    ASSUME NothingLost
    PROVE  CancelledNotForgotten <=> AllRemembered
BY DEF NothingLost, CancelledNotForgotten, AllRemembered, Remembered, RefsTo

LEMMA RememberedStep ==
    ASSUME TypeOK, RefcExact, Born, WalkLocked, AllRemembered, [Next]_vars
    PROVE  AllRemembered'
<1>1. CASE UNCHANGED <<life, cancelled, ref, pc, at>>
    BY <1>1 DEF AllRemembered, Remembered, TypeOK
<1>2. ASSUME NEW t \in Threads, NEW o \in Objects, Create(t, o)
      PROVE  AllRemembered'
    BY <1>2 DEF Create, AllRemembered, Remembered, TypeOK, Born
<1>3. ASSUME NEW t \in Threads, MakeFails(t)
      PROVE  AllRemembered'
    BY <1>3 DEF MakeFails, AllRemembered, Remembered, TypeOK
<1>4. ASSUME NEW t \in Threads, NEW r \in Refs, NEW o \in Objects,
             NEW use \in {"call", "wait"}, Lookup(t, r, o, use)
      PROVE  AllRemembered'
  <2>1. life' = life /\ cancelled' = cancelled /\ ref[r] = Free /\ ref'[r] # Free
        /\ \A s \in Refs : s # r => ref'[s] = ref[s]
      BY <1>4, LookedUp
  <2>2. \A u \in Threads : pc[u] = "pick" => pc'[u] = "pick" /\ at'[u] = at[u]
      BY <1>4 DEF Lookup, TypeOK
  <2> QED BY <2>1, <2>2 DEF AllRemembered, Remembered
<1>5. ASSUME NEW t \in Threads, NEW r \in Refs, Cancel(t, r)
      PROVE  AllRemembered'
  <2>1. ref[r] # Free /\ ref[r].obj \in Objects
        /\ cancelled' = [cancelled EXCEPT ![ref[r].obj] = TRUE]
        /\ ref' = ref /\ pc' = pc /\ at' = at /\ life' = life
      BY <1>5 DEF Cancel, Holds, TypeOK, Holdings
  <2> QED BY <2>1 DEF AllRemembered, Remembered, TypeOK
<1>6. ASSUME NEW t \in Threads, NEW r \in Refs, Deselect(t, r)
      PROVE  AllRemembered'
  <2>1. life' = life /\ cancelled' = cancelled /\ pc' = pc /\ at' = at
      BY <1>6 DEF Deselect
  <2> QED BY <1>6, <2>1, Deselected DEF AllRemembered, Remembered
<1>7. ASSUME NEW t \in Threads, NEW r \in Refs, Release(t, r)
      PROVE  AllRemembered'
  <2>1. PICK o \in Objects, n \in Nat : ReleaseEffect(t, r, o, n)
      BY <1>7, Released
  <2>2. \A x \in Refs \ {r} : ref'[x] = ref[x]
      BY <2>1 DEF ReleaseEffect, TypeOK
  <2>3. cancelled' = cancelled
        /\ \A u \in Threads : pc[u] = "pick" => pc'[u] = "pick" /\ at'[u] = at[u]
      BY <2>1 DEF ReleaseEffect, TypeOK
  <2>4. ASSUME NEW x \in Objects, life'[x] = "live", cancelled[x], x # o
        PROVE  Remembered(x)'
    <3>1. life[x] = "live"
        BY <2>1, <2>4 DEF ReleaseEffect, TypeOK
    <3> QED BY <2>1, <2>2, <2>3, <2>4, <3>1 DEF ReleaseEffect, AllRemembered, Remembered
  <2>5. ASSUME life'[o] = "live", cancelled[o]
        PROVE  Remembered(o)'
    <3>1. n # 0
        BY <2>1, <2>5 DEF ReleaseEffect, TypeOK
    <3>2. PICK x \in RefsTo(o) \ {r} : TRUE
        BY <2>1, <3>1, FS_EmptySet DEF ReleaseEffect
    <3> QED BY <2>2, <3>2 DEF RefsTo, Remembered
  <2> QED BY <2>3, <2>4, <2>5 DEF AllRemembered
<1>8. ASSUME NEW t \in Threads, Signal(t)
      PROVE  AllRemembered'
    BY <1>8 DEF Signal, AllRemembered, Remembered, TypeOK
<1>9. ASSUME NEW t \in Threads, Kill(t)
      PROVE  AllRemembered'
    BY <1>9 DEF Kill, AllRemembered, Remembered, TypeOK
<1>10. ASSUME NEW t \in Threads, List(t)
      PROVE  AllRemembered'
    BY <1>10 DEF List, AllRemembered, Remembered, TypeOK
<1>11. ASSUME NEW t \in Threads, NEW o \in Objects, Consider(t, o)
      PROVE  AllRemembered'
    BY <1>11 DEF Consider, AllRemembered, Remembered, TypeOK
<1>12. ASSUME NEW t \in Threads, Pulse(t)
      PROVE  AllRemembered'
    BY <1>12 DEF Pulse, AllRemembered, Remembered, TypeOK
<1>13. ASSUME NEW t \in Threads, NEW r \in Refs, Pick(t, r)
      PROVE  AllRemembered'
  <2>1. PICK o \in Objects :
           /\ o = at[t]
           /\ ref[r] = Free /\ ref'[r] # Free
           /\ ref'[r].use = "work" /\ ref'[r].obj = o
           /\ life[o] # "live" => ref'[r].late
           /\ \A s \in Refs : s # r => ref'[s] = ref[s]
           /\ selected' = [selected EXCEPT ![o] = TRUE] /\ ~selected[o]
           /\ life' = life /\ cancelled' = cancelled
      BY <1>13, Picked
  <2>2. \A u \in Threads : pc[u] = "pick" => u = t
      BY <1>13 DEF Pick, TypeOK
  <2> QED BY <2>1, <2>2 DEF AllRemembered, Remembered
<1>14. ASSUME NEW t \in Threads, EndList(t)
      PROVE  AllRemembered'
    BY <1>14 DEF EndList, AllRemembered, Remembered, TypeOK
<1>15. ASSUME NEW t \in Threads, Selected(t)
      PROVE  AllRemembered'
    BY <1>15 DEF Selected, AllRemembered, Remembered, TypeOK
<1>16. ASSUME NEW t \in Threads, SelectFails(t)
      PROVE  AllRemembered'
  <2>1. life' = life /\ cancelled' = cancelled /\ at' = at
        /\ \A u \in Threads : pc[u] = "pick" => pc'[u] = "pick"
      BY <1>16 DEF SelectFails, TypeOK
  <2> QED BY <1>16, <2>1, Forgotten DEF AllRemembered, Remembered
<1>17. ASSUME NEW t \in Threads, Sleep(t)
      PROVE  AllRemembered'
    BY <1>17 DEF Sleep, AllRemembered, Remembered, TypeOK
<1>18. ASSUME NEW t \in Threads, WakeUp(t)
      PROVE  AllRemembered'
    BY <1>18 DEF WakeUp, AllRemembered, Remembered, TypeOK
<1>19. ASSUME NEW t \in Threads, Test(t)
      PROVE  AllRemembered'
    BY <1>19 DEF Test, AllRemembered, Remembered, TypeOK
<1>20. ASSUME Next PROVE AllRemembered'
  <2>1. PICK t \in Threads : Step(t)
      BY <1>20 DEF Next
  <2>2. \/ UNCHANGED <<life, cancelled, ref, pc, at>>
        \/ \E o \in Objects : Create(t, o)
        \/ MakeFails(t)
        \/ \E r \in Refs, o \in Objects, use \in {"call", "wait"} : Lookup(t, r, o, use)
        \/ \E r \in Refs : Cancel(t, r)
        \/ \E r \in Refs : Deselect(t, r)
        \/ \E r \in Refs : Release(t, r)
        \/ Signal(t)
        \/ Kill(t)
        \/ List(t)
        \/ \E o \in Objects : Consider(t, o)
        \/ Pulse(t)
        \/ \E r \in Refs : Pick(t, r)
        \/ EndList(t)
        \/ Selected(t)
        \/ SelectFails(t)
        \/ Sleep(t)
        \/ WakeUp(t)
        \/ Test(t)
      BY <2>1 DEF Step, Finish, Made, Skip
  <2> QED BY <1>1, <1>2, <1>3, <1>4, <1>5, <1>6, <1>7, <1>8, <1>9, <1>10, <1>11, <1>12, <1>13, <1>14, <1>15, <1>16, <1>17, <1>18, <1>19, <2>2
<1> QED BY <1>1, <1>20 DEF vars

-----------------------------------------------------------------------------
LEMMA InitOK == Init => IInv
<1> SUFFICES ASSUME Init PROVE IInv
    OBVIOUS
<1>1. \A o \in Objects : RefsTo(o) = {}
    BY DEF Init, RefsTo
<1>2. RefcExact
    BY <1>1, FS_EmptySet DEF RefcExact, Init
<1>3. TypeOK
    BY DEF Init, TypeOK
<1>4. WalkLocked /\ WalkMeetsNoDead /\ Born
    BY DEF Init, WalkLocked, WalkMeetsNoDead, Born
<1>5. ServedIsSelected /\ OneWorkerEach /\ NothingLost /\ SelectedIsServed
    BY DEF Init, ServedIsSelected, OneWorkerEach, NothingLost, SelectedIsServed, Serves
<1>6. CancelledNotForgotten /\ DeletedUnused
    BY DEF Init, CancelledNotForgotten, DeletedUnused
<1> QED BY <1>2, <1>3, <1>4, <1>5, <1>6 DEF IInv

LEMMA Inductive == IInv /\ [Next]_vars => IInv'
<1> SUFFICES ASSUME IInv, [Next]_vars PROVE IInv'
    OBVIOUS
<1>1. TypeOK /\ RefcExact /\ WalkLocked /\ WalkMeetsNoDead /\ Born
      /\ ServedIsSelected /\ OneWorkerEach
    BY DEF IInv
<1>2. TypeOK' /\ RefcExact'
    BY <1>1, TypeStep, RefcStep
<1>3. WalkLocked' /\ WalkMeetsNoDead' /\ Born'
    BY <1>1, WalkStep, WalkMeetsNoDeadStep, BornStep
<1>4. ServedIsSelected' /\ OneWorkerEach'
    BY <1>1, ServedStep, OneWorkerStep
<1>5. ASSUME "interrupted" \notin Mishaps
      PROVE  NothingLost' /\ SelectedIsServed' /\ CancelledNotForgotten'
  <2>1. NothingLost /\ SelectedIsServed /\ AllRemembered
      BY <1>5, RememberedMeans DEF IInv
  <2>2. NothingLost' /\ SelectedIsServed' /\ AllRemembered'
      BY <1>1, <1>5, <2>1, NothingLostStep, SelectedStep, RememberedStep
  <2>3. NothingLost' => (CancelledNotForgotten' <=> AllRemembered')
      BY DEF NothingLost, CancelledNotForgotten, AllRemembered, Remembered, RefsTo
  <2> QED BY <2>2, <2>3
<1>6. ASSUME "declined" \notin Mishaps
      PROVE  DeletedUnused'
  <2>1. DeletedUnused
      BY <1>6 DEF IInv
  <2> QED BY <1>1, <1>6, <2>1, DeletedUnusedStep
<1> QED BY <1>2, <1>3, <1>4, <1>5, <1>6 DEF IInv

\* The inductive invariant holds in every reachable state.
THEOREM ObjectInvariant == Spec => []IInv
<1>1. Init => IInv
    BY InitOK
<1>2. IInv /\ [Next]_vars => IInv'
    BY Inductive
<1> QED BY <1>1, <1>2, PTL DEF Spec

\* Every variable keeps its type; each of the two locks is held by exactly
\* the thread that is inside the code it guards.
THEOREM Typing == Spec => []TypeOK
<1>1. IInv => TypeOK
    BY DEF IInv
<1> QED BY <1>1, ObjectInvariant, PTL

\* refc is the number of references, whatever threads do (object.cc:38-56).
THEOREM CountsExact == Spec => []RefcExact
<1>1. IInv => RefcExact
    BY DEF IInv
<1> QED BY <1>1, ObjectInvariant, PTL

\* No walk through the table meets an object that is gone (object.cc:32-35,
\* 68-83).
THEOREM WalksMeetNoDead == Spec => []WalkMeetsNoDead
<1>1. IInv => WalkMeetsNoDead
    BY DEF IInv
<1> QED BY <1>1, ObjectInvariant, PTL

\* No two workers serve one connection (connection.cc:241-247, 341-343).
THEOREM WorkersExclusive == Spec => []OneWorkerEach
<1>1. IInv => OneWorkerEach
    BY DEF IInv
<1> QED BY <1>1, ObjectInvariant, PTL

\* Unless select fails, each selected connection has a worker (connection.cc:
\* 247, 342).
THEOREM NoneShutOut ==
    ASSUME "interrupted" \notin Mishaps
    PROVE  Spec => []SelectedIsServed
<1>1. IInv => SelectedIsServed
    BY DEF IInv
<1> QED BY <1>1, ObjectInvariant, PTL

\* Unless select fails, a cancelled object that lives is held by somebody who
\* will release it (object.cc:48-65).
THEOREM NoneForgotten ==
    ASSUME "interrupted" \notin Mishaps
    PROVE  Spec => []CancelledNotForgotten
<1>1. IInv => CancelledNotForgotten
    BY DEF IInv
<1> QED BY <1>1, ObjectInvariant, PTL

\* Unless a creation is undone with delete, no object is condemned while a
\* reference to it exists (object.h:14-17, object.cc:48-65).
THEOREM DeletionWaits ==
    ASSUME "declined" \notin Mishaps
    PROVE  Spec => []DeletedUnused
<1>1. IInv => DeletedUnused
    BY DEF IInv
<1> QED BY <1>1, ObjectInvariant, PTL

=============================================================================
