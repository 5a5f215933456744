----------------------- MODULE RelayWalletQueueProofs -----------------------
(***************************************************************************)
(* The wallet queue is mutually exclusive per user and never blocks under  *)
(* its global mutex, for every set of users, operations and wait objects.  *)
(***************************************************************************)
EXTENDS RelayWalletQueue, FiniteSetTheorems, TLAPS

\* Operations that hold a pointer to wait object w.
Holders(w) == {r \in Operations : on[r] = w}

\* An operation points to a wait object exactly while it is under way, and
\* that object is the one the map has for its user.
PointersAgree ==
    \A r \in Operations :
        IF pc[r] = "idle" THEN on[r] = NoWait
                          ELSE on[r] \in Waits /\ on[r] = accounts[UserOf[r]]

\* wait.references counts the operations that point to the object.
ReferencesCount ==
    \A w \in Waits : references[w] = Cardinality(Holders(w))

\* Objects in the map are in use, and no two users share one.
EntriesInUse ==
    \A u \in Users : accounts[u] # NoWait =>
        /\ references[accounts[u]] > 0
        /\ \A v \in Users : accounts[v] = accounts[u] => v = u

\* The turn is either in the channel or with exactly one operation.
OneTurn ==
    /\ \A w \in Waits : available[w] <= 1
    /\ \A r \in Operations : Operating(r) => available[on[r]] = 0
    /\ \A r, s \in Operations :
          Operating(r) /\ Operating(s) /\ on[r] = on[s] => r = s

IInv == TypeOK /\ PointersAgree /\ ReferencesCount /\ EntriesInUse /\ OneTurn

-----------------------------------------------------------------------------
\* The set of holders is a finite set, so that its cardinality is a number.
LEMMA HoldersFinite ==
    ASSUME NEW w
    PROVE  IsFiniteSet(Holders(w)) /\ Cardinality(Holders(w)) \in Nat
<1>1. Holders(w) \subseteq Operations  BY DEF Holders
<1>2. IsFiniteSet(Holders(w))  BY <1>1, QueueAssumption, FS_Subset
<1> QED  BY <1>2, FS_CardinalityType

\* An object no operation points to has no reference left.
LEMMA NoHolder ==
    ASSUME IInv, NEW w \in Waits, references[w] = 0
    PROVE  \A r \in Operations : on[r] # w
<1>1. Cardinality(Holders(w)) = 0  BY DEF IInv, ReferencesCount
<1>2. Holders(w) = {}  BY <1>1, HoldersFinite, FS_EmptySet
<1> QED  BY <1>2 DEF Holders

\* A step that adds operation r to an object's holders adds one to their number.
LEMMA HolderIn ==
    ASSUME TypeOK, NEW r \in Operations, NEW w \in Waits, on[r] = NoWait,
           on' = [on EXCEPT ![r] = w]
    PROVE  /\ Cardinality(Holders(w)') = Cardinality(Holders(w)) + 1
           /\ \A x \in Waits \ {w} : Holders(x)' = Holders(x)
<1>1. r \notin Holders(w)  BY QueueAssumption DEF Holders
<1>2. Holders(w)' = Holders(w) \cup {r}  BY DEF Holders, TypeOK
<1>3. Cardinality(Holders(w) \cup {r}) = Cardinality(Holders(w)) + 1
  BY <1>1, HoldersFinite, FS_AddElement
<1>4. \A x \in Waits \ {w} : Holders(x)' = Holders(x)
  BY QueueAssumption DEF Holders, TypeOK
<1> QED  BY <1>2, <1>3, <1>4

\* A step that takes operation r off an object takes one from their number.
LEMMA HolderOut ==
    ASSUME TypeOK, NEW r \in Operations, on[r] \in Waits,
           on' = [on EXCEPT ![r] = NoWait]
    PROVE  /\ Cardinality(Holders(on[r])) >= 1
           /\ Cardinality({s \in Operations : on'[s] = on[r]}) = Cardinality(Holders(on[r])) - 1
           /\ \A x \in Waits \ {on[r]} : Holders(x)' = Holders(x)
<1> DEFINE w == on[r]
<1>1. r \in Holders(w)  BY DEF Holders
<1>2. {s \in Operations : on'[s] = w} = Holders(w) \ {r}
  BY QueueAssumption DEF Holders, TypeOK
<1>3. Cardinality(Holders(w) \ {r}) = Cardinality(Holders(w)) - 1
  BY <1>1, HoldersFinite, FS_RemoveElement
<1>4. Cardinality(Holders(w) \ {r}) \in Nat
  BY HoldersFinite, FS_RemoveElement, FS_CardinalityType
<1>5. \A x \in Waits \ {w} : Holders(x)' = Holders(x)
  BY QueueAssumption DEF Holders, TypeOK
<1> QED  BY <1>2, <1>3, <1>4, <1>5, HoldersFinite

-----------------------------------------------------------------------------
LEMMA InitInv == Init => IInv
<1> SUFFICES ASSUME Init PROVE IInv  OBVIOUS
<1>1. TypeOK  BY DEF Init, TypeOK
<1>2. PointersAgree  BY DEF Init, PointersAgree
<1>3. ReferencesCount
  <2> SUFFICES ASSUME NEW w \in Waits PROVE references[w] = Cardinality(Holders(w))
    BY DEF ReferencesCount
  <2>1. Holders(w) = {}  BY QueueAssumption DEF Holders, Init
  <2> QED  BY <2>1, FS_EmptySet DEF Init
<1>4. EntriesInUse  BY DEF Init, EntriesInUse
<1>5. OneTurn  BY DEF Init, OneTurn, Operating
<1> QED  BY <1>1, <1>2, <1>3, <1>4, <1>5 DEF IInv

\* Entering on an existing entry, or on a fresh object nobody points to.
LEMMA EnterInv ==
    ASSUME IInv, NEW r \in Operations, Enter(r)
    PROVE  IInv'
<1> DEFINE u == UserOf[r]
<1> USE QueueAssumption
<1>0. TypeOK /\ PointersAgree /\ ReferencesCount /\ EntriesInUse /\ OneTurn  BY DEF IInv
<1>1. pc[r] = "idle" /\ on[r] = NoWait /\ u \in Users
  BY <1>0 DEF Enter, PointersAgree
<1>2. CASE accounts[u] # NoWait
  <2> DEFINE w == accounts[u]
  <2>1. /\ w \in Waits
        /\ references' = [references EXCEPT ![w] = @ + 1]
        /\ on' = [on EXCEPT ![r] = w]
        /\ pc' = [pc EXCEPT ![r] = "queued"]
        /\ UNCHANGED <<accounts, available, cancelled>>
    BY <1>0, <1>1, <1>2 DEF Enter, TypeOK
  <2>2. TypeOK'  BY <1>0, <1>1, <2>1 DEF TypeOK
  <2>3. PointersAgree'  BY <1>0, <1>1, <2>1 DEF PointersAgree, TypeOK
  <2>4. ReferencesCount'
    <3>1. /\ Cardinality(Holders(w)') = Cardinality(Holders(w)) + 1
          /\ \A x \in Waits \ {w} : Holders(x)' = Holders(x)
      BY <1>0, <1>1, <2>1, HolderIn
    <3> SUFFICES ASSUME NEW x \in Waits PROVE references'[x] = Cardinality(Holders(x)')
      BY DEF ReferencesCount, Holders
    <3>2. references[x] = Cardinality(Holders(x))  BY <1>0 DEF ReferencesCount
    <3>3. CASE x = w  BY <3>1, <3>2, <3>3, <2>1, <1>0 DEF TypeOK
    <3>4. CASE x # w  BY <3>1, <3>2, <3>4, <2>1, <1>0 DEF TypeOK
    <3> QED  BY <3>3, <3>4
  <2>5. EntriesInUse'
    <3> HIDE DEF w
    <3> SUFFICES ASSUME NEW t \in Users, accounts[t] # NoWait
                 PROVE  references'[accounts[t]] > 0
      BY <1>0, <2>1 DEF EntriesInUse
    <3>1. accounts[t] \in Waits /\ references[accounts[t]] > 0
      BY <1>0 DEF EntriesInUse, TypeOK
    <3>2. references[accounts[t]] \in Nat  BY <1>0, <3>1 DEF TypeOK
    <3> QED  BY <1>0, <2>1, <3>1, <3>2 DEF TypeOK
  <2>6. OneTurn'  BY <1>0, <1>1, <2>1 DEF OneTurn, Operating, TypeOK
  <2> QED  BY <2>2, <2>3, <2>4, <2>5, <2>6 DEF IInv
<1>3. CASE accounts[u] = NoWait
  <2>1. PICK w \in Waits :
            /\ references[w] = 0
            /\ accounts' = [accounts EXCEPT ![u] = w]
            /\ references' = [references EXCEPT ![w] = 1]
            /\ available' = [available EXCEPT ![w] = 1]
            /\ on' = [on EXCEPT ![r] = w]
            /\ pc' = [pc EXCEPT ![r] = "queued"]
            /\ UNCHANGED cancelled
    BY <1>3 DEF Enter
  <2>2. \A s \in Operations : on[s] # w  BY <2>1, NoHolder
  <2>3. \A v \in Users : accounts[v] # w
    BY <1>0, <2>1 DEF EntriesInUse
  <2>4. \A s \in Operations : UserOf[s] = u => pc[s] = "idle"
    BY <1>0, <1>3 DEF PointersAgree
  <2>5. TypeOK'  BY <1>0, <1>1, <2>1 DEF TypeOK
  <2>6. PointersAgree'
    BY <1>0, <1>1, <2>1, <2>4 DEF PointersAgree, TypeOK
  <2>7. ReferencesCount'
    <3>1. /\ Cardinality(Holders(w)') = Cardinality(Holders(w)) + 1
          /\ \A x \in Waits \ {w} : Holders(x)' = Holders(x)
      BY <1>0, <1>1, <2>1, HolderIn
    <3> SUFFICES ASSUME NEW x \in Waits PROVE references'[x] = Cardinality(Holders(x)')
      BY DEF ReferencesCount, Holders
    <3>2. references[x] = Cardinality(Holders(x))  BY <1>0 DEF ReferencesCount
    <3>3. CASE x = w  BY <3>1, <3>2, <3>3, <2>1, <1>0 DEF TypeOK
    <3>4. CASE x # w  BY <3>1, <3>2, <3>4, <2>1, <1>0 DEF TypeOK
    <3> QED  BY <3>3, <3>4
  <2>8. EntriesInUse'
    BY <1>0, <1>1, <2>1, <2>3 DEF EntriesInUse, TypeOK
  <2>9. OneTurn'
    BY <1>0, <1>1, <2>1, <2>2 DEF OneTurn, Operating, TypeOK
  <2> QED  BY <2>5, <2>6, <2>7, <2>8, <2>9 DEF IInv
<1> QED  BY <1>2, <1>3

\* leave(acquired), called with the turn exactly when it was taken.
LEMMA LeaveInv ==
    ASSUME IInv, NEW r \in Operations, pc[r] # "idle",
           NEW acquired \in BOOLEAN, acquired <=> Operating(r),
           Leave(r, acquired)
    PROVE  IInv'
<1> DEFINE u == UserOf[r]
           w == on[r]
<1> USE QueueAssumption
<1>0. TypeOK /\ PointersAgree /\ ReferencesCount /\ EntriesInUse /\ OneTurn  BY DEF IInv
<1>1. u \in Users /\ w \in Waits /\ w = accounts[u]
  BY <1>0 DEF PointersAgree
<1>2. /\ available' = IF acquired THEN [available EXCEPT ![w] = @ + 1] ELSE available
      /\ references' = [references EXCEPT ![w] = @ - 1]
      /\ accounts' = IF references[w] = 1 THEN [accounts EXCEPT ![u] = NoWait] ELSE accounts
      /\ pc' = [pc EXCEPT ![r] = "idle"]
      /\ on' = [on EXCEPT ![r] = NoWait]
      /\ cancelled' = [cancelled EXCEPT ![r] = FALSE]
  BY DEF Leave, Return
<1>3. /\ Cardinality(Holders(w)) >= 1
      /\ Cardinality({s \in Operations : on'[s] = w}) = Cardinality(Holders(w)) - 1
      /\ \A x \in Waits \ {w} : Holders(x)' = Holders(x)
  BY <1>0, <1>1, <1>2, HolderOut
<1>4. references[w] = Cardinality(Holders(w)) /\ references[w] \in Nat /\ references[w] >= 1
  BY <1>0, <1>1, <1>3 DEF ReferencesCount, TypeOK
<1>5. \A s \in Operations \ {r} : on[s] = w => references[w] # 1
  <2> SUFFICES ASSUME NEW s \in Operations \ {r}, on[s] = w, references[w] = 1 PROVE FALSE
    OBVIOUS
  <2>1. r \in Holders(w) /\ IsFiniteSet(Holders(w)) /\ Cardinality(Holders(w)) = 1
    BY <1>4, HoldersFinite DEF Holders
  <2>2. IsFiniteSet(Holders(w) \ {r}) /\ Cardinality(Holders(w) \ {r}) = 0
    BY <2>1, FS_RemoveElement
  <2>3. Holders(w) \ {r} = {}
    BY <2>2, FS_EmptySet
  <2> QED  BY <2>3 DEF Holders
<1>6. available[w] \in Nat /\ (acquired => available[w] = 0)
  BY <1>0, <1>1 DEF TypeOK, OneTurn
<1>7. TypeOK'
  <2> HIDE DEF u, w
  <2>1. accounts' \in [Users -> Waits \cup {NoWait}]  BY <1>0, <1>1, <1>2 DEF TypeOK
  <2>2. references' \in [Waits -> Nat]  BY <1>0, <1>1, <1>2, <1>4 DEF TypeOK
  <2>3. available' \in [Waits -> Nat]  BY <1>0, <1>1, <1>2, <1>6 DEF TypeOK
  <2>4. pc' \in [Operations -> {"idle", "queued", "received", "holding"}]  BY <1>0, <1>2 DEF TypeOK
  <2>5. on' \in [Operations -> Waits \cup {NoWait}]  BY <1>0, <1>2 DEF TypeOK
  <2>6. cancelled' \in [Operations -> BOOLEAN]  BY <1>0, <1>2 DEF TypeOK
  <2> QED  BY <2>1, <2>2, <2>3, <2>4, <2>5, <2>6 DEF TypeOK
<1>8. PointersAgree'
  <2> SUFFICES ASSUME NEW s \in Operations
               PROVE  IF pc'[s] = "idle" THEN on'[s] = NoWait
                                         ELSE on'[s] \in Waits /\ on'[s] = accounts'[UserOf[s]]
    BY DEF PointersAgree
  <2>1. CASE s = r  BY <1>0, <1>2, <2>1 DEF TypeOK
  <2>2. CASE s # r
    <3>1. pc'[s] = pc[s] /\ on'[s] = on[s]  BY <1>0, <1>2, <2>2 DEF TypeOK
    <3>2. CASE pc[s] = "idle"  BY <1>0, <3>1, <3>2 DEF PointersAgree
    <3>3. CASE pc[s] # "idle" /\ UserOf[s] # u
      BY <1>0, <1>2, <3>1, <3>3 DEF PointersAgree, TypeOK
    <3>4. CASE pc[s] # "idle" /\ UserOf[s] = u
      <4>1. on[s] = w  BY <1>0, <1>1, <3>4 DEF PointersAgree
      <4>2. accounts' = accounts  BY <1>2, <1>5, <2>2, <4>1
      <4> QED  BY <1>0, <3>1, <3>4, <4>2 DEF PointersAgree
    <3> QED  BY <3>2, <3>3, <3>4
  <2> QED  BY <2>1, <2>2
<1>9. ReferencesCount'
  <2> SUFFICES ASSUME NEW x \in Waits PROVE references'[x] = Cardinality(Holders(x)')
    BY DEF ReferencesCount, Holders
  <2>1. references[x] = Cardinality(Holders(x))  BY <1>0 DEF ReferencesCount
  <2>2. CASE x = w
    <3>1. Holders(x)' = {s \in Operations : on'[s] = w}  BY <2>2 DEF Holders
    <3> QED  BY <1>0, <1>2, <1>3, <2>1, <2>2, <3>1 DEF TypeOK
  <2>3. CASE x # w  BY <1>0, <1>2, <1>3, <2>1, <2>3 DEF TypeOK
  <2> QED  BY <2>2, <2>3
<1>10. EntriesInUse'
  <2> SUFFICES ASSUME NEW t \in Users, accounts'[t] # NoWait
               PROVE  /\ references'[accounts'[t]] > 0
                      /\ \A v \in Users : accounts'[v] = accounts'[t] => v = t
    BY DEF EntriesInUse
  <2>1. accounts'[t] = accounts[t] /\ accounts[t] \in Waits
    BY <1>0, <1>1, <1>2 DEF TypeOK
  <2>2. \A v \in Users : accounts'[v] = accounts[v] \/ accounts'[v] = NoWait
    BY <1>0, <1>1, <1>2 DEF TypeOK
  <2>3. \A v \in Users : accounts'[v] = accounts'[t] => v = t
    BY <1>0, <2>1, <2>2 DEF EntriesInUse
  <2>4. CASE accounts[t] = w
    <3>1. t = u  BY <1>0, <1>1, <2>4 DEF EntriesInUse
    <3>2. references[w] # 1  BY <1>0, <1>1, <1>2, <2>1, <2>4, <3>1 DEF TypeOK
    <3> QED  BY <1>0, <1>1, <1>2, <1>4, <2>1, <2>3, <2>4, <3>2 DEF TypeOK
  <2>5. CASE accounts[t] # w
    <3>1. references'[accounts[t]] = references[accounts[t]]
      BY <1>0, <1>2, <2>1, <2>5 DEF TypeOK
    <3> QED  BY <1>0, <2>1, <2>3, <3>1 DEF EntriesInUse
  <2> QED  BY <2>4, <2>5
<1>11. OneTurn'
  <2>1. \A x \in Waits : available'[x] <= 1
    BY <1>0, <1>1, <1>2, <1>6 DEF TypeOK, OneTurn
  <2>2. \A s \in Operations : Operating(s)' => s # r /\ Operating(s) /\ on'[s] = on[s]
    BY <1>0, <1>2 DEF TypeOK, Operating
  <2>3. \A s \in Operations : Operating(s) => on[s] \in Waits
    BY <1>0 DEF PointersAgree, Operating
  <2>4. \A s \in Operations : Operating(s)' => available'[on'[s]] = 0
    <3> SUFFICES ASSUME NEW s \in Operations, Operating(s)' PROVE available'[on[s]] = 0
      BY <2>2
    <3>1. Operating(s) /\ s # r /\ on[s] \in Waits /\ available[on[s]] = 0
      BY <1>0, <2>2, <2>3 DEF OneTurn
    <3>2. CASE acquired
      <4>1. on[s] # w  BY <1>0, <3>1, <3>2 DEF OneTurn
      <4> QED  BY <1>0, <1>2, <3>1, <3>2, <4>1 DEF TypeOK
    <3>3. CASE ~acquired  BY <1>2, <3>1, <3>3
    <3> QED  BY <3>2, <3>3
  <2> QED  BY <1>0, <2>1, <2>2, <2>4 DEF OneTurn
<1> QED  BY <1>7, <1>8, <1>9, <1>10, <1>11 DEF IInv

\* The actions that move an operation without touching the map.
LEMMA StayInv ==
    ASSUME IInv, NEW r \in Operations,
           Cancel(r) \/ Receive(r) \/ (Recheck(r) /\ ~cancelled[r])
    PROVE  IInv'
<1> USE QueueAssumption
<1>0. TypeOK /\ PointersAgree /\ ReferencesCount /\ EntriesInUse /\ OneTurn  BY DEF IInv
<1>1. /\ UNCHANGED <<accounts, references, on>>
      /\ pc[r] # "idle"
      /\ \A s \in Operations : (pc'[s] = "idle") <=> (pc[s] = "idle")
  BY <1>0 DEF Cancel, Receive, Recheck, Leave, Return, TypeOK
<1>2. PointersAgree' /\ EntriesInUse'  BY <1>0, <1>1 DEF PointersAgree, EntriesInUse
<1>3. ReferencesCount'  BY <1>0, <1>1 DEF ReferencesCount, Holders
<1>4. on[r] \in Waits  BY <1>0, <1>1 DEF PointersAgree
<1>5. CASE Cancel(r)
  <2>1. TypeOK'  BY <1>0, <1>5 DEF Cancel, TypeOK
  <2>2. OneTurn'  BY <1>0, <1>5 DEF Cancel, OneTurn, Operating
  <2> QED  BY <1>2, <1>3, <2>1, <2>2 DEF IInv
<1>6. CASE Receive(r)
  <2>1. available[on[r]] \in Nat /\ available[on[r]] <= 1 /\ available[on[r]] > 0
    BY <1>0, <1>4, <1>6 DEF Receive, TypeOK, OneTurn
  <2>2. available' = [available EXCEPT ![on[r]] = 0]
    <3>1. available[on[r]] - 1 = 0  BY <2>1
    <3>2. available' = [available EXCEPT ![on[r]] = available[on[r]] - 1]  BY <1>6 DEF Receive
    <3> QED  BY <3>1, <3>2
  <2>3. TypeOK'
    <3>1. pc' = [pc EXCEPT ![r] = "received"] /\ UNCHANGED cancelled  BY <1>6 DEF Receive
    <3> QED  BY <1>0, <1>1, <2>2, <3>1 DEF TypeOK
  <2>4. \A s \in Operations : Operating(s) => on[s] \in Waits /\ on[s] # on[r]
    BY <1>0, <2>1 DEF OneTurn, PointersAgree, Operating
  <2>5. \A s \in Operations : Operating(s)' => s = r \/ Operating(s)
    BY <1>0, <1>6 DEF Receive, TypeOK, Operating
  <2>6. \A x \in Waits : available'[x] <= 1 /\ (available[x] = 0 => available'[x] = 0)
    BY <1>0, <2>2 DEF OneTurn, TypeOK
  <2>7. available'[on[r]] = 0  BY <1>0, <1>4, <2>2 DEF TypeOK
  <2>8. OneTurn'
    BY <1>0, <1>1, <2>4, <2>5, <2>6, <2>7 DEF OneTurn
  <2> QED  BY <1>2, <1>3, <2>3, <2>8 DEF IInv
<1>7. CASE Recheck(r) /\ ~cancelled[r]
  <2>1. /\ pc[r] = "received"
        /\ pc' = [pc EXCEPT ![r] = "holding"]
        /\ UNCHANGED <<available, cancelled>>
    BY <1>7 DEF Recheck
  <2>2. TypeOK'  BY <1>0, <1>1, <2>1 DEF TypeOK
  <2>3. \A s \in Operations : Operating(s)' <=> Operating(s)
    BY <1>0, <2>1 DEF TypeOK, Operating
  <2>4. OneTurn'  BY <1>0, <1>1, <2>1, <2>3 DEF OneTurn
  <2> QED  BY <1>2, <1>3, <2>2, <2>4 DEF IInv
<1> QED  BY <1>5, <1>6, <1>7

LEMMA NextInv == IInv /\ [Next]_vars => IInv'
<1> SUFFICES ASSUME IInv, [Next]_vars PROVE IInv'  OBVIOUS
<1>1. CASE UNCHANGED vars
  BY <1>1 DEF vars, IInv, TypeOK, PointersAgree, ReferencesCount, Holders,
              EntriesInUse, OneTurn, Operating
<1>2. CASE Next
  <2>1. PICK r \in Operations :
            Cancel(r) \/ Enter(r) \/ Receive(r) \/ GiveUp(r) \/ Recheck(r) \/ Unlock(r)
    BY <1>2 DEF Next
  <2>2. CASE Enter(r)  BY <2>2, EnterInv
  <2>3. CASE GiveUp(r)
    <3>1. pc[r] = "queued" /\ ~Operating(r) /\ Leave(r, FALSE)  BY <2>3 DEF GiveUp, Operating
    <3> QED  BY <3>1, LeaveInv
  <2>4. CASE Unlock(r)
    <3>1. pc[r] = "holding" /\ Operating(r) /\ Leave(r, TRUE)  BY <2>4 DEF Unlock, Operating
    <3> QED  BY <3>1, LeaveInv
  <2>5. CASE Recheck(r) /\ cancelled[r]
    <3>1. pc[r] = "received" /\ Operating(r) /\ Leave(r, TRUE)  BY <2>5 DEF Recheck, Operating
    <3> QED  BY <3>1, LeaveInv
  <2>6. CASE Cancel(r) \/ Receive(r) \/ (Recheck(r) /\ ~cancelled[r])  BY <2>6, StayInv
  <2> QED  BY <2>1, <2>2, <2>3, <2>4, <2>5, <2>6
<1> QED  BY <1>1, <1>2

\* The inductive invariant of the queue holds in every reachable state.
THEOREM QueueInvariant == Spec => []IInv
<1> QED  BY InitInv, NextInv, PTL DEF Spec

\* waitRelayWallet's state is well typed: counters never go below zero.
THEOREM QueueTypeOK == Spec => []TypeOK
<1>1. IInv => TypeOK  BY DEF IInv
<1> QED  BY <1>1, QueueInvariant, PTL

\* Two operations of one user never pass the queue together, however the map
\* entry was dropped and created again in between.
THEOREM QueueExcludes == Spec => []OneTurnPerUser
<1>1. IInv => OneTurnPerUser
  <2> SUFFICES ASSUME IInv, NEW r \in Operations, NEW s \in Operations,
                      UserOf[r] = UserOf[s], Operating(r), Operating(s)
               PROVE  r = s
    BY DEF OneTurnPerUser
  <2>1. on[r] = on[s]  BY DEF IInv, PointersAgree, Operating
  <2> QED  BY <2>1 DEF IInv, OneTurn
<1> QED  BY <1>1, QueueInvariant, PTL

\* The send in leave finds the channel empty, so it never blocks while the
\* global mutex is held.
THEOREM QueueSendNeverBlocks == Spec => []SendNeverBlocks
<1>1. IInv => SendNeverBlocks  BY DEF IInv, OneTurn, SendNeverBlocks
<1> QED  BY <1>1, QueueInvariant, PTL

\* The map holds a user's entry exactly while the user has operations under way.
THEOREM QueueEntries == Spec => []EntryWhileReferenced
<1>1. IInv => EntryWhileReferenced
  <2> SUFFICES ASSUME IInv, NEW u \in Users
               PROVE  LET mine == {r \in Operations : UserOf[r] = u /\ pc[r] # "idle"} IN
                      /\ (accounts[u] = NoWait) <=> (mine = {})
                      /\ \A r \in mine : on[r] = accounts[u]
    BY DEF EntryWhileReferenced
  <2>0. TypeOK /\ PointersAgree /\ ReferencesCount /\ EntriesInUse  BY DEF IInv
  <2> DEFINE mine == {r \in Operations : UserOf[r] = u /\ pc[r] # "idle"}
  <2>1. \A r \in mine : on[r] = accounts[u] /\ on[r] \in Waits
    BY <2>0 DEF PointersAgree
  <2>2. mine # {} => accounts[u] # NoWait  BY <2>1, QueueAssumption
  <2>3. ASSUME accounts[u] # NoWait PROVE mine # {}
    <3>1. accounts[u] \in Waits /\ Cardinality(Holders(accounts[u])) > 0
      BY <2>0, <2>3 DEF TypeOK, EntriesInUse, ReferencesCount
    <3>2. Holders(accounts[u]) # {}  BY <3>1, FS_EmptySet
    <3>3. PICK r \in Operations : on[r] = accounts[u]  BY <3>2 DEF Holders
    <3>4. pc[r] # "idle" /\ accounts[UserOf[r]] = accounts[u]
      BY <2>0, <3>1, <3>3, QueueAssumption DEF PointersAgree
    <3>5. UserOf[r] = u  BY <2>0, <2>3, <3>4, QueueAssumption DEF EntriesInUse
    <3> QED  BY <3>4, <3>5
  <2> QED  BY <2>1, <2>2, <2>3
<1> QED  BY <1>1, QueueInvariant, PTL
=============================================================================
