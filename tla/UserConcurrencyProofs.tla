------------------------ MODULE UserConcurrencyProofs ------------------------
(***************************************************************************)
(* The gate on a user's concurrent requests admits at most Limit of them,  *)
(* for every number of requests and all durations with                     *)
(* TTL > RenewInterval + 2 * Timeout.                                      *)
(***************************************************************************)
EXTENDS UserConcurrency, FiniteSetTheorems, TLAPS

\* What the gateway is waiting for follows from how far the request has come.
PhaseOp(r) ==
    /\ phase[r] = "reserving" <=> op[r] = "reserve"
    /\ op[r] = "renew" => phase[r] \in {"running", "stopping"}
    /\ op[r] = "release" => phase[r] = "releasing"
    /\ op[r] = "none" => reply[r] = "none"

\* A release is on its way only for a request that is through.
ReleaseLate(r) ==
    \A n \in Tries : <<r, "release", n>> \in wire => phase[r] \in {"releasing", "done"}

\* No command is waited for longer than its deadline, no ticker is late.
OnTime(r) ==
    /\ Waiting(r) => clock[r] <= Timeout
    /\ Ticking(r) => clock[r] <= RenewInterval

\* How much of its lease a request that is, or is about to be, running has
\* at least: TTL at the moment the script ran, less the time since.
Leased(r) ==
    /\ reply[r] = "yes" /\ op[r] \in {"reserve", "renew"} =>
          r \in members /\ life[r] + clock[r] >= TTL
    /\ phase[r] = "running" /\ op[r] = "none" =>
          r \in members /\ life[r] + clock[r] + Timeout >= TTL
    /\ phase[r] = "running" /\ op[r] = "renew" =>
          r \in members /\ life[r] + clock[r] + Timeout + RenewInterval >= TTL

\* The sorted set never holds more tokens than the limit, and it lives as long
\* as each of them.
SetBounded ==
    /\ Cardinality(members) <= Limit
    /\ \A r \in members : life[r] <= keyLife

\* The inductive invariant.
Inv ==
    /\ TypeOK
    /\ SetBounded
    /\ \A r \in Requests : PhaseOp(r) /\ ReleaseLate(r) /\ OnTime(r) /\ Leased(r)

USE GateAssumption

\* The gate starts empty.
LEMMA InitInv == Init => Inv
  <1> SUFFICES ASSUME Init PROVE Inv
    OBVIOUS
  <1>1. TypeOK
    BY DEF Init, TypeOK, Phases, Commands, Tries
  <1>2. SetBounded
    BY FS_EmptySet DEF Init, SetBounded
  <1>3. ASSUME NEW r \in Requests PROVE PhaseOp(r) /\ ReleaseLate(r) /\ OnTime(r) /\ Leased(r)
    BY DEF Init, PhaseOp, ReleaseLate, OnTime, Leased, Waiting, Ticking
  <1> QED
    BY <1>1, <1>2, <1>3 DEF Inv

\* Every action but Tick is one request's, and leaves the others' state and
\* their place in the set as they are.
Others(r) ==
    \A x \in Requests \ {r} :
        /\ phase'[x] = phase[x] /\ op'[x] = op[x] /\ attempt'[x] = attempt[x]
        /\ clock'[x] = clock[x] /\ reply'[x] = reply[x]
        /\ \A n \in Tries : <<x, "release", n>> \in wire' => <<x, "release", n>> \in wire
        /\ life'[x] = life[x]
        /\ x \in members /\ life[x] > 0 => x \in members'

\* The facts about a request that the step of another does not touch.
LEMMA OthersKept ==
    ASSUME Inv, NEW r \in Requests, Others(r), NEW x \in Requests \ {r}
    PROVE  PhaseOp(x)' /\ ReleaseLate(x)' /\ OnTime(x)' /\ Leased(x)'
  <1>1. PhaseOp(x) /\ ReleaseLate(x) /\ OnTime(x) /\ Leased(x)
    BY DEF Inv
  <1>2. life[x] \in Nat /\ clock[x] \in Nat /\ op[x] \in Commands \union {"none"}
    BY DEF Inv, TypeOK
  <1>3. PhaseOp(x)'
    BY <1>1 DEF PhaseOp, Others
  <1>4. ReleaseLate(x)'
    BY <1>1 DEF ReleaseLate, Others
  <1>5. OnTime(x)'
    BY <1>1 DEF OnTime, Others, Waiting, Ticking
  <1>6. Leased(x)'
    BY <1>1, <1>2 DEF Leased, Others, OnTime, Waiting, Ticking
  <1> QED
    BY <1>3, <1>4, <1>5, <1>6

\* So a step of r's preserves the invariant if it does so for r.
LEMMA OneRequest ==
    ASSUME Inv, NEW r \in Requests, Others(r), TypeOK', SetBounded',
           PhaseOp(r)', ReleaseLate(r)', OnTime(r)', Leased(r)'
    PROVE  Inv'
  BY OthersKept DEF Inv

(***************************************************************************)
(* The gateway's steps.                                                    *)
(***************************************************************************)

\* TryBeginUserRequest sends the first try.
LEMMA TryBeginInv ==
    ASSUME Inv, NEW r \in Requests, TryBeginUserRequest(r) PROVE Inv'
  <1>1. Others(r) /\ TypeOK'
    BY DEF TryBeginUserRequest, Send, Others, Inv, TypeOK, Phases, Commands, Tries, Redis
  <1>2. SetBounded'
    BY DEF TryBeginUserRequest, Send, Inv, SetBounded, Redis
  <1>3. PhaseOp(r)' /\ ReleaseLate(r)'
    BY DEF TryBeginUserRequest, Send, Inv, TypeOK, Commands, Phases, PhaseOp, ReleaseLate, Redis
  <1>4. OnTime(r)' /\ Leased(r)'
    BY DEF TryBeginUserRequest, Send, Inv, TypeOK, Commands, Phases, PhaseOp, OnTime, Leased, Waiting, Ticking, Redis
  <1> QED
    BY <1>1, <1>2, <1>3, <1>4, OneRequest

\* An admitted request has its lease when it starts to run.
LEMMA ReserveAnsweredInv ==
    ASSUME Inv, NEW r \in Requests, ReserveAnswered(r) PROVE Inv'
  <1>1. Others(r) /\ TypeOK'
    BY DEF ReserveAnswered, Returned, Others, Inv, TypeOK, Phases, Commands, Tries, Redis
  <1>2. SetBounded'
    BY DEF ReserveAnswered, Returned, Inv, SetBounded, Redis
  <1>3. PhaseOp(r)' /\ ReleaseLate(r)'
    BY DEF ReserveAnswered, Returned, Inv, TypeOK, Commands, Phases, PhaseOp, ReleaseLate, Redis
  <1>4. OnTime(r)' /\ Leased(r)'
    BY DEF ReserveAnswered, Returned, Inv, TypeOK, Commands, Phases, PhaseOp, OnTime, Leased, Waiting, Ticking, Redis
  <1> QED
    BY <1>1, <1>2, <1>3, <1>4, OneRequest

\* A reservation that fails starts nothing.
LEMMA ReserveFailsInv ==
    ASSUME Inv, NEW r \in Requests, ReserveFails(r) PROVE Inv'
  <1>1. Others(r) /\ TypeOK'
    BY DEF ReserveFails, Send, Returned, Others, Inv, TypeOK, Phases, Commands, Tries, Redis
  <1>2. SetBounded'
    BY DEF ReserveFails, Send, Returned, Inv, SetBounded, Redis
  <1>3. PhaseOp(r)' /\ ReleaseLate(r)'
    BY DEF ReserveFails, Send, Returned, Inv, TypeOK, Commands, Phases, PhaseOp, ReleaseLate, Redis
  <1>4. OnTime(r)' /\ Leased(r)'
    BY DEF ReserveFails, Send, Returned, Inv, TypeOK, Commands, Phases, PhaseOp, OnTime, Leased, Waiting, Ticking, Redis
  <1> QED
    BY <1>1, <1>2, <1>3, <1>4, OneRequest

\* A renewal is sent while enough of the lease is left.
LEMMA RenewTickInv ==
    ASSUME Inv, NEW r \in Requests, RenewTick(r) PROVE Inv'
  <1>1. Others(r) /\ TypeOK'
    BY DEF RenewTick, Send, Others, Inv, TypeOK, Phases, Commands, Tries, Redis
  <1>2. SetBounded'
    BY DEF RenewTick, Send, Inv, SetBounded, Redis
  <1>3. PhaseOp(r)' /\ ReleaseLate(r)'
    BY DEF RenewTick, Send, Inv, TypeOK, Commands, Phases, PhaseOp, ReleaseLate, Redis
  <1>4. OnTime(r)' /\ Leased(r)'
    BY DEF RenewTick, Send, Inv, TypeOK, Commands, Phases, PhaseOp, OnTime, Leased, Waiting, Ticking, Redis
  <1> QED
    BY <1>1, <1>2, <1>3, <1>4, OneRequest

\* A confirmed renewal leaves a fresh lease, any other ends the run.
LEMMA RenewAnsweredInv ==
    ASSUME Inv, NEW r \in Requests, RenewAnswered(r) PROVE Inv'
  <1>1. Others(r) /\ TypeOK'
    BY DEF RenewAnswered, LeaseLost, Returned, Others, Inv, TypeOK, Phases, Commands, Tries, Redis
  <1>2. SetBounded'
    BY DEF RenewAnswered, LeaseLost, Returned, Inv, SetBounded, Redis
  <1>3. PhaseOp(r)' /\ ReleaseLate(r)'
    BY DEF RenewAnswered, LeaseLost, Returned, Inv, TypeOK, Commands, Phases, PhaseOp, ReleaseLate, Redis
  <1>4. OnTime(r)' /\ Leased(r)'
    BY DEF RenewAnswered, LeaseLost, Returned, Inv, TypeOK, Commands, Phases, PhaseOp, OnTime, Leased, Waiting, Ticking, Redis
  <1> QED
    BY <1>1, <1>2, <1>3, <1>4, OneRequest

\* An unconfirmed renewal ends the run.
LEMMA RenewFailsInv ==
    ASSUME Inv, NEW r \in Requests, RenewFails(r) PROVE Inv'
  <1>1. Others(r) /\ TypeOK'
    BY DEF RenewFails, LeaseLost, Returned, Others, Inv, TypeOK, Phases, Commands, Tries, Redis
  <1>2. SetBounded'
    BY DEF RenewFails, LeaseLost, Returned, Inv, SetBounded, Redis
  <1>3. PhaseOp(r)' /\ ReleaseLate(r)'
    BY DEF RenewFails, LeaseLost, Returned, Inv, TypeOK, Commands, Phases, PhaseOp, ReleaseLate, Redis
  <1>4. OnTime(r)' /\ Leased(r)'
    BY DEF RenewFails, LeaseLost, Returned, Inv, TypeOK, Commands, Phases, PhaseOp, OnTime, Leased, Waiting, Ticking, Redis
  <1> QED
    BY <1>1, <1>2, <1>3, <1>4, OneRequest

\* The handler is through.
LEMMA EndRequestInv ==
    ASSUME Inv, NEW r \in Requests, EndRequest(r) PROVE Inv'
  <1>1. Others(r) /\ TypeOK'
    BY DEF EndRequest, Others, Inv, TypeOK, Phases, Commands, Tries, Redis
  <1>2. SetBounded'
    BY DEF EndRequest, Inv, SetBounded, Redis
  <1>3. PhaseOp(r)' /\ ReleaseLate(r)'
    BY DEF EndRequest, Inv, TypeOK, Commands, Phases, PhaseOp, ReleaseLate, Redis
  <1>4. OnTime(r)' /\ Leased(r)'
    BY DEF EndRequest, Inv, TypeOK, Commands, Phases, PhaseOp, OnTime, Leased, Waiting, Ticking, Redis
  <1> QED
    BY <1>1, <1>2, <1>3, <1>4, OneRequest

\* The release is sent after the run.
LEMMA ReleaseLeaseInv ==
    ASSUME Inv, NEW r \in Requests, ReleaseLease(r) PROVE Inv'
  <1>1. Others(r) /\ TypeOK'
    BY DEF ReleaseLease, Send, Others, Inv, TypeOK, Phases, Commands, Tries, Redis
  <1>2. SetBounded'
    BY DEF ReleaseLease, Send, Inv, SetBounded, Redis
  <1>3. PhaseOp(r)' /\ ReleaseLate(r)'
    BY DEF ReleaseLease, Send, Inv, TypeOK, Commands, Phases, PhaseOp, ReleaseLate, Redis
  <1>4. OnTime(r)' /\ Leased(r)'
    BY DEF ReleaseLease, Send, Inv, TypeOK, Commands, Phases, PhaseOp, OnTime, Leased, Waiting, Ticking, Redis
  <1> QED
    BY <1>1, <1>2, <1>3, <1>4, OneRequest

\* Nothing is done about the answer to a release.
LEMMA ReleaseEndsInv ==
    ASSUME Inv, NEW r \in Requests, ReleaseEnds(r) PROVE Inv'
  <1>1. Others(r) /\ TypeOK'
    BY DEF ReleaseEnds, Returned, Others, Inv, TypeOK, Phases, Commands, Tries, Redis
  <1>2. SetBounded'
    BY DEF ReleaseEnds, Returned, Inv, SetBounded, Redis
  <1>3. PhaseOp(r)' /\ ReleaseLate(r)'
    BY DEF ReleaseEnds, Returned, Inv, TypeOK, Commands, Phases, PhaseOp, ReleaseLate, Redis
  <1>4. OnTime(r)' /\ Leased(r)'
    BY DEF ReleaseEnds, Returned, Inv, TypeOK, Commands, Phases, PhaseOp, OnTime, Leased, Waiting, Ticking, Redis
  <1> QED
    BY <1>1, <1>2, <1>3, <1>4, OneRequest

\* A dead process runs nothing.
LEMMA CrashInv ==
    ASSUME Inv, NEW r \in Requests, Crash(r) PROVE Inv'
  <1>1. Others(r) /\ TypeOK'
    BY DEF Crash, Returned, Others, Inv, TypeOK, Phases, Commands, Tries, Redis
  <1>2. SetBounded'
    BY DEF Crash, Returned, Inv, SetBounded, Redis
  <1>3. PhaseOp(r)' /\ ReleaseLate(r)'
    BY DEF Crash, Returned, Inv, TypeOK, Commands, Phases, PhaseOp, ReleaseLate, Redis
  <1>4. OnTime(r)' /\ Leased(r)'
    BY DEF Crash, Returned, Inv, TypeOK, Commands, Phases, PhaseOp, OnTime, Leased, Waiting, Ticking, Redis
  <1> QED
    BY <1>1, <1>2, <1>3, <1>4, OneRequest

(***************************************************************************)
(* The scripts, a lost command and time.                                   *)
(***************************************************************************)

\* The tokens of the set that are not expired are no more than those in it.
LEMMA UnexpiredFinite ==
    ASSUME Inv
    PROVE  /\ IsFiniteSet(members) /\ IsFiniteSet(Unexpired)
           /\ Cardinality(members) \in Nat /\ Cardinality(Unexpired) \in Nat
           /\ Cardinality(Unexpired) <= Cardinality(members)
  <1>1. members \subseteq Requests /\ Unexpired \subseteq members
    BY DEF Inv, TypeOK, Unexpired
  <1>2. IsFiniteSet(members) /\ IsFiniteSet(Unexpired)
    BY <1>1, FS_Subset
  <1> QED
    BY <1>1, <1>2, FS_Subset, FS_CardinalityType

\* A reservation, the first time or again, on time or not.
LEMMA RunReserveInv ==
    ASSUME Inv, NEW r \in Requests, NEW n \in Tries, RunReserve(r, n) PROVE Inv'
  <1> DEFINE admitted == r \in Unexpired \/ Room(Unexpired)
  <1>1. Others(r) /\ TypeOK'
    BY DEF RunReserve, Run, Answer, Others, Unexpired, Inv, TypeOK, Commands, Tries
  <1>2. Cardinality(members') <= Limit
    <2>1. CASE r \in Unexpired
      <3>1. members' = Unexpired
        BY <2>1 DEF RunReserve
      <3> QED
        BY <3>1, UnexpiredFinite DEF Inv, SetBounded
    <2>2. CASE r \notin Unexpired /\ Room(Unexpired)
      <3>1. members' = Unexpired \union {r}
        BY <2>2 DEF RunReserve
      <3>2. Cardinality(Unexpired \union {r}) = Cardinality(Unexpired) + 1
        BY <2>2, UnexpiredFinite, FS_AddElement
      <3> QED
        BY <2>2, <3>1, <3>2, UnexpiredFinite DEF Room
    <2>3. CASE ~admitted
      <3>1. members' = Unexpired
        BY <2>3 DEF RunReserve
      <3> QED
        BY <3>1, UnexpiredFinite DEF Inv, SetBounded
    <2> QED
      BY <2>1, <2>2, <2>3
  <1>3. \A x \in members' : life'[x] <= keyLife'
    BY DEF RunReserve, Unexpired, Inv, SetBounded, TypeOK
  <1>4. PhaseOp(r)' /\ ReleaseLate(r)' /\ OnTime(r)'
    BY DEF RunReserve, Run, Answer, Inv, TypeOK, Commands, PhaseOp, ReleaseLate, OnTime, Waiting, Ticking
  <1>5. Leased(r)'
    BY DEF RunReserve, Run, Answer, Unexpired, Inv, TypeOK, Commands, PhaseOp, OnTime, Leased, Waiting, Ticking
  <1> QED
    BY <1>1, <1>2, <1>3, <1>4, <1>5, OneRequest DEF SetBounded

\* A renewal that Redis runs, on time or not.
LEMMA RunRenewInv ==
    ASSUME Inv, NEW r \in Requests, RunRenew(r) PROVE Inv'
  <1>1. Others(r) /\ TypeOK'
    BY DEF RunRenew, Run, Answer, Others, Inv, TypeOK, Commands, Tries
  <1>2. SetBounded'
    BY DEF RunRenew, Inv, SetBounded, TypeOK
  <1>3. PhaseOp(r)' /\ ReleaseLate(r)' /\ OnTime(r)'
    BY DEF RunRenew, Run, Answer, Inv, TypeOK, Commands, PhaseOp, ReleaseLate, OnTime, Waiting, Ticking
  <1>4. Leased(r)'
    BY DEF RunRenew, Run, Answer, Inv, TypeOK, Commands, PhaseOp, OnTime, Leased, Waiting, Ticking
  <1> QED
    BY <1>1, <1>2, <1>3, <1>4, OneRequest

\* Only a request that is through loses its token to a release.
LEMMA RunReleaseInv ==
    ASSUME Inv, NEW r \in Requests, RunRelease(r) PROVE Inv'
  <1>1. Others(r) /\ TypeOK'
    BY DEF RunRelease, Run, Answer, Others, Inv, TypeOK, Commands, Tries
  <1>2. SetBounded'
    <2>1. Cardinality(members') <= Cardinality(members) /\ Cardinality(members') \in Nat
      BY UnexpiredFinite, FS_Subset, FS_CardinalityType DEF RunRelease
    <2> QED
      BY <2>1, UnexpiredFinite DEF RunRelease, Inv, SetBounded, TypeOK
  <1>3. PhaseOp(r)' /\ ReleaseLate(r)' /\ OnTime(r)'
    BY DEF RunRelease, Run, Answer, Inv, TypeOK, Commands, PhaseOp, ReleaseLate, OnTime, Waiting, Ticking
  <1>4. phase[r] \in {"releasing", "done"}
    BY DEF RunRelease, Run, Inv, ReleaseLate, Tries
  <1>5. Leased(r)'
    BY <1>4 DEF RunRelease, Run, Answer, Inv, TypeOK, Commands, PhaseOp, Leased
  <1> QED
    BY <1>1, <1>2, <1>3, <1>5, OneRequest

\* A lost command changes nothing else.
LEMMA LostInv == Inv /\ Lost => Inv'
  <1> SUFFICES ASSUME Inv, Lost PROVE Inv'
    OBVIOUS
  <1>1. TypeOK' /\ SetBounded'
    BY DEF Lost, Redis, Inv, TypeOK, SetBounded
  <1>2. ASSUME NEW r \in Requests PROVE (PhaseOp(r) /\ ReleaseLate(r) /\ OnTime(r) /\ Leased(r))'
    BY DEF Lost, Redis, Inv, PhaseOp, ReleaseLate, OnTime, Leased, Waiting, Ticking
  <1> QED
    BY <1>1, <1>2 DEF Inv

\* What a lease loses, its request's clock gains.
LEMMA TickInv == Inv /\ Tick => Inv'
  <1> SUFFICES ASSUME Inv, Tick PROVE Inv'
    OBVIOUS
  <1>1. TypeOK'
    BY DEF Tick, Inv, TypeOK
  <1>2. SetBounded'
    BY FS_EmptySet DEF Tick, Inv, TypeOK, SetBounded
  <1>3. ASSUME NEW r \in Requests PROVE (PhaseOp(r) /\ ReleaseLate(r) /\ OnTime(r) /\ Leased(r))'
    <2>1. PhaseOp(r)' /\ ReleaseLate(r)'
      BY DEF Tick, Inv, PhaseOp, ReleaseLate
    <2>2. OnTime(r)'
      BY DEF Tick, Due, Inv, TypeOK, OnTime, Waiting, Ticking
    <2>3. Leased(r)'
      BY DEF Tick, Due, Inv, TypeOK, SetBounded, OnTime, Leased, Waiting, Ticking
    <2> QED
      BY <2>1, <2>2, <2>3
  <1> QED
    BY <1>1, <1>2, <1>3 DEF Inv

(***************************************************************************)
(* The theorems.                                                           *)
(***************************************************************************)

\* The invariant holds in every state of the gate.
THEOREM GateInvariant == Spec => []Inv
  <1>1. Inv /\ [Next]_vars => Inv'
    <2> SUFFICES ASSUME Inv, [Next]_vars PROVE Inv'
      OBVIOUS
    <2>1. CASE UNCHANGED vars
      BY <2>1 DEF vars, Inv, TypeOK, SetBounded, PhaseOp, ReleaseLate, OnTime, Leased, Waiting, Ticking
    <2>2. ASSUME NEW r \in Requests,
                 TryBeginUserRequest(r) \/ ReserveAnswered(r) \/ ReserveFails(r)
          PROVE  Inv'
      BY <2>2, TryBeginInv, ReserveAnsweredInv, ReserveFailsInv
    <2>3. ASSUME NEW r \in Requests, RenewTick(r) \/ RenewAnswered(r) \/ RenewFails(r)
          PROVE  Inv'
      BY <2>3, RenewTickInv, RenewAnsweredInv, RenewFailsInv
    <2>4. ASSUME NEW r \in Requests,
                 EndRequest(r) \/ ReleaseLease(r) \/ ReleaseEnds(r) \/ Crash(r)
          PROVE  Inv'
      BY <2>4, EndRequestInv, ReleaseLeaseInv, ReleaseEndsInv, CrashInv
    <2>5. ASSUME NEW r \in Requests,
                 (\E n \in Tries : RunReserve(r, n)) \/ RunRenew(r) \/ RunRelease(r)
          PROVE  Inv'
      BY <2>5, RunReserveInv, RunRenewInv, RunReleaseInv
    <2> QED
      BY <2>1, <2>2, <2>3, <2>4, <2>5, LostInv, TickInv DEF Next
  <1> QED
    BY <1>1, InitInv, PTL DEF Spec

\* The variables keep their types; a reservation is tried no more than
\* Attempts times.
THEOREM GateTypes == Spec => []TypeOK
  <1>1. Inv => TypeOK
    BY DEF Inv
  <1> QED
    BY <1>1, GateInvariant, PTL

\* TryBeginUserRequest: no more than Limit requests of the user run at once,
\* whatever is lost, late, retried or dead.
THEOREM LimitKept == Spec => []WithinLimit
  <1>1. Inv => WithinLimit
    <2> SUFFICES ASSUME Inv PROVE WithinLimit
      OBVIOUS
    <2>1. Running \subseteq members
      BY DEF Running, Inv, TypeOK, PhaseOp, Leased, Commands
    <2>2. Cardinality(Running) <= Cardinality(members) /\ Cardinality(Running) \in Nat
      BY <2>1, UnexpiredFinite, FS_Subset, FS_CardinalityType
    <2> QED
      BY <2>2, UnexpiredFinite DEF WithinLimit, Inv, SetBounded
  <1> QED
    BY <1>1, GateInvariant, PTL
=============================================================================
