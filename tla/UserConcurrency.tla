--------------------------- MODULE UserConcurrency ---------------------------
(***************************************************************************)
(* The gate on the concurrent requests of one user: a lease per request in *)
(* a Redis sorted set shared by every gateway process.  Each command is a  *)
(* script that runs in one step on Redis, some time after it was sent, at  *)
(* times after its sender has given up on it; the answer may be lost.      *)
(* A lease is renewed by a goroutine, and a request whose renewal fails is *)
(* cancelled.  Time is counted in steps, the same for Redis and gateways.  *)
(***************************************************************************)
EXTENDS Naturals, FiniteSets

CONSTANTS
    Requests,        \* requests of the user, each with its own token
    Limit,           \* how many may run at once
    TTL,             \* channelConcurrencyLeaseTTL
    RenewInterval,   \* channelConcurrencyRenewInterval
    Timeout,         \* channelConcurrencyGateOperationTimeout
    Attempts         \* tries of a reservation

ASSUME GateAssumption ==
    /\ IsFiniteSet(Requests)
    /\ Limit \in Nat \ {0} /\ Attempts \in Nat \ {0}
    /\ TTL \in Nat /\ RenewInterval \in Nat /\ Timeout \in Nat
    /\ TTL > RenewInterval + 2 * Timeout

VARIABLES
    phase,     \* phase[r]: how far request r has come
    op,        \* op[r]: the command its gateway is waiting for
    attempt,   \* attempt[r]: which try of the reservation
    clock,     \* clock[r]: time since the command was sent, or since the last ended
    reply,     \* reply[r]: the answer that has come back
    wire,      \* <<r, command, try>>: sent and not run yet
    members,   \* the tokens in the sorted set, expired ones until they are purged
    life,      \* life[r]: what is left of the score of r's token
    keyLife    \* what is left of the expiry of the whole set

vars == <<phase, op, attempt, clock, reply, wire, members, life, keyLife>>

Phases == {"new", "reserving", "running", "cancelled", "stopping", "releasing", "done"}
Commands == {"reserve", "renew", "release"}
Tries == 1..Attempts

TypeOK ==
    /\ phase \in [Requests -> Phases]
    /\ op \in [Requests -> Commands \union {"none"}]
    /\ attempt \in [Requests -> Tries]
    /\ clock \in [Requests -> Nat]
    /\ reply \in [Requests -> {"none", "yes", "no"}]
    /\ wire \in SUBSET (Requests \X Commands \X Tries)
    /\ members \in SUBSET Requests
    /\ life \in [Requests -> 0..TTL]
    /\ keyLife \in 0..TTL

Init ==
    /\ phase = [r \in Requests |-> "new"]
    /\ op = [r \in Requests |-> "none"]
    /\ attempt = [r \in Requests |-> 1]
    /\ clock = [r \in Requests |-> 0]
    /\ reply = [r \in Requests |-> "none"]
    /\ wire = {}
    /\ members = {}
    /\ life = [r \in Requests |-> 0]
    /\ keyLife = 0

(***************************************************************************)
(* Sending and awaiting a command.                                         *)
(***************************************************************************)

Send(r, command, n) ==
    /\ op' = [op EXCEPT ![r] = command]
    /\ attempt' = [attempt EXCEPT ![r] = n]
    /\ clock' = [clock EXCEPT ![r] = 0]
    /\ reply' = [reply EXCEPT ![r] = "none"]
    /\ wire' = wire \union {<<r, command, n>>}

\* The command is over for its sender.
Returned(r) ==
    /\ op' = [op EXCEPT ![r] = "none"]
    /\ clock' = [clock EXCEPT ![r] = 0]
    /\ reply' = [reply EXCEPT ![r] = "none"]
    /\ UNCHANGED <<attempt, wire>>

Redis == <<members, life, keyLife>>

TryBeginUserRequest(r) ==
    /\ phase[r] = "new"
    /\ phase' = [phase EXCEPT ![r] = "reserving"]
    /\ Send(r, "reserve", 1)
    /\ UNCHANGED Redis

\* Admitted, or the limit is reached.
ReserveAnswered(r) ==
    /\ op[r] = "reserve" /\ reply[r] # "none"
    /\ phase' = [phase EXCEPT ![r] = IF reply[r] = "yes" THEN "running" ELSE "done"]
    /\ Returned(r)
    /\ UNCHANGED Redis

\* An error: another try with the same token, or the request is turned away
\* and nobody holds what the command may yet reserve.
ReserveFails(r) ==
    /\ op[r] = "reserve" /\ reply[r] = "none"
    /\ \/ /\ attempt[r] < Attempts
          /\ Send(r, "reserve", attempt[r] + 1)
          /\ UNCHANGED phase
       \/ /\ attempt[r] = Attempts
          /\ Returned(r)
          /\ phase' = [phase EXCEPT ![r] = "done"]
    /\ UNCHANGED Redis

\* The goroutine's ticker; a tick may win against the stop channel.
RenewTick(r) ==
    /\ phase[r] \in {"running", "stopping"} /\ op[r] = "none"
    /\ clock[r] + Timeout >= RenewInterval
    /\ Send(r, "renew", 1)
    /\ UNCHANGED <<phase, Redis>>

\* Variant: an error is only reported, as the channel's gate does.
KeepsRunning(r) == UNCHANGED phase

\* The lease is lost, or may be: the request's context is cancelled and the
\* goroutine is over.
LeaseLost(r) == phase' = [phase EXCEPT ![r] = "cancelled"]

RenewAnswered(r) ==
    /\ op[r] = "renew" /\ reply[r] # "none"
    /\ IF reply[r] = "yes" THEN UNCHANGED phase ELSE LeaseLost(r)
    /\ Returned(r)
    /\ UNCHANGED Redis

RenewFails(r) ==
    /\ op[r] = "renew" /\ reply[r] = "none"
    /\ LeaseLost(r)
    /\ Returned(r)
    /\ UNCHANGED Redis

\* The handler is through and tells the goroutine to stop.
EndRequest(r) ==
    /\ phase[r] = "running"
    /\ phase' = [phase EXCEPT ![r] = "stopping"]
    /\ UNCHANGED <<op, attempt, clock, reply, wire, Redis>>

\* It has stopped, now or when the lease was lost: the lease is released.
ReleaseLease(r) ==
    /\ phase[r] \in {"stopping", "cancelled"} /\ op[r] = "none"
    /\ phase' = [phase EXCEPT ![r] = "releasing"]
    /\ Send(r, "release", 1)
    /\ UNCHANGED Redis

\* Answered or not, nothing more is done about it.
ReleaseEnds(r) ==
    /\ op[r] = "release"
    /\ phase' = [phase EXCEPT ![r] = "done"]
    /\ Returned(r)
    /\ UNCHANGED Redis

\* The gateway process dies.
Crash(r) ==
    /\ phase[r] \notin {"new", "done"}
    /\ phase' = [phase EXCEPT ![r] = "done"]
    /\ Returned(r)
    /\ UNCHANGED Redis

(***************************************************************************)
(* Redis.                                                                  *)
(***************************************************************************)

\* The answer reaches the sender, unless it is lost or no longer awaited.
Answer(r, command, n, yes) ==
    \/ /\ op[r] = command /\ attempt[r] = n
       /\ reply' = [reply EXCEPT ![r] = IF yes THEN "yes" ELSE "no"]
    \/ UNCHANGED reply

Run(r, command, n) ==
    /\ <<r, command, n>> \in wire
    /\ wire' = wire \ {<<r, command, n>>}
    /\ UNCHANGED <<phase, op, attempt, clock>>

Unexpired == {r \in members : life[r] > 0}

Room(held) == Cardinality(held) < Limit

\* channelConcurrencyReserveScript: purge; a token that is there is renewed.
RunReserve(r, n) ==
    /\ Run(r, "reserve", n)
    /\ LET admitted == r \in Unexpired \/ Room(Unexpired)
       IN /\ members' = IF admitted THEN Unexpired \union {r} ELSE Unexpired
          /\ life' = IF admitted THEN [life EXCEPT ![r] = TTL] ELSE life
          /\ keyLife' = IF admitted THEN TTL ELSE keyLife
          /\ Answer(r, "reserve", n, admitted)

\* channelConcurrencyRenewScript: a token that is there, even an expired one
\* that no reservation has purged.
RunRenew(r) ==
    /\ Run(r, "renew", 1)
    /\ life' = IF r \in members THEN [life EXCEPT ![r] = TTL] ELSE life
    /\ keyLife' = IF r \in members THEN TTL ELSE keyLife
    /\ UNCHANGED members
    /\ Answer(r, "renew", 1, r \in members)

\* channelConcurrencyReleaseScript.
RunRelease(r) ==
    /\ Run(r, "release", 1)
    /\ members' = members \ {r}
    /\ UNCHANGED <<life, keyLife>>
    /\ Answer(r, "release", 1, r \in members)

\* A command never arrives.
Lost ==
    /\ \E w \in wire : wire' = wire \ {w}
    /\ UNCHANGED <<phase, op, attempt, clock, reply, Redis>>

(***************************************************************************)
(* Time passes.  A context's deadline and a ticker fire when they are due; *)
(* the key expires, with all its tokens, TTL after the last of them was    *)
(* written.                                                                *)
(***************************************************************************)

Waiting(r) == op[r] # "none"
Ticking(r) == phase[r] = "running" /\ op[r] = "none"
Due(r) ==
    \/ Waiting(r) /\ clock[r] >= Timeout
    \/ Ticking(r) /\ clock[r] >= RenewInterval
    \/ phase[r] = "stopping" /\ op[r] = "none"

\* Variant: leases without an expiry.
TickKeepsLeases ==
    /\ \A r \in Requests : ~Due(r)
    /\ clock' = [r \in Requests |-> IF Waiting(r) \/ Ticking(r) THEN clock[r] + 1 ELSE clock[r]]
    /\ UNCHANGED <<phase, op, attempt, reply, wire, Redis>>

Tick ==
    /\ \A r \in Requests : ~Due(r)
    /\ clock' = [r \in Requests |-> IF Waiting(r) \/ Ticking(r) THEN clock[r] + 1 ELSE clock[r]]
    /\ life' = [r \in Requests |-> IF life[r] > 0 THEN life[r] - 1 ELSE 0]
    /\ keyLife' = IF keyLife > 0 THEN keyLife - 1 ELSE 0
    /\ members' = IF keyLife > 1 THEN members ELSE {}
    /\ UNCHANGED <<phase, op, attempt, reply, wire>>

Next ==
    \/ \E r \in Requests :
          \/ TryBeginUserRequest(r) \/ ReserveAnswered(r) \/ ReserveFails(r)
          \/ RenewTick(r) \/ RenewAnswered(r) \/ RenewFails(r)
          \/ EndRequest(r) \/ ReleaseLease(r) \/ ReleaseEnds(r) \/ Crash(r)
          \/ \E n \in Tries : RunReserve(r, n)
          \/ RunRenew(r) \/ RunRelease(r)
    \/ Lost \/ Tick

Spec == Init /\ [][Next]_vars

(***************************************************************************)
(* Properties.                                                             *)
(***************************************************************************)

Running == {r \in Requests : phase[r] = "running"}

\* The user never has more than Limit requests running that are not being
\* cancelled, whatever is lost, late, retried or dead: a lease outlives the
\* request it admits, because a renewal that is not confirmed cancels it.
WithinLimit == Cardinality(Running) <= Limit

\* A slot is never lost for good: once a request is over, even by the death of
\* its process or with a reservation that it gave up on and that was made
\* after all, its lease goes and does not come back.
SlotFreed == \A r \in Requests : (phase[r] = "done") ~> [](r \notin Unexpired)

\* Time passes, calls end at their deadline and the goroutine runs.
FairSpec == Spec /\ WF_vars(Tick) /\ \A r \in Requests :
    /\ WF_vars(ReserveFails(r) \/ ReserveAnswered(r))
    /\ WF_vars(RenewFails(r) \/ RenewAnswered(r))
    /\ WF_vars(RenewTick(r)) /\ WF_vars(ReleaseLease(r)) /\ WF_vars(ReleaseEnds(r))
=============================================================================
