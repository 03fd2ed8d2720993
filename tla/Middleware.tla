----------------------------- MODULE Middleware -----------------------------
(***************************************************************************)
(* createPaymentMiddleware (packages/middleware/src/middleware.ts): the    *)
(* three-phase 402 handler and the map of pending payments it keeps.       *)
(*                                                                         *)
(* JavaScript runs a handler without interruption from one await to the    *)
(* next, so an action is one such turn.  A request that is answered        *)
(* within its first turn is one action; a request that awaits the          *)
(* facilitator occupies a slot until it is answered.  The facilitator is   *)
(* the interface MiddlewareConfig.facilitator: here it may answer          *)
(* anything.  PaymentServer replaces it by the scheme of this repository.  *)
(*                                                                         *)
(* Requests that change nothing (no matching route, unreadable headers,    *)
(* an unknown nonce, a sender that differs from the bound one) are         *)
(* stuttering steps and have no action.                                    *)
(***************************************************************************)
EXTENDS Naturals

CONSTANTS
  Nonces,        \* the UUIDs phase 1 can draw; each is drawn once
  Senders,       \* payer addresses
  Commitments,   \* commitments a facilitator can return
  Payments,      \* decoded PAYMENT-SIGNATURE payloads, opaque here
  Routes,        \* the configured routes (RoutesConfig)
  Slots,         \* bound on the requests awaiting the facilitator at once
  None,          \* undefined
  TimeoutMs,     \* route -> maxTimeoutSeconds * 1000, in ticks
  MaxTime,       \* bound on the clock
  HasPrepare,    \* does the facilitator implement preparePayment?
  NextMayThrow,  \* may the application's next() throw synchronously?
  MaxThrows      \* bound on the times next() throws for one nonce

Entry == [createdAt : Nat, timeoutMs : Nat,
          senderAddress : Senders \cup {None},
          commitment : Commitments \cup {None}]

ASSUME NoneAssumption ==
  /\ None \notin Nonces \cup Senders \cup Commitments \cup Routes
  /\ None \notin Entry

ASSUME TimeAssumption ==
  /\ MaxTime \in Nat /\ MaxThrows \in Nat
  /\ TimeoutMs \in [Routes -> Nat]

ASSUME SwitchAssumption ==
  /\ HasPrepare \in BOOLEAN
  /\ NextMayThrow \in BOOLEAN

VARIABLES
  now,             \* Date.now()
  pendingPayments, \* the Map: nonce -> entry, None where there is no key
  slot,            \* what each awaiting handler keeps in its closure
  challenged,      \* observation: the route a nonce was issued on
  served,          \* observation: how often next() ran for a nonce
  ended            \* observation: the nonces whose entry was given up for good

observed == <<challenged, served, ended>>
vars == <<now, pendingPayments, slot, observed>>

NoEntry == [createdAt |-> 0, timeoutMs |-> 0,
            senderAddress |-> None, commitment |-> None]

(***************************************************************************)
(* A handler that awaits the facilitator: what it awaits, the nonce it     *)
(* took from the map, the entry object it took with it, the route its own  *)
(* request matched and the payload it passes to verify and to settle.      *)
(* Nobody else holds a reference to the entry meanwhile, so a value        *)
(* stands for the object.                                                  *)
(***************************************************************************)
Handler == [pc : {"idle", "preparing", "verifying", "settling"},
            nonce : Nonces \cup {None}, route : Routes \cup {None},
            entry : Entry, payment : Payments \cup {None}]

Idle == [pc |-> "idle", nonce |-> None, route |-> None,
         entry |-> NoEntry, payment |-> None]

Busy(h) == slot[h].pc # "idle"

-----------------------------------------------------------------------------
(* The steps of the handler on the map.                                    *)

\* `now - createdAt > timeoutMs`, the test of every phase and of the sweep.
Expired(e) == now > e.createdAt + e.timeoutMs

\* A nonce drawn by uuidv7() was never drawn before.
Fresh(n) == challenged[n] = None

\* A mutant: a route without maxTimeoutSeconds has no deadline.
EntryWithoutDeadline(rt) == [NoEntry EXCEPT !.createdAt = now, !.timeoutMs = None]

\* The entry phase 1 creates, with the timeout of the route that is asked.
NewEntry(rt) == [NoEntry EXCEPT !.createdAt = now, !.timeoutMs = TimeoutMs[rt]]

\* A mutant: the sender of a prepare is not kept.
BindNobody(e, s) == e

\* paymentEntry.senderAddress = senderAddress.
BindSender(e, s) == [e EXCEPT !.senderAddress = s]

\* A mutant: the entry stays in the map while its handler awaits.
ClaimNothing(n) == pendingPayments

\* pendingPayments.delete(nonce), taken before the first await.
Claim(n) == [pendingPayments EXCEPT ![n] = None]

\* A mutant: the entry goes back as a new one, with a new deadline.
RestoreRenewed(h, c) ==
  [pendingPayments EXCEPT
     ![slot[h].nonce] = [slot[h].entry EXCEPT !.commitment = c, !.createdAt = now]]

\* pendingPayments.set(nonce, paymentEntry) at the end of an await.
Restore(h, c) ==
  [pendingPayments EXCEPT ![slot[h].nonce] = [slot[h].entry EXCEPT !.commitment = c]]

\* A mutant: the handler restores the nonce in a `finally`, served or not.
PutBackAlways(h) == Restore(h, slot[h].entry.commitment)

\* What the map is after a request that was served: untouched.
AfterServing(h) == pendingPayments

Finish(h) == slot' = [slot EXCEPT ![h] = Idle]

\* The nonces that a challenge sweeps.
Sweepable ==
  {n \in Nonces : pendingPayments[n] # None /\ Expired(pendingPayments[n])}

-----------------------------------------------------------------------------

Init ==
  /\ now = 0
  /\ pendingPayments = [n \in Nonces |-> None]
  /\ slot = [h \in Slots |-> Idle]
  /\ challenged = [n \in Nonces |-> None]
  /\ served = [n \in Nonces |-> 0]
  /\ ended = {}

\* Phase 1: a request without payment headers is challenged with a fresh
\* nonce, and the entries that have expired are swept.
Challenge(n, rt) ==
  /\ Fresh(n)
  /\ challenged' = [challenged EXCEPT ![n] = rt]
  /\ pendingPayments' =
       [m \in Nonces |->
          IF m = n THEN NewEntry(rt)
            ELSE IF m \in Sweepable THEN None ELSE pendingPayments[m]]
  /\ ended' = ended \cup Sweepable
  /\ UNCHANGED <<now, slot, served>>

\* Phases 2 and 3: a request that names an expired nonce drops its entry.
DropExpired(n) ==
  /\ pendingPayments[n] # None
  /\ Expired(pendingPayments[n])
  /\ pendingPayments' = Claim(n)
  /\ ended' = ended \cup {n}
  /\ UNCHANGED <<now, slot, challenged, served>>

\* The guards of phase 2 on the entry of the nonce.
MayPrepare(n, s) ==
  /\ pendingPayments[n] # None
  /\ ~Expired(pendingPayments[n])
  /\ pendingPayments[n].senderAddress \in {None, s}

\* Phase 2, answered at once: the commitment exists already, or the
\* facilitator makes none.
PrepareAnswered(n, s) ==
  /\ MayPrepare(n, s)
  /\ HasPrepare => pendingPayments[n].commitment # None
  /\ pendingPayments' = [pendingPayments EXCEPT ![n] = BindSender(@, s)]
  /\ UNCHANGED <<now, slot, observed>>

\* Phase 2 up to the await of preparePayment.
PrepareBegins(h, n, s, rt) ==
  /\ ~Busy(h)
  /\ HasPrepare
  /\ MayPrepare(n, s)
  /\ pendingPayments[n].commitment = None
  /\ pendingPayments' = Claim(n)
  /\ slot' = [slot EXCEPT ![h] =
                [Idle EXCEPT !.pc = "preparing", !.nonce = n, !.route = rt,
                   !.entry = BindSender(pendingPayments[n], s)]]
  /\ UNCHANGED <<now, observed>>

\* preparePayment answers: with a commitment, or with None when it throws or
\* its answer does not parse.  The `finally` restores the entry either way.
PrepareEnds(h, c) ==
  /\ slot[h].pc = "preparing"
  /\ pendingPayments' = Restore(h, c)
  /\ Finish(h)
  /\ UNCHANGED <<now, observed>>

\* Phase 3 up to the await of verify: the handler owns the nonce from here.
PayBegins(h, n, p, rt) ==
  /\ ~Busy(h)
  /\ pendingPayments[n] # None
  /\ ~Expired(pendingPayments[n])
  /\ pendingPayments' = Claim(n)
  /\ slot' = [slot EXCEPT ![h] =
                [pc |-> "verifying", nonce |-> n, route |-> rt,
                 entry |-> pendingPayments[n], payment |-> p]]
  /\ UNCHANGED <<now, observed>>

VerifyOutcomes == {"valid", "invalid", "retryable", "throws"}

\* verify answers.  A valid payment is settled at once; an invalid one is
\* dropped; one that may be retried, or a verify that threw, is restored.
VerifyEnds(h, outcome) ==
  /\ slot[h].pc = "verifying"
  /\ \/ /\ outcome = "valid"
        /\ slot' = [slot EXCEPT ![h].pc = "settling"]
        /\ UNCHANGED <<pendingPayments, ended>>
     \/ /\ outcome = "invalid"
        /\ Finish(h)
        /\ ended' = ended \cup {slot[h].nonce}
        /\ UNCHANGED pendingPayments
     \/ /\ outcome \in {"retryable", "throws"}
        /\ Finish(h)
        /\ pendingPayments' = Restore(h, slot[h].entry.commitment)
        /\ UNCHANGED ended
  /\ UNCHANGED <<now, challenged, served>>

\* What ends a settlement; the last one is next() throwing inside the try
\* block, once the payment was settled.
SettleOutcomes == {"success", "failure", "throws", "nextThrows"}

\* settle answers.  Success serves the request and leaves the entry out of the
\* map; every other outcome restores it: a failure with a 500, a settle or a
\* next() that threw with a 402.
SettleEnds(h, outcome) ==
  /\ slot[h].pc = "settling"
  /\ outcome = "nextThrows" => NextMayThrow /\ served[slot[h].nonce] < MaxThrows
  /\ Finish(h)
  /\ served' = IF outcome \in {"success", "nextThrows"}
                 THEN [served EXCEPT ![slot[h].nonce] = @ + 1] ELSE served
  /\ pendingPayments' = IF outcome = "success"
                          THEN AfterServing(h)
                          ELSE Restore(h, slot[h].entry.commitment)
  /\ ended' = IF outcome = "success" THEN ended \cup {slot[h].nonce} ELSE ended
  /\ UNCHANGED <<now, challenged>>

\* The process restarts: the map and every handler are gone.
Restart ==
  /\ pendingPayments' = [n \in Nonces |-> None]
  /\ slot' = [h \in Slots |-> Idle]
  /\ ended' = {n \in Nonces : challenged[n] # None}
  /\ UNCHANGED <<now, challenged, served>>

Tick ==
  /\ now < MaxTime
  /\ now' = now + 1
  /\ UNCHANGED <<pendingPayments, slot, observed>>

Next ==
  \/ \E n \in Nonces, rt \in Routes : Challenge(n, rt)
  \/ \E n \in Nonces : DropExpired(n)
  \/ \E n \in Nonces, s \in Senders : PrepareAnswered(n, s)
  \/ \E h \in Slots, n \in Nonces, s \in Senders, rt \in Routes :
       PrepareBegins(h, n, s, rt)
  \/ \E h \in Slots, c \in Commitments \cup {None} : PrepareEnds(h, c)
  \/ \E h \in Slots, n \in Nonces, p \in Payments, rt \in Routes :
       PayBegins(h, n, p, rt)
  \/ \E h \in Slots, o \in VerifyOutcomes : VerifyEnds(h, o)
  \/ \E h \in Slots, o \in SettleOutcomes : SettleEnds(h, o)
  \/ Restart
  \/ Tick

Spec == Init /\ [][Next]_vars

-----------------------------------------------------------------------------
(* Properties.                                                             *)

\* Every variable has its type: the map holds entries, a handler that awaits
\* the facilitator has a nonce (middleware.ts:45, 95-113, 179-191).
TypeOK ==
  /\ now \in Nat
  /\ pendingPayments \in [Nonces -> Entry \cup {None}]
  /\ slot \in [Slots -> Handler]
  /\ \A h \in Slots : Busy(h) => slot[h].nonce \in Nonces
  /\ challenged \in [Nonces -> Routes \cup {None}]
  /\ served \in [Nonces -> Nat]
  /\ ended \subseteq Nonces

\* The entries of a nonce that anyone can still use: the one in the map and
\* those that handlers took with them.
Holders(n) == {h \in Slots : Busy(h) /\ slot[h].nonce = n}
Entries(n) ==
  {slot[h].entry : h \in Holders(n)} \cup ({pendingPayments[n]} \ {None})

\* A nonce is owned by one party at a time: the map, or one handler
\* (middleware.ts:118 and 189: overlapping prepares or replays of a nonce
\* never both get past the claim, whatever the order of their awaits).
ExclusiveClaim ==
  \A h \in Slots : Busy(h) =>
    /\ pendingPayments[slot[h].nonce] = None
    /\ \A g \in Slots : Busy(g) /\ slot[g].nonce = slot[h].nonce => g = h

\* A nonce is served at most once over the life of the service, through
\* overlapping payments, restored nonces, settlement failures and restarts
\* (readme.md:108: "the nonce is one-shot").
NonceServedOnce == \A n \in Nonces : served[n] <= 1

\* A nonce that the server has given up is out of reach: once it was served,
\* finally refused, dropped as expired, swept or lost to a restart, neither
\* the map nor any handler still has its entry, so no continuation of an
\* older prepare or payment can put it back (the restores are
\* middleware.ts:145, 201, 217 and 233).
NoLateRestore == \A n \in ended : Entries(n) = {}

\* Entry f is entry e, later: same deadline, same sender and commitment once
\* they are known.
Keeps(e, f) ==
  /\ f.createdAt = e.createdAt /\ f.timeoutMs = e.timeoutMs
  /\ e.senderAddress # None => f.senderAddress = e.senderAddress
  /\ e.commitment # None => f.commitment = e.commitment

\* What a nonce is bound to survives every restore: the deadline never
\* moves, a bound sender never changes and a commitment, once made on chain,
\* is never replaced (middleware.ts:105-146).
BindingsStick ==
  [][\A n \in Nonces : \A e \in Entries(n), f \in Entries(n)' : Keeps(e, f)]_vars

\* A commitment is bound to the sender it was made for: no entry has one
\* without the other (middleware.ts:113, 131-132).
CommitmentHasSender ==
  \A n \in Nonces : \A e \in Entries(n) :
    e.commitment # None => e.senderAddress # None

=============================================================================
