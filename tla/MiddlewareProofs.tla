-------------------------- MODULE MiddlewareProofs --------------------------
(* Proofs about Middleware, for every value of its constants.              *)
EXTENDS Middleware, TLAPS

(* The observations are one tuple.                                         *)
USE DEF observed

(* An entry that anyone can use has a nonce that was issued.               *)
Issued ==
  /\ \A n \in Nonces : pendingPayments[n] # None => challenged[n] # None
  /\ \A h \in Slots : Busy(h) => challenged[slot[h].nonce] # None

(* TypeOK and ExclusiveClaim are inductive together: a claim needs the     *)
(* entry to be in the map, a restore needs that nobody else has it.        *)
Ownership == TypeOK /\ ExclusiveClaim /\ Issued

(* TypeOK, ExclusiveClaim and Issued hold when the middleware is created. *)
LEMMA OwnershipInit == Init => Ownership
BY NoneAssumption, TimeAssumption
   DEF Init, Ownership, TypeOK, ExclusiveClaim, Issued, Busy, Idle, Handler,
       Entry, NoEntry

(* The entry of an idle handler is an entry.                               *)
LEMMA NoEntryType == NoEntry \in Entry
BY DEF NoEntry, Entry

(* An idle handler has the type of a handler.                              *)
LEMMA IdleType == Idle \in Handler
BY NoEntryType DEF Idle, Handler

(* A handler that claims an entry of the map becomes its only owner.       *)
LEMMA ClaimStep ==
  ASSUME Ownership, NEW h \in Slots, NEW n \in Nonces, NEW a \in Handler,
         ~Busy(h), pendingPayments[n] # None,
         a.pc # "idle", a.nonce = n,
         pendingPayments' = Claim(n), slot' = [slot EXCEPT ![h] = a],
         UNCHANGED <<now, observed>>
  PROVE  Ownership'
<1> USE DEF Ownership
<1>1. TypeOK'
  BY DEF TypeOK, Claim, Busy
<1>2. ExclusiveClaim'
  BY DEF TypeOK, ExclusiveClaim, Claim, Busy
<1>3. Issued'
  BY DEF TypeOK, Issued, Claim, Busy
<1>4. QED
  BY <1>1, <1>2, <1>3

(* A handler that ends its request gives its entry back, or drops it.      *)
LEMMA FinishStep ==
  ASSUME Ownership, NEW h \in Slots, NEW e \in Entry \cup {None}, Busy(h),
         Finish(h),
         pendingPayments' = [pendingPayments EXCEPT ![slot[h].nonce] = e],
         served' \in [Nonces -> Nat], ended' \subseteq Nonces,
         UNCHANGED <<now, challenged>>
  PROVE  Ownership'
<1> USE IdleType DEF Ownership, Finish
<1>0. Idle.pc = "idle"
  BY DEF Idle
<1>1. TypeOK'
  BY <1>0 DEF TypeOK, Busy
<1>2. ExclusiveClaim'
  BY <1>0 DEF TypeOK, ExclusiveClaim, Busy
<1>3. Issued'
  BY <1>0 DEF TypeOK, Issued, Busy
<1>4. QED
  BY <1>1, <1>2, <1>3

(* What a handler that ends without restoring leaves in the map.           *)
LEMMA DropIsNoChange ==
  ASSUME Ownership, NEW h \in Slots, Busy(h)
  PROVE  pendingPayments = [pendingPayments EXCEPT ![slot[h].nonce] = None]
BY DEF Ownership, TypeOK, ExclusiveClaim

(* Every turn of a handler preserves Ownership.                            *)
LEMMA OwnershipStep == Ownership /\ [Next]_vars => Ownership'
<1> SUFFICES ASSUME Ownership, [Next]_vars PROVE Ownership'
  OBVIOUS
<1> USE NoneAssumption, TimeAssumption, NoEntryType, IdleType
<1>1. ASSUME NEW n \in Nonces, NEW rt \in Routes, Challenge(n, rt)
      PROVE  Ownership'
  BY <1>1 DEF Challenge, Sweepable, Fresh, NewEntry, Entry, NoEntry, Ownership, TypeOK, ExclusiveClaim,
              Issued, Busy
<1>2. ASSUME NEW n \in Nonces, DropExpired(n) PROVE Ownership'
  BY <1>2 DEF DropExpired, Claim, Ownership, TypeOK, ExclusiveClaim, Issued,
              Busy
<1>3. ASSUME NEW n \in Nonces, NEW s \in Senders, PrepareAnswered(n, s)
      PROVE  Ownership'
  BY <1>3 DEF PrepareAnswered, MayPrepare, BindSender, Entry, Ownership, TypeOK,
              ExclusiveClaim, Issued, Busy
<1>4. ASSUME NEW h \in Slots, NEW n \in Nonces, NEW s \in Senders,
             NEW rt \in Routes, PrepareBegins(h, n, s, rt)
      PROVE  Ownership'
  <2> DEFINE e == BindSender(pendingPayments[n], s)
             a == [Idle EXCEPT !.pc = "preparing", !.nonce = n, !.route = rt,
                                !.entry = e]
  <2>1. e \in Entry
    BY <1>4 DEF PrepareBegins, MayPrepare, BindSender, Entry, Ownership, TypeOK
  <2>2. a \in Handler /\ a.pc # "idle" /\ a.nonce = n
    BY <2>1 DEF Handler, Idle
  <2>3. /\ ~Busy(h)
        /\ pendingPayments[n] # None
        /\ pendingPayments' = Claim(n)
        /\ slot' = [slot EXCEPT ![h] = a]
        /\ UNCHANGED <<now, observed>>
    BY <1>4 DEF PrepareBegins, MayPrepare
  <2> HIDE DEF a
  <2>4. QED
    BY <2>2, <2>3, ClaimStep
<1>5. ASSUME NEW h \in Slots, NEW c \in Commitments \cup {None},
             PrepareEnds(h, c)
      PROVE  Ownership'
  <2>1. [slot[h].entry EXCEPT !.commitment = c] \in Entry
    BY DEF Ownership, TypeOK, Handler, Entry
  <2>2. QED
    BY <1>5, <2>1, FinishStep
       DEF PrepareEnds, Restore, Busy, Ownership, TypeOK
<1>6. ASSUME NEW h \in Slots, NEW n \in Nonces, NEW p \in Payments,
             NEW rt \in Routes, PayBegins(h, n, p, rt)
      PROVE  Ownership'
  <2> DEFINE a == [pc |-> "verifying", nonce |-> n, route |-> rt,
                   entry |-> pendingPayments[n], payment |-> p]
  <2>1. a \in Handler /\ a.pc # "idle" /\ a.nonce = n
    BY <1>6 DEF PayBegins, Handler, Ownership, TypeOK
  <2>2. /\ ~Busy(h)
        /\ pendingPayments[n] # None
        /\ pendingPayments' = Claim(n)
        /\ slot' = [slot EXCEPT ![h] = a]
        /\ UNCHANGED <<now, observed>>
    BY <1>6 DEF PayBegins
  <2> HIDE DEF a
  <2>3. QED
    BY <2>1, <2>2, ClaimStep
<1>7. ASSUME NEW h \in Slots, NEW o \in VerifyOutcomes, VerifyEnds(h, o)
      PROVE  Ownership'
  <2>0. /\ Busy(h) /\ served \in [Nonces -> Nat]
        /\ ended' \subseteq Nonces
    BY <1>7 DEF VerifyEnds, Busy, Ownership, TypeOK
  <2>1. CASE o = "valid"
    <3>1. /\ slot' = [slot EXCEPT ![h].pc = "settling"]
          /\ UNCHANGED <<now, pendingPayments, observed>>
      BY <1>7, <2>1 DEF VerifyEnds
    <3>2. slot' \in [Slots -> Handler]
      BY <3>1 DEF Ownership, TypeOK, Handler
    <3>3. \A g \in Slots : (slot'[g].pc # "idle" <=> Busy(g))
                           /\ slot'[g].nonce = slot[g].nonce
      BY <2>0, <3>1 DEF Ownership, TypeOK, Handler, Busy
    <3>4. QED
      BY <3>1, <3>2, <3>3
         DEF Ownership, TypeOK, ExclusiveClaim, Issued, Busy
  <2>2. CASE o = "invalid"
    BY <1>7, <2>0, <2>2, DropIsNoChange, FinishStep DEF VerifyEnds
  <2>3. CASE o \in {"retryable", "throws"}
    <3>1. [slot[h].entry EXCEPT !.commitment = slot[h].entry.commitment]
            \in Entry
      BY DEF Ownership, TypeOK, Handler, Entry
    <3>2. QED
      BY <1>7, <2>0, <2>3, <3>1, FinishStep DEF VerifyEnds, Restore
  <2>4. QED
    BY <2>1, <2>2, <2>3 DEF VerifyOutcomes
<1>8. ASSUME NEW h \in Slots, Busy(h), Finish(h),
             served' \in [Nonces -> Nat], ended' \subseteq Nonces,
             UNCHANGED <<now, challenged>>,
             \/ pendingPayments' = pendingPayments
             \/ pendingPayments' = Restore(h, slot[h].entry.commitment)
      PROVE  Ownership'
  <2>1. [slot[h].entry EXCEPT !.commitment = slot[h].entry.commitment]
          \in Entry
    BY DEF Ownership, TypeOK, Handler, Entry
  <2>2. QED
    BY <1>8, <2>1, DropIsNoChange, FinishStep DEF Restore
<1>9. ASSUME NEW h \in Slots, NEW o \in SettleOutcomes, SettleEnds(h, o)
      PROVE  Ownership'
  <2>1. Busy(h)
    BY <1>9 DEF SettleEnds, Busy
  <2>3. served' \in [Nonces -> Nat] /\ ended' \subseteq Nonces
    BY <1>9, <2>1 DEF SettleEnds, Ownership, TypeOK
  <2>2. QED
    BY <1>8, <1>9, <2>1, <2>3 DEF SettleEnds, AfterServing
<1>10. CASE Restart
  BY <1>10 DEF Restart, Idle, Ownership, TypeOK, ExclusiveClaim, Issued, Busy
<1>11. CASE Tick
  BY <1>11 DEF Tick, Ownership, TypeOK, ExclusiveClaim, Issued, Busy
<1>12. CASE UNCHANGED vars
  BY <1>12 DEF vars, Ownership, TypeOK, ExclusiveClaim, Issued, Busy
<1>13. QED
  BY <1>1, <1>2, <1>3, <1>4, <1>5, <1>6, <1>7, <1>9, <1>10, <1>11,
     <1>12 DEF Next

(* A nonce that was issued and that nobody holds.                          *)
Gone(n) == challenged[n] # None /\ Entries(n) = {}

(* Gone, spelled out: in no map and in no handler.                         *)
LEMMA GoneIs ==
  ASSUME NEW n \in Nonces
  PROVE  Gone(n) <=> /\ challenged[n] # None
                     /\ pendingPayments[n] = None
                     /\ \A h \in Slots : Busy(h) => slot[h].nonce # n
<1>1. Entries(n) = {} <=> Holders(n) = {} /\ pendingPayments[n] = None
  BY DEF Entries
<1>2. Holders(n) = {} <=> \A h \in Slots : Busy(h) => slot[h].nonce # n
  BY DEF Holders
<1>3. QED
  BY <1>1, <1>2 DEF Gone

(* The same of the next state.                                             *)
LEMMA GoneIsNext ==
  ASSUME NEW n \in Nonces
  PROVE  Gone(n)' <=> /\ challenged'[n] # None
                      /\ pendingPayments'[n] = None
                      /\ \A h \in Slots : slot'[h].pc # "idle" => slot'[h].nonce # n
<1>1. Entries(n)' = {} <=> Holders(n)' = {} /\ pendingPayments'[n] = None
  BY DEF Entries
<1>2. Holders(n)' = {} <=> \A h \in Slots : slot'[h].pc # "idle" => slot'[h].nonce # n
  BY DEF Holders, Busy
<1>3. QED
  BY <1>1, <1>2 DEF Gone

(* A nonce outside the map and outside every handler, which was issued,    *)
(* stays outside: only a challenge adds a key, and only for a fresh nonce; *)
(* a restore only concerns the nonce its handler holds.                    *)
LEMMA GoneStep ==
  ASSUME Ownership, [Next]_vars, NEW n \in Nonces, Gone(n)
  PROVE  Gone(n)' /\ served'[n] = served[n]
<1> DEFINE Stays ==
             /\ challenged'[n] # None
             /\ pendingPayments'[n] = None
             /\ \A h \in Slots : slot'[h].pc # "idle" => slot'[h].nonce # n
             /\ served'[n] = served[n]
<1>0. /\ challenged[n] # None
      /\ pendingPayments[n] = None
      /\ \A h \in Slots : slot[h].pc # "idle" => slot[h].nonce # n
  BY GoneIs DEF Busy
<1> SUFFICES Stays
  BY GoneIsNext
<1> USE <1>0 DEF Ownership, TypeOK, Busy
<1>1. ASSUME NEW m \in Nonces, NEW rt \in Routes, Challenge(m, rt) PROVE Stays
  BY <1>1 DEF Challenge, Fresh
<1>2. ASSUME NEW m \in Nonces, DropExpired(m) PROVE Stays
  BY <1>2 DEF DropExpired, Claim
<1>3. ASSUME NEW m \in Nonces, NEW s \in Senders, PrepareAnswered(m, s)
      PROVE  Stays
  BY <1>3 DEF PrepareAnswered, MayPrepare
<1>4. ASSUME NEW h \in Slots, NEW m \in Nonces, NEW s \in Senders,
             NEW rt \in Routes, PrepareBegins(h, m, s, rt)
      PROVE  Stays
  <2> DEFINE a == [Idle EXCEPT !.pc = "preparing", !.nonce = m, !.route = rt,
                     !.entry = BindSender(pendingPayments[m], s)]
  <2>1. a.nonce = m
    BY DEF Idle
  <2>2. slot' = [slot EXCEPT ![h] = a] /\ m # n
    BY <1>4 DEF PrepareBegins, MayPrepare
  <2> HIDE DEF a
  <2>3. QED
    BY <1>4, <2>1, <2>2 DEF PrepareBegins, Claim
<1>5. ASSUME NEW h \in Slots, NEW m \in Nonces, NEW p \in Payments,
             NEW rt \in Routes, PayBegins(h, m, p, rt)
      PROVE  Stays
  BY <1>5 DEF PayBegins, Claim
<1>6. ASSUME NEW h \in Slots, slot[h].pc # "idle", Finish(h),
             UNCHANGED challenged,
             \/ served' = served
             \/ served' = [served EXCEPT ![slot[h].nonce] = @ + 1],
             \/ pendingPayments' = pendingPayments
             \/ \E e : pendingPayments' =
                         [pendingPayments EXCEPT ![slot[h].nonce] = e]
      PROVE  Stays
  BY <1>6 DEF Finish, Idle
<1>7. ASSUME NEW h \in Slots, NEW c \in Commitments \cup {None},
             PrepareEnds(h, c)
      PROVE  Stays
  BY <1>6, <1>7 DEF PrepareEnds, Restore
<1>8. ASSUME NEW h \in Slots, NEW o \in VerifyOutcomes, VerifyEnds(h, o)
      PROVE  Stays
  <2>1. CASE o = "valid"
    <3>1. \A g \in Slots : /\ slot'[g].pc # "idle" => slot[g].pc # "idle"
                           /\ slot'[g].nonce = slot[g].nonce
      BY <1>8, <2>1 DEF VerifyEnds, Handler
    <3>2. QED
      BY <1>8, <2>1, <3>1 DEF VerifyEnds
  <2>2. CASE o # "valid"
    BY <1>6, <1>8, <2>2 DEF VerifyEnds, Restore
  <2>3. QED
    BY <2>1, <2>2
<1>9. ASSUME NEW h \in Slots, NEW o \in SettleOutcomes, SettleEnds(h, o)
      PROVE  Stays
  BY <1>6, <1>9 DEF SettleEnds, AfterServing, Restore
<1>10. CASE Restart
  BY <1>10 DEF Restart, Idle
<1>11. CASE Tick \/ UNCHANGED vars
  BY <1>11 DEF Tick, vars
<1>12. QED
  BY <1>1, <1>2, <1>3, <1>4, <1>5, <1>7, <1>8, <1>9, <1>10, <1>11
     DEF Next

(* A handler that ends without restoring leaves its nonce with nobody.     *)
LEMMA DroppedIsGone ==
  ASSUME Ownership, NEW h \in Slots, Busy(h), Finish(h),
         NEW n \in Nonces, n = slot[h].nonce,
         pendingPayments' = pendingPayments, challenged' = challenged
  PROVE  Gone(n)'
<1>1. challenged'[n] # None /\ pendingPayments'[n] = None
  BY DEF Ownership, TypeOK, ExclusiveClaim, Issued
<1>2. \A g \in Slots : slot'[g].pc # "idle" => g # h /\ slot'[g] = slot[g]
  BY DEF Finish, Idle, Ownership, TypeOK
<1>3. \A g \in Slots : slot'[g].pc # "idle" => slot'[g].nonce # n
  BY <1>2 DEF Ownership, ExclusiveClaim, Busy
<1>4. QED
  BY <1>1, <1>3, GoneIsNext

-----------------------------------------------------------------------------

(* Ownership holds in every reachable state.                               *)
THEOREM OwnershipInvariant == Spec => []Ownership
BY OwnershipInit, OwnershipStep, PTL DEF Spec

(* The variables have their types in every reachable state.                *)
THEOREM TypeCorrect == Spec => []TypeOK
BY OwnershipInvariant, PTL DEF Ownership

(* A nonce has one owner, the map or one handler, however the awaits of    *)
(* overlapping prepares and payments interleave.                           *)
THEOREM ExclusiveOwner == Spec => []ExclusiveClaim
BY OwnershipInvariant, PTL DEF Ownership

(* What was given up is with nobody.                                       *)
EndedIsGone == \A n \in ended : Gone(n)

(* A turn gives up a nonce only when it leaves it with nobody.             *)
LEMMA EndedStep ==
  ASSUME Ownership, EndedIsGone, [Next]_vars
  PROVE  EndedIsGone'
<1> SUFFICES ASSUME NEW n \in ended' PROVE Gone(n)'
  BY DEF EndedIsGone
<1>1. CASE n \in ended
  BY <1>1, GoneStep DEF EndedIsGone, Ownership, TypeOK
<1>2. ASSUME NEW m \in Nonces, NEW rt \in Routes, Challenge(m, rt), n \notin ended
      PROVE  Gone(n)'
  <2>1. /\ n \in Nonces /\ pendingPayments[n] # None /\ n # m
        /\ pendingPayments'[n] = None /\ challenged'[n] # None /\ slot' = slot
    BY <1>2 DEF Challenge, Sweepable, Fresh, Ownership, TypeOK, Issued
  <2>2. \A h \in Slots : slot'[h].pc # "idle" => slot'[h].nonce # n
    BY <2>1 DEF Ownership, ExclusiveClaim, Busy
  <2>3. QED
    BY <2>1, <2>2, GoneIsNext
<1>3. ASSUME NEW m \in Nonces, DropExpired(m), n \notin ended PROVE Gone(n)'
  <2>1. /\ n \in Nonces /\ pendingPayments[n] # None
        /\ pendingPayments'[n] = None /\ challenged'[n] # None /\ slot' = slot
    BY <1>3 DEF DropExpired, Claim, Ownership, TypeOK, Issued
  <2>2. \A h \in Slots : slot'[h].pc # "idle" => slot'[h].nonce # n
    BY <2>1 DEF Ownership, ExclusiveClaim, Busy
  <2>3. QED
    BY <2>1, <2>2, GoneIsNext
<1>4. ASSUME NEW h \in Slots, NEW o \in VerifyOutcomes, VerifyEnds(h, o),
             n \notin ended
      PROVE  Gone(n)'
  <2>1. /\ Busy(h) /\ Finish(h) /\ n \in Nonces /\ n = slot[h].nonce
        /\ pendingPayments' = pendingPayments /\ challenged' = challenged
    BY <1>4 DEF VerifyEnds, Busy, Ownership, TypeOK
  <2>2. QED
    BY <2>1, DroppedIsGone
<1>5. ASSUME NEW h \in Slots, NEW o \in SettleOutcomes, SettleEnds(h, o),
             n \notin ended
      PROVE  Gone(n)'
  <2>1. /\ Busy(h) /\ Finish(h) /\ n \in Nonces /\ n = slot[h].nonce
        /\ pendingPayments' = pendingPayments /\ challenged' = challenged
    BY <1>5 DEF SettleEnds, AfterServing, Busy, Ownership, TypeOK
  <2>2. QED
    BY <2>1, DroppedIsGone
<1>6. CASE Restart
  <2>1. /\ n \in Nonces /\ challenged'[n] # None /\ pendingPayments'[n] = None
        /\ \A h \in Slots : slot'[h].pc # "idle" => slot'[h].nonce # n
    BY <1>6 DEF Restart, Idle
  <2>2. QED
    BY <2>1, GoneIsNext
<1>7. CASE ended' = ended
  BY <1>1, <1>7
<1>8. QED
  BY <1>1, <1>2, <1>3, <1>4, <1>5, <1>6, <1>7
     DEF Next, vars, PrepareAnswered, PrepareBegins, PrepareEnds,
         PayBegins, Tick

(* What the server gave up never comes back: no restore of an older        *)
(* prepare or payment reaches a nonce that was served, refused, expired or *)
(* lost to a restart.                                                      *)
THEOREM NothingComesBack == Spec => []NoLateRestore
<1>1. Init => EndedIsGone
  BY DEF Init, EndedIsGone
<1>2. Ownership /\ EndedIsGone /\ [Next]_vars => EndedIsGone'
  BY EndedStep
<1>3. EndedIsGone => NoLateRestore
  BY DEF EndedIsGone, NoLateRestore, Gone
<1>4. QED
  BY <1>1, <1>2, <1>3, OwnershipInvariant, PTL DEF Spec

(* A nonce that was served once is gone.                                   *)
ServedIsGone ==
  \A n \in Nonces : served[n] <= 1 /\ (served[n] = 1 => Gone(n))

(* Nothing is served at first.                                             *)
LEMMA ServedIsGoneInit == Init => ServedIsGone
<1>1. Init => \A n \in Nonces : served[n] = 0
  BY DEF Init
<1>2. ASSUME NEW n \in Nonces, served[n] = 0
      PROVE  served[n] <= 1 /\ (served[n] = 1 => Gone(n))
  BY <1>2
<1>3. QED
  BY <1>1, <1>2 DEF ServedIsGone

(* A turn serves a nonce only when its handler drops it in the same turn.  *)
LEMMA ServedIsGoneStep ==
  ASSUME ~NextMayThrow, Ownership, ServedIsGone, [Next]_vars
  PROVE  ServedIsGone'
<1> SUFFICES ASSUME NEW n \in Nonces
             PROVE  served'[n] <= 1 /\ (served'[n] = 1 => Gone(n)')
  BY DEF ServedIsGone
<1>1. CASE Gone(n)
  BY <1>1, GoneStep DEF ServedIsGone
<1>2. CASE ~Gone(n) /\ served'[n] = served[n]
  BY <1>2 DEF ServedIsGone, Ownership, TypeOK
<1>3. CASE ~Gone(n) /\ served'[n] # served[n]
  <2>1. PICK h \in Slots : SettleEnds(h, "success")
    BY <1>3 DEF Next, vars, Challenge, DropExpired, PrepareAnswered,
                PrepareBegins, PrepareEnds, PayBegins, VerifyEnds,
                SettleEnds, SettleOutcomes, Restart, Tick
  <2>2. /\ Busy(h) /\ Finish(h)
        /\ served' = [served EXCEPT ![slot[h].nonce] = @ + 1]
        /\ pendingPayments' = pendingPayments
        /\ challenged' = challenged
    BY <2>1 DEF SettleEnds, AfterServing, Busy
  <2>3. slot[h].nonce = n /\ served[n] = 0 /\ served'[n] = 1
    BY <1>3, <2>2 DEF Ownership, TypeOK, ServedIsGone
  <2>4. Gone(n)'
    BY <2>2, <2>3, DroppedIsGone
  <2>5. QED
    BY <2>3, <2>4
<1>4. QED
  BY <1>1, <1>2, <1>3

(* A nonce is served at most once over the life of the service, restarts   *)
(* included, when the application's next() does not throw.                 *)
THEOREM NonceOnce == ASSUME ~NextMayThrow PROVE Spec => []NonceServedOnce
<1>1. Init => ServedIsGone
  BY ServedIsGoneInit
<1>2. Ownership /\ ServedIsGone /\ [Next]_vars => ServedIsGone'
  BY ServedIsGoneStep
<1>3. ServedIsGone => NonceServedOnce
  BY DEF ServedIsGone, NonceServedOnce
<1>4. QED
  BY <1>1, <1>2, <1>3, OwnershipInvariant, PTL DEF Spec

-----------------------------------------------------------------------------

(* A handler asks for a commitment only when the entry has none.           *)
Unprepared ==
  \A h \in Slots : slot[h].pc = "preparing" => slot[h].entry.commitment = None

(* No handler prepares at first.                                           *)
LEMMA UnpreparedInit == Init => Unprepared
BY DEF Init, Unprepared, Idle

(* Only phase 2 makes a handler prepare, for an entry without commitment.  *)
LEMMA UnpreparedStep == Ownership /\ Unprepared /\ [Next]_vars => Unprepared'
<1> SUFFICES ASSUME Ownership, Unprepared, [Next]_vars,
                    NEW g \in Slots, slot'[g].pc = "preparing"
             PROVE  slot'[g].entry.commitment = None
  BY DEF Unprepared
<1> USE DEF Ownership, TypeOK, Unprepared
<1>1. CASE slot' = slot
  BY <1>1
<1>2. CASE \E h \in Slots : Finish(h)
  BY <1>2 DEF Finish, Idle
<1>3. CASE Restart
  BY <1>3 DEF Restart, Idle
<1>4. ASSUME NEW h \in Slots, NEW n \in Nonces, NEW s \in Senders,
             NEW rt \in Routes, PrepareBegins(h, n, s, rt)
      PROVE  slot'[g].entry.commitment = None
  <2>1. pendingPayments[n] \in Entry
    BY <1>4 DEF PrepareBegins, MayPrepare
  <2>2. BindSender(pendingPayments[n], s).commitment = None
    BY <1>4, <2>1 DEF PrepareBegins, BindSender, Entry
  <2> DEFINE b == BindSender(pendingPayments[n], s)
             a == [Idle EXCEPT !.pc = "preparing", !.nonce = n, !.route = rt,
                               !.entry = b]
  <2>3. a.entry = b
    BY DEF Idle
  <2>4. slot' = [slot EXCEPT ![h] = a]
    BY <1>4 DEF PrepareBegins
  <2>5. b.commitment = None
    BY <2>2
  <2> HIDE DEF a, b
  <2>6. QED
    BY <2>3, <2>4, <2>5
<1>5. ASSUME NEW h \in Slots, NEW n \in Nonces, NEW p \in Payments,
             NEW rt \in Routes, PayBegins(h, n, p, rt)
      PROVE  slot'[g].entry.commitment = None
  BY <1>5 DEF PayBegins
<1>6. ASSUME NEW h \in Slots, slot' = [slot EXCEPT ![h].pc = "settling"]
      PROVE  slot'[g].entry.commitment = None
  BY <1>6 DEF Handler
<1>7. QED
  BY <1>1, <1>2, <1>3, <1>4, <1>5, <1>6
     DEF Next, vars, Challenge, DropExpired, PrepareAnswered, PrepareEnds,
         VerifyEnds, SettleEnds, Tick

(* Under exclusive ownership a nonce has one entry, wherever it is.        *)
LEMMA EntryIs ==
  ASSUME Ownership, NEW n \in Nonces, NEW e \in Entries(n)
  PROVE  /\ e \in Entry /\ Keeps(e, e)
         /\ pendingPayments[n] # None => e = pendingPayments[n]
         /\ \A h \in Slots : Busy(h) /\ slot[h].nonce = n => e = slot[h].entry
<1>1. \/ e = pendingPayments[n] /\ pendingPayments[n] # None
      \/ \E h \in Slots : Busy(h) /\ slot[h].nonce = n /\ e = slot[h].entry
  BY DEF Entries, Holders
<1>2. e \in Entry
  BY <1>1 DEF Ownership, TypeOK, Handler
<1>3. QED
  BY <1>1, <1>2 DEF Keeps, Ownership, ExclusiveClaim

(* A turn moves the entry between the map and a handler, binds what was    *)
(* not bound, and changes nothing else in it.                              *)
LEMMA KeepsStep ==
  ASSUME Ownership, Unprepared, [Next]_vars, NEW n \in Nonces,
         NEW e \in Entries(n)
  PROVE  \A f \in Entries(n)' : Keeps(e, f)
<1> DEFINE Kept ==
             /\ pendingPayments'[n] # None => Keeps(e, pendingPayments'[n])
             /\ \A g \in Slots : slot'[g].pc # "idle" /\ slot'[g].nonce = n
                                   => Keeps(e, slot'[g].entry)
<1> SUFFICES Kept
  BY DEF Entries, Holders, Busy
<1>0. /\ e \in Entry /\ Keeps(e, e)
      /\ pendingPayments[n] # None => e = pendingPayments[n]
      /\ \A h \in Slots : slot[h].pc # "idle" /\ slot[h].nonce = n
                            => e = slot[h].entry
      /\ ~Fresh(n)
  <2>1. ~Fresh(n)
    BY DEF Entries, Holders, Ownership, Issued, Fresh
  <2>2. QED
    BY <2>1, EntryIs DEF Busy
<1> USE <1>0 DEF Ownership, TypeOK, Busy
<1>1. ASSUME NEW m \in Nonces, NEW rt \in Routes, Challenge(m, rt) PROVE Kept
  BY <1>1 DEF Challenge
<1>2. ASSUME NEW m \in Nonces, DropExpired(m) PROVE Kept
  BY <1>2 DEF DropExpired, Claim
<1>3. ASSUME NEW m \in Nonces, NEW s \in Senders, PrepareAnswered(m, s)
      PROVE  Kept
  <2>1. CASE m = n
    <3>1. pendingPayments'[n] = BindSender(e, s) /\ e.senderAddress \in {None, s}
      BY <1>3, <2>1 DEF PrepareAnswered, MayPrepare
    <3>2. Keeps(e, BindSender(e, s))
      BY <3>1 DEF Keeps, BindSender, Entry
    <3>3. QED
      BY <1>3, <3>1, <3>2 DEF PrepareAnswered
  <2>2. CASE m # n
    BY <1>3, <2>2 DEF PrepareAnswered
  <2>3. QED
    BY <2>1, <2>2
<1>4. ASSUME NEW h \in Slots, NEW m \in Nonces, NEW s \in Senders,
             NEW rt \in Routes, PrepareBegins(h, m, s, rt)
      PROVE  Kept
  <2> DEFINE b == BindSender(pendingPayments[m], s)
             a == [Idle EXCEPT !.pc = "preparing", !.nonce = m, !.route = rt,
                               !.entry = b]
  <2>1. a.nonce = m /\ a.entry = b
    BY DEF Idle
  <2>2. m = n => Keeps(e, b)
    BY <1>4 DEF PrepareBegins, MayPrepare, Keeps, BindSender, Entry
  <2>3. slot' = [slot EXCEPT ![h] = a] /\ pendingPayments' = Claim(m)
    BY <1>4 DEF PrepareBegins
  <2> HIDE DEF a, b
  <2>4. QED
    BY <2>1, <2>2, <2>3 DEF Claim
<1>5. ASSUME NEW h \in Slots, NEW m \in Nonces, NEW p \in Payments,
             NEW rt \in Routes, PayBegins(h, m, p, rt)
      PROVE  Kept
  BY <1>5 DEF PayBegins, Claim
<1>6. ASSUME NEW h \in Slots, NEW r, slot[h].pc # "idle", Finish(h),
             slot[h].nonce = n => Keeps(e, r),
             \/ pendingPayments' = pendingPayments
             \/ pendingPayments' = [pendingPayments EXCEPT ![slot[h].nonce] = r]
      PROVE  Kept
  BY <1>6 DEF Finish, Idle
<1>7. ASSUME NEW h \in Slots, NEW c \in Commitments \cup {None},
             PrepareEnds(h, c)
      PROVE  Kept
  <2>1. slot[h].nonce = n => Keeps(e, [slot[h].entry EXCEPT !.commitment = c])
    BY <1>7 DEF PrepareEnds, Unprepared, Keeps, Entry
  <2>2. QED
    BY <1>6, <1>7, <2>1 DEF PrepareEnds, Restore
<1>8. ASSUME NEW h \in Slots, slot[h].pc # "idle"
      PROVE  slot[h].nonce = n =>
               Keeps(e, [slot[h].entry EXCEPT !.commitment = slot[h].entry.commitment])
  BY <1>8 DEF Keeps, Entry
<1>9. ASSUME NEW h \in Slots, NEW o \in VerifyOutcomes, VerifyEnds(h, o)
      PROVE  Kept
  <2>1. CASE o = "valid"
    <3>1. \A g \in Slots : /\ slot'[g].pc # "idle" => slot[g].pc # "idle"
                           /\ slot'[g].nonce = slot[g].nonce
                           /\ slot'[g].entry = slot[g].entry
      BY <1>9, <2>1 DEF VerifyEnds, Handler
    <3>2. QED
      BY <1>9, <2>1, <3>1 DEF VerifyEnds
  <2>2. CASE o # "valid"
    BY <1>6, <1>8, <1>9, <2>2 DEF VerifyEnds, Restore
  <2>3. QED
    BY <2>1, <2>2
<1>10. ASSUME NEW h \in Slots, NEW o \in SettleOutcomes, SettleEnds(h, o)
       PROVE  Kept
  BY <1>6, <1>8, <1>10 DEF SettleEnds, AfterServing, Restore
<1>11. ASSUME Restart PROVE Kept
  BY <1>11 DEF Restart, Idle
<1>12. ASSUME Tick \/ UNCHANGED vars PROVE Kept
  BY <1>12 DEF Tick, vars
<1>13. QED
  BY <1>1, <1>2, <1>3, <1>4, <1>5, <1>7, <1>9, <1>10, <1>11, <1>12
     DEF Next

(* The deadline, the sender and the commitment of a nonce survive every    *)
(* interleaving of prepares, payments, restores and sweeps.                *)
THEOREM BindingsPersist == Spec => BindingsStick
<1>1. ASSUME Ownership, Unprepared, [Next]_vars
      PROVE  [\A n \in Nonces : \A e \in Entries(n), f \in Entries(n)' :
                Keeps(e, f)]_vars
  BY <1>1, KeepsStep
<1>2. QED
  BY <1>1, UnpreparedInit, UnpreparedStep, OwnershipInvariant, PTL
     DEF Spec, BindingsStick

-----------------------------------------------------------------------------

(* An entry that has a commitment has a sender, and a handler that asks    *)
(* for a commitment has a sender to ask it for.                            *)
Bound(e) == e.commitment # None => e.senderAddress # None
SenderFirst ==
  /\ \A n \in Nonces : pendingPayments[n] # None => Bound(pendingPayments[n])
  /\ \A h \in Slots : Busy(h) => Bound(slot[h].entry)
  /\ \A h \in Slots :
       slot[h].pc = "preparing" => slot[h].entry.senderAddress # None

(* There is no entry at first.                                             *)
LEMMA SenderFirstInit == Init => SenderFirst
BY DEF Init, SenderFirst, Busy, Idle

(* Phase 2 binds the sender before it awaits the commitment; nothing else  *)
(* sets either.                                                            *)
LEMMA SenderFirstStep == Ownership /\ SenderFirst /\ [Next]_vars => SenderFirst'
<1> SUFFICES ASSUME Ownership, SenderFirst, [Next]_vars PROVE SenderFirst'
  OBVIOUS
<1> USE NoneAssumption DEF Ownership, TypeOK, SenderFirst, Busy
<1>1. ASSUME NEW n \in Nonces, NEW rt \in Routes, Challenge(n, rt)
      PROVE  SenderFirst'
  <2>1. Bound(NewEntry(rt))
    BY DEF Bound, NewEntry, NoEntry
  <2>2. QED
    BY <1>1, <2>1 DEF Challenge
<1>2. ASSUME NEW n \in Nonces, DropExpired(n) PROVE SenderFirst'
  BY <1>2 DEF DropExpired, Claim
<1>3. ASSUME NEW n \in Nonces, NEW s \in Senders, PrepareAnswered(n, s)
      PROVE  SenderFirst'
  <2>1. Bound(BindSender(pendingPayments[n], s))
    BY <1>3 DEF PrepareAnswered, MayPrepare, Bound, BindSender, Entry
  <2>2. QED
    BY <1>3, <2>1 DEF PrepareAnswered
<1>4. ASSUME NEW h \in Slots, NEW n \in Nonces, NEW s \in Senders,
             NEW rt \in Routes, PrepareBegins(h, n, s, rt)
      PROVE  SenderFirst'
  <2> DEFINE b == BindSender(pendingPayments[n], s)
             a == [Idle EXCEPT !.pc = "preparing", !.nonce = n, !.route = rt,
                               !.entry = b]
  <2>1. Bound(b) /\ b.senderAddress # None
    BY <1>4 DEF PrepareBegins, MayPrepare, Bound, BindSender, Entry
  <2>2. a.entry = b
    BY DEF Idle
  <2>3. slot' = [slot EXCEPT ![h] = a] /\ pendingPayments' = Claim(n)
    BY <1>4 DEF PrepareBegins
  <2> HIDE DEF a, b
  <2>4. QED
    BY <2>1, <2>2, <2>3 DEF Claim
<1>5. ASSUME NEW h \in Slots, NEW n \in Nonces, NEW p \in Payments,
             NEW rt \in Routes, PayBegins(h, n, p, rt)
      PROVE  SenderFirst'
  BY <1>5 DEF PayBegins, Claim
<1>6. ASSUME NEW h \in Slots, slot[h].pc # "idle", Finish(h), NEW r, Bound(r),
             \/ pendingPayments' = pendingPayments
             \/ pendingPayments' = [pendingPayments EXCEPT ![slot[h].nonce] = r]
      PROVE  SenderFirst'
  <2>1. Idle.pc = "idle"
    BY DEF Idle
  <2>2. QED
    BY <1>6, <2>1 DEF Finish
<1>7. ASSUME NEW h \in Slots, NEW c \in Commitments \cup {None},
             PrepareEnds(h, c)
      PROVE  SenderFirst'
  <2>1. Bound([slot[h].entry EXCEPT !.commitment = c])
    BY <1>7 DEF PrepareEnds, Bound, Handler, Entry
  <2>2. QED
    BY <1>6, <1>7, <2>1 DEF PrepareEnds, Restore
<1>8. ASSUME NEW h \in Slots, slot[h].pc # "idle"
      PROVE  Bound([slot[h].entry EXCEPT !.commitment = slot[h].entry.commitment])
  BY <1>8 DEF Bound, Handler, Entry
<1>9. ASSUME NEW h \in Slots, NEW o \in VerifyOutcomes, VerifyEnds(h, o)
      PROVE  SenderFirst'
  <2>1. CASE o = "valid"
    <3>1. \A g \in Slots : /\ slot'[g].pc # "idle" => slot[g].pc # "idle"
                           /\ slot'[g].pc = "preparing" => slot[g].pc = "preparing"
                           /\ slot'[g].entry = slot[g].entry
      BY <1>9, <2>1 DEF VerifyEnds, Handler
    <3>2. QED
      BY <1>9, <2>1, <3>1 DEF VerifyEnds
  <2>2. CASE o # "valid"
    BY <1>6, <1>8, <1>9, <2>2 DEF VerifyEnds, Restore
  <2>3. QED
    BY <2>1, <2>2
<1>10. ASSUME NEW h \in Slots, NEW o \in SettleOutcomes, SettleEnds(h, o)
       PROVE  SenderFirst'
  BY <1>6, <1>8, <1>10 DEF SettleEnds, AfterServing, Restore
<1>11. CASE Restart
  BY <1>11 DEF Restart, Idle
<1>12. CASE Tick \/ UNCHANGED vars
  BY <1>12 DEF Tick, vars
<1>13. QED
  BY <1>1, <1>2, <1>3, <1>4, <1>5, <1>7, <1>9, <1>10, <1>11, <1>12
     DEF Next

(* Every commitment in an entry was made for the sender of that entry.     *)
THEOREM CommitmentsHaveSenders == Spec => []CommitmentHasSender
<1>1. Ownership /\ SenderFirst => CommitmentHasSender
  BY DEF CommitmentHasSender, SenderFirst, Bound, Entries, Holders
<1>2. QED
  BY <1>1, SenderFirstInit, SenderFirstStep, OwnershipInvariant, PTL DEF Spec
=============================================================================
