---------------------------- MODULE Gates_proofs -----------------------------
(***************************************************************************)
(* Theorems about what stands before the handlers: RateLimit, then         *)
(* Admission as FalconBridge uses it, and the calls of FalconBridge.       *)
(*                                                                         *)
(* RateLimit: types, the bound on what a bucket grants, and the honesty of *)
(* Retry-After.  The argument goes through Balance, the tokens a bucket    *)
(* would show if it were refilled at every moment and never dropped: a     *)
(* request spends from it, a unit of time adds the rate up to the          *)
(* capacity, and the sweep does not change it, because what it drops has   *)
(* been idle long enough to have filled up.  That last step is where       *)
(* IdleAssumption is needed.                                               *)
(*                                                                         *)
(* Admission: the bytes that inCidr compares one by one, the last under a  *)
(* mask, are equal exactly when the addresses, as numbers, lie in one      *)
(* block of the size that the mask leaves (ByteStep, by induction over the *)
(* bytes); and what checkAdmin accepts is the one secret that was set.     *)
(*                                                                         *)
(* FalconBridge: BridgeInv, whose clause for a call (CallInv) ties its     *)
(* headers, the gates it passed, its child and its directory to the stage  *)
(* it is in.                                                               *)
(***************************************************************************)
EXTENDS RateLimit, FalconBridge, SequenceTheorems, WellFoundedInduction, TLAPS

-------------------------------------------------------------------------------
(* Arithmetic.                                                               *)

\* A quotient, as the rounding up of RetrySec uses it.
LEMMA Division ==
  ASSUME NEW x \in Int, NEW d \in Nat \ {0}
  PROVE  x \div d \in Int /\ d * (x \div d) <= x /\ x < d * (x \div d) + d
  BY SMT

\* The seconds a client is told to wait cover what it lacks.
LEMMA CeilDivCovers ==
  ASSUME NEW x \in Int, NEW d \in Nat \ {0}
  PROVE  CeilDiv(x, d) \in Int /\ d * CeilDiv(x, d) >= x
<1> DEFINE y == x + d - 1
<1>1. y \in Int  OBVIOUS
<1>2. y \div d \in Int /\ y < d * (y \div d) + d  BY <1>1, Division
<1>3. d * (y \div d) \in Int  BY <1>2
<1> QED BY <1>1, <1>2, <1>3 DEF CeilDiv

LEMMA Distributes ==
  ASSUME NEW x \in Int, NEW y \in Int, NEW z \in Int
  PROVE  x * (y + z) = x * y + x * z /\ x * (y - z) = x * y - x * z
  BY SMT

LEMMA Monotone ==
  ASSUME NEW x \in Nat, NEW y \in Int, NEW z \in Int, y <= z
  PROVE  x * y <= x * z /\ x * y \in Int /\ x * z \in Int
  BY SMT

\* A whole unit is there.
LEMMA AtLeastOne ==
  ASSUME NEW x \in Nat, NEW d \in Nat \ {0}
  PROVE  x \div d >= 1 <=> x >= d
<1> DEFINE q == x \div d
<1>1. q \in Int /\ d * q <= x /\ x < d * q + d  BY Division
<1> HIDE DEF q
<1>2. q >= 1 => d * 1 <= d * q  BY <1>1, Monotone
<1>3. q <= 0 => d * q <= d * 0  BY <1>1, Monotone
<1>4. d * 1 = d /\ d * 0 = 0 /\ d * q \in Int  BY <1>1
<1> QED BY <1>1, <1>2, <1>3, <1>4 DEF q

-------------------------------------------------------------------------------
(* Buckets.                                                                  *)

\* The rate and the capacity of a bucket.
LEMMA RatesAndCapacities ==
  ASSUME NEW b \in Bucket
  PROVE  /\ Of(b) \in Holder
         /\ Rate(b) \in Nat \ {0}
         /\ Full(b) \in Nat /\ Full(b) >= Minute /\ Full(b) = Rate(b) * Minute
<1>1. Of(b) \in Holder /\ Rate(b) \in Nat \ {0}
  BY RateAssumption DEF Bucket, Of, Holder, Throttled, Rate
<1>2. Rate(b) * Minute >= Minute /\ Rate(b) * Minute \in Nat
  BY <1>1, RateAssumption
<1> QED BY <1>1, <1>2 DEF Full

\* An entry was never refilled after it was last seen, nor above its capacity.
Dated ==
  \A b \in Bucket :
    /\ tokens[b] <= Full(b)
    /\ Of(b) \in held => last[b] <= seen[Of(b)] /\ seen[Of(b)] <= now

\* What TypeOK and Dated say of one bucket.
LEMMA OneBucket ==
  ASSUME TypeOK, Dated, NEW b \in Bucket
  PROVE  /\ now \in Nat /\ last[b] \in Nat /\ tokens[b] \in Nat
         /\ Of(b) \in held => /\ now - last[b] \in Nat
                              /\ (now - last[b]) * Rate(b) \in Nat
         /\ Balance(b) \in Nat /\ Balance(b) <= Full(b)
<1>1. Of(b) \in Holder /\ Rate(b) \in Nat \ {0} /\ Full(b) \in Nat
  BY RatesAndCapacities
<1>2. now \in Nat /\ last[b] \in Nat /\ tokens[b] \in Nat /\ tokens[b] <= Full(b)
  BY DEF TypeOK, Dated
<1>3. ASSUME Of(b) \in held
      PROVE  now - last[b] \in Nat /\ (now - last[b]) * Rate(b) \in Nat
  <2>1. last[b] <= seen[Of(b)] /\ seen[Of(b)] <= now /\ seen[Of(b)] \in Nat
    BY <1>1, <1>3 DEF TypeOK, Dated
  <2>2. now - last[b] \in Nat  BY <1>2, <2>1
  <2> QED BY <2>2, <1>1
<1>4. Balance(b) \in Nat /\ Balance(b) <= Full(b)
  <2>1. CASE Of(b) \in held
    BY <2>1, <1>1, <1>2, <1>3 DEF Balance, Refilled, Smaller
  <2>2. CASE Of(b) \notin held
    BY <2>2, <1>1 DEF Balance
  <2> QED BY <2>1, <2>2
<1> QED BY <1>2, <1>3, <1>4

\* A request takes one token from each bucket it names that has one, and changes no
\* other balance.
LEMMA ChargeSpends ==
  ASSUME TypeOK, Dated, NEW o \in Holder, NEW S \in SUBSET Bucket,
         \A b \in S : Of(b) = o,
         HasEntry(o), Charge(o, S), now' = now
  PROVE  \A b \in Bucket : Balance(b)' = IF b \in S THEN Spent(b) ELSE Balance(b)
<1> SUFFICES ASSUME NEW b \in Bucket
             PROVE  Balance(b)' = IF b \in S THEN Spent(b) ELSE Balance(b)
  OBVIOUS
<1>1. /\ held' = held \cup {o}
      /\ tokens'[b] = IF b \in S THEN Spent(b)
                      ELSE IF Of(b) = o /\ o \notin held THEN Full(b) ELSE tokens[b]
      /\ last'[b] = IF b \in S \/ (Of(b) = o /\ o \notin held) THEN now ELSE last[b]
  BY DEF Charge
<1>2. Full(b) \in Nat /\ Rate(b) \in Nat /\ now \in Nat /\ Balance(b) \in Nat
      /\ Balance(b) <= Full(b) /\ Minute \in Nat
  BY OneBucket, RatesAndCapacities, RateAssumption
<1>3. Balance(b)' = IF Of(b) \in held'
                      THEN Smaller(Full(b), tokens'[b] + (now - last'[b]) * Rate(b))
                      ELSE Full(b)
  BY DEF Balance, Refilled, Of, Full, Rate, Smaller
<1>4. (now - now) * Rate(b) = 0  BY <1>2
<1>5. CASE b \in S
  <2>1. Of(b) \in held' /\ last'[b] = now /\ tokens'[b] = Spent(b)  BY <1>1, <1>5
  <2>2. Spent(b) \in Nat /\ Spent(b) <= Full(b)  BY <1>2 DEF Spent
  <2> QED BY <1>2, <1>3, <1>4, <1>5, <2>1, <2>2 DEF Smaller
<1>6. CASE b \notin S /\ Of(b) = o /\ o \notin held
  <2>1. Of(b) \in held' /\ last'[b] = now /\ tokens'[b] = Full(b)  BY <1>1, <1>6
  <2>2. Balance(b) = Full(b)  BY <1>6 DEF Balance
  <2> QED BY <1>2, <1>3, <1>4, <1>6, <2>1, <2>2 DEF Smaller
<1>7. CASE b \notin S /\ ~(Of(b) = o /\ o \notin held)
  <2>1. (Of(b) \in held' <=> Of(b) \in held) /\ last'[b] = last[b]
        /\ tokens'[b] = tokens[b]
    BY <1>1, <1>7
  <2> QED BY <1>3, <1>7, <2>1 DEF Balance, Refilled
<1> QED BY <1>5, <1>6, <1>7

\* The sweep drops only entries whose buckets have filled up: no balance changes.
LEMMA SweepIsUnseen ==
  ASSUME TypeOK, Dated, Sweep
  PROVE  \A b \in Bucket : Balance(b)' = Balance(b)
<1> SUFFICES ASSUME NEW b \in Bucket PROVE Balance(b)' = Balance(b)
  OBVIOUS
<1> DEFINE S == {o \in held : seen[o] < now - Idle}
<1>1. /\ held' = held \ S /\ now' = now
      /\ tokens'[b] = IF Of(b) \in S THEN Full(b) ELSE tokens[b]
      /\ last'[b] = IF Of(b) \in S THEN 0 ELSE last[b]
  BY DEF Sweep, Drop
<1>2. Balance(b)' = IF Of(b) \in held'
                      THEN Smaller(Full(b), tokens'[b] + (now - last'[b]) * Rate(b))
                      ELSE Full(b)
  BY <1>1 DEF Balance, Refilled, Of, Full, Rate, Smaller
<1>3. CASE Of(b) \in S
  <2>1. Balance(b)' = Full(b)  BY <1>1, <1>2, <1>3
  <2>2. /\ Rate(b) \in Nat \ {0} /\ Full(b) = Rate(b) * Minute /\ Full(b) \in Nat
        /\ tokens[b] \in Nat /\ last[b] \in Nat /\ now \in Nat
        /\ Of(b) \in held /\ Of(b) \in Holder
    BY <1>3, OneBucket, RatesAndCapacities
  <2>3. last[b] <= seen[Of(b)] /\ seen[Of(b)] \in Nat /\ seen[Of(b)] < now - Idle
    BY <1>3, <2>2 DEF Dated, TypeOK
  <2>4. Minute <= now - last[b] /\ Minute \in Int /\ now - last[b] \in Int
    BY <2>2, <2>3, RateAssumption, IdleAssumption
  <2>5. Rate(b) * Minute <= Rate(b) * (now - last[b])
    BY <2>2, <2>4, Monotone
  <2>6. Rate(b) * (now - last[b]) = (now - last[b]) * Rate(b)
        /\ (now - last[b]) * Rate(b) \in Int
    BY <2>2, <2>4
  <2> DEFINE more == (now - last[b]) * Rate(b)
  <2>7. more \in Int /\ Full(b) <= more
    BY <2>2, <2>5, <2>6
  <2> HIDE DEF more
  <2>8. tokens[b] + more >= Full(b) /\ tokens[b] + more \in Int
    BY <2>2, <2>7
  <2>9. Refilled(b) = Smaller(Full(b), tokens[b] + more)
    BY DEF Refilled, more
  <2>10. Refilled(b) = Full(b)
    BY <2>2, <2>8, <2>9 DEF Smaller
  <2> QED BY <2>1, <2>2, <2>10 DEF Balance
<1>4. CASE Of(b) \notin S
  <2>1. (Of(b) \in held' <=> Of(b) \in held) /\ tokens'[b] = tokens[b] /\ last'[b] = last[b]
    BY <1>1, <1>4
  <2> QED BY <1>2, <2>1 DEF Balance, Refilled
<1> QED BY <1>3, <1>4

\* A unit of time adds the rate, up to the capacity.
LEMMA TickRefills ==
  ASSUME TypeOK, Dated, Tick
  PROVE  \A b \in Bucket : Balance(b)' = Smaller(Full(b), Balance(b) + Rate(b))
<1> SUFFICES ASSUME NEW b \in Bucket
             PROVE  Balance(b)' = Smaller(Full(b), Balance(b) + Rate(b))
  OBVIOUS
<1>1. now' = now + 1 /\ held' = held /\ tokens' = tokens /\ last' = last
  BY DEF Tick, entries
<1>2. Balance(b)' = IF Of(b) \in held'
                      THEN Smaller(Full(b), tokens'[b] + (now' - last'[b]) * Rate(b))
                      ELSE Full(b)
  BY DEF Balance, Refilled, Of, Full, Rate, Smaller
<1>3. /\ Rate(b) \in Nat \ {0} /\ Full(b) \in Nat /\ tokens[b] \in Nat
      /\ last[b] \in Nat /\ now \in Nat
  BY OneBucket, RatesAndCapacities
<1>4. CASE Of(b) \in held
  <2> DEFINE more == (now - last[b]) * Rate(b)
  <2>1. (now' - last'[b]) * Rate(b) = more + Rate(b) /\ more \in Int
    <3> DEFINE d == now - last[b]
               r == Rate(b)
    <3>1. d \in Int /\ r \in Int /\ now' - last'[b] = d + 1
      BY <1>1, <1>3
    <3> HIDE DEF d, r
    <3>2. (d + 1) * r = d * r + r /\ d * r \in Int
      BY <3>1
    <3> QED BY <3>1, <3>2 DEF d, r
  <2>2. Balance(b) = Smaller(Full(b), tokens[b] + more)
    BY <1>4 DEF Balance, Refilled
  <2>3. Balance(b)' = Smaller(Full(b), tokens[b] + (more + Rate(b)))
    BY <1>1, <1>2, <1>4, <2>1
  <2> HIDE DEF more
  <2> QED BY <1>3, <2>1, <2>2, <2>3 DEF Smaller
<1>5. CASE Of(b) \notin held
  BY <1>1, <1>2, <1>3, <1>5 DEF Balance, Smaller
<1> QED BY <1>4, <1>5

-------------------------------------------------------------------------------
(* The inductive invariant.                                                  *)

\* What was granted and what is left never exceed what there was and was refilled.
Measured ==
  /\ since = Never => granted = 0
  /\ since # Never =>
       /\ since <= now
       /\ granted * Minute + Balance(watch) <= Full(watch) + Rate(watch) * (now - since)

\* A token is there, or will be when the client comes back.
Waited ==
  retryAt # Never =>
    \/ Balance(watch) >= Minute
    \/ Balance(watch) + Rate(watch) * (retryAt - now) >= Minute

IInv == TypeOK /\ Dated /\ Measured /\ Waited

LEMMA InitIInv == Init => IInv
<1> SUFFICES ASSUME Init PROVE IInv
  OBVIOUS
<1>1. \A b \in Bucket : Full(b) \in Nat
  BY RatesAndCapacities
<1>2. TypeOK
  BY <1>1 DEF Init, TypeOK, Never
<1>3. Dated
  BY <1>1 DEF Init, Dated
<1> QED BY <1>2, <1>3 DEF IInv, Measured, Waited, Init

\* The seconds sent to a refused client are a natural number and refill what it lacks.
LEMMA RetryCovers ==
  ASSUME NEW b \in Bucket, Balance(b) \in Nat
  PROVE  /\ RetrySec(b) \in Nat /\ Sec * RetrySec(b) \in Nat
         /\ Balance(b) + Rate(b) * (Sec * RetrySec(b)) >= Minute
<1> DEFINE x == Minute - Balance(b)
           d == Sec * Rate(b)
<1>1. /\ Rate(b) \in Nat \ {0} /\ Sec \in Nat \ {0} /\ Minute \in Nat \ {0}
  BY RatesAndCapacities, RateAssumption
<1>2. x \in Int /\ d \in Nat \ {0}  BY <1>1
<1>3. CeilDiv(x, d) \in Int /\ d * CeilDiv(x, d) >= x  BY <1>2, CeilDivCovers
<1>4. RetrySec(b) = IF CeilDiv(x, d) < 1 THEN 1 ELSE CeilDiv(x, d)  BY DEF RetrySec
<1>5. RetrySec(b) \in Nat /\ CeilDiv(x, d) <= RetrySec(b)  BY <1>3, <1>4
<1>6. d * CeilDiv(x, d) <= d * RetrySec(b)
  BY <1>2, <1>3, <1>5, Monotone
<1>7. Rate(b) * (Sec * RetrySec(b)) = d * RetrySec(b) /\ d * RetrySec(b) \in Int
      /\ Sec * RetrySec(b) \in Nat
  BY <1>1, <1>5
<1>8. d * CeilDiv(x, d) \in Int  BY <1>2, <1>3
<1> HIDE DEF d
<1>9. d * RetrySec(b) >= x  BY <1>2, <1>3, <1>6, <1>7, <1>8
<1> QED BY <1>1, <1>5, <1>7, <1>9

\* The watched bucket in the next state is the bucket that was watched.
LEMMA WatchedBucket ==
  ASSUME UNCHANGED watch, NEW b, b = watch
  PROVE  /\ Balance(watch)' = Balance(b)'
         /\ Full(watch)' = Full(watch) /\ Rate(watch)' = Rate(watch)
BY DEF Balance, Refilled, Of, Full, Rate, Smaller

\* A step that spends from the buckets S of one owner preserves the invariant but for
\* the requests being read.
LEMMA ChargeStep ==
  ASSUME IInv, NEW o \in Holder, NEW S \in SUBSET Bucket, \A b \in S : Of(b) = o,
         Charge(o, S), UNCHANGED <<now, watch>>, reading' \in Nat
  PROVE  IInv'
<1> USE DEF IInv
<1>1. CASE ~HasEntry(o)
  <2>1. UNCHANGED <<now, entries, watch, history>>  BY <1>1 DEF Charge
  <2> QED BY <2>1 DEF entries, history, TypeOK, Dated, Measured, Waited, Balance,
             Refilled, Of, Full, Rate, Smaller
<1>2. CASE HasEntry(o)
  <2>1. /\ held' = held \cup {o} /\ now' = now /\ watch' = watch
        /\ seen' = [seen EXCEPT ![o] = now]
        /\ \A b \in Bucket :
             /\ tokens'[b] = IF b \in S THEN Spent(b)
                             ELSE IF Of(b) = o /\ o \notin held THEN Full(b) ELSE tokens[b]
             /\ last'[b] = IF b \in S \/ (Of(b) = o /\ o \notin held)
                             THEN now ELSE last[b]
        /\ DOMAIN tokens' = Bucket /\ DOMAIN last' = Bucket
        /\ tokens' = [b \in Bucket |-> tokens'[b]] /\ last' = [b \in Bucket |-> last'[b]]
        /\ Noted(S)
    BY <1>2 DEF Charge
  <2>2. \A b \in Bucket : /\ Full(b) \in Nat /\ Rate(b) \in Nat \ {0}
                          /\ Balance(b) \in Nat /\ Balance(b) <= Full(b)
                          /\ Of(b) \in Holder
    BY OneBucket, RatesAndCapacities
  <2>3. Minute \in Nat \ {0} /\ now \in Nat /\ Sec \in Nat \ {0} /\ watch \in Bucket
    BY RateAssumption DEF TypeOK
  <2>4. \A b \in Bucket : Spent(b) \in Nat /\ Spent(b) <= Full(b)
    BY <2>2, <2>3 DEF Spent
  <2>5. \A b \in Bucket : Balance(b)' = IF b \in S THEN Spent(b) ELSE Balance(b)
    BY <1>2, ChargeSpends
  <2>6. Balance(watch)' = (IF watch \in S THEN Spent(watch) ELSE Balance(watch))
        /\ Full(watch)' = Full(watch) /\ Rate(watch)' = Rate(watch)
    <3>1. PICK b \in Bucket : b = watch  BY <2>3
    <3>2. Balance(watch)' = Balance(b)' /\ Full(watch)' = Full(watch)
          /\ Rate(watch)' = Rate(watch)
      BY <2>1, <3>1, WatchedBucket
    <3> QED BY <2>5, <3>1, <3>2
  <2>7. /\ since' = since
        /\ watch \notin S => granted' = granted /\ retryAt' = retryAt
        /\ watch \in S /\ Balance(watch) >= Minute =>
             /\ retryAt' = Never
             /\ granted' = IF since # Never THEN granted + 1 ELSE granted
        /\ watch \in S /\ ~(Balance(watch) >= Minute) =>
             /\ retryAt' = now + Sec * RetrySec(watch)
             /\ granted' = granted
    BY <2>1 DEF Noted
  <2>8. /\ RetrySec(watch) \in Nat /\ Sec * RetrySec(watch) \in Nat
        /\ Balance(watch) + Rate(watch) * (Sec * RetrySec(watch)) >= Minute
    BY <2>2, <2>3, RetryCovers
  <2>9. TypeOK'
    <3>1. tokens' \in [Bucket -> Nat]
      BY <2>1, <2>2, <2>4 DEF TypeOK
    <3>2. last' \in [Bucket -> Nat]
      BY <2>1, <2>3 DEF TypeOK
    <3>3. seen' \in [Holder -> Nat] /\ held' \subseteq Holder
      BY <2>1, <2>3 DEF TypeOK
    <3>4. granted' \in Nat /\ retryAt' \in Nat \cup {Never} /\ since' \in Nat \cup {Never}
      BY <2>3, <2>7, <2>8 DEF TypeOK
    <3> QED BY <2>1, <3>1, <3>2, <3>3, <3>4 DEF TypeOK
  <2>10. Dated'
    <3> SUFFICES ASSUME NEW b \in Bucket
                 PROVE  /\ tokens'[b] <= Full(b)
                        /\ Of(b) \in held' =>
                             last'[b] <= seen'[Of(b)] /\ seen'[Of(b)] <= now'
      BY DEF Dated, Of, Full, Rate
    <3>1. tokens'[b] <= Full(b)
      BY <2>1, <2>2, <2>4 DEF Dated
    <3>2. last[b] \in Nat /\ (Of(b) \in held => last[b] <= seen[Of(b)] /\ seen[Of(b)] <= now)
          /\ seen \in [Holder -> Nat] /\ Of(b) \in Holder
      BY <2>2 DEF TypeOK, Dated
    <3>3. CASE Of(b) = o
      <4>1. seen'[Of(b)] = now  BY <2>1, <3>2, <3>3
      <4>2. last'[b] <= now  BY <2>1, <2>3, <3>2, <3>3
      <4> QED BY <2>1, <2>3, <3>1, <4>1, <4>2
    <3>4. CASE Of(b) # o
      <4>1. seen'[Of(b)] = seen[Of(b)] /\ b \notin S /\ (Of(b) \in held' <=> Of(b) \in held)
        BY <2>1, <3>2, <3>4
      <4> QED BY <2>1, <3>1, <3>2, <3>4, <4>1
    <3> QED BY <3>3, <3>4
  <2>11. Measured'
    <3>1. CASE since = Never
      BY <2>7, <3>1 DEF Measured
    <3>2. CASE since # Never
      <4> DEFINE most == Full(watch) + Rate(watch) * (now - since)
      <4>1. since <= now /\ granted * Minute + Balance(watch) <= most
            /\ most \in Int /\ granted \in Nat
        BY <2>2, <2>3, <3>2 DEF Measured, TypeOK
      <4>2. granted * Minute \in Int /\ (granted + 1) * Minute = granted * Minute + Minute
        BY <2>3, <4>1
      <4>3. granted' * Minute + (IF watch \in S THEN Spent(watch) ELSE Balance(watch)) <= most
        <5> HIDE DEF most
        <5>1. CASE watch \in S /\ Balance(watch) >= Minute
          <6>1. granted' = granted + 1 /\ Spent(watch) = Balance(watch) - Minute
            BY <2>7, <3>2, <5>1 DEF Spent
          <6> QED BY <2>2, <2>3, <4>1, <4>2, <5>1, <6>1
        <5>2. CASE ~(watch \in S /\ Balance(watch) >= Minute)
          <6>1. granted' = granted  BY <2>7, <5>2
          <6>2. (IF watch \in S THEN Spent(watch) ELSE Balance(watch)) = Balance(watch)
            BY <5>2 DEF Spent
          <6> QED BY <4>1, <6>1, <6>2
        <5> QED BY <5>1, <5>2
      <4> QED BY <2>1, <2>6, <2>7, <3>2, <4>1, <4>3 DEF Measured, Never
    <3> QED BY <3>1, <3>2
  <2>12. Waited'
    <3>1. CASE watch \notin S
      BY <2>1, <2>6, <2>7, <3>1 DEF Waited, Never
    <3>2. CASE watch \in S /\ Balance(watch) >= Minute
      BY <2>7, <3>2 DEF Waited, Never
    <3>3. CASE watch \in S /\ ~(Balance(watch) >= Minute)
      <4>1. Balance(watch)' = Balance(watch)
        BY <2>6, <3>3 DEF Spent
      <4>2. retryAt' - now' = Sec * RetrySec(watch)
        BY <2>1, <2>3, <2>7, <2>8, <3>3
      <4> QED BY <2>6, <2>8, <4>1, <4>2 DEF Waited
    <3> QED BY <3>1, <3>2, <3>3
  <2> QED BY <2>9, <2>10, <2>11, <2>12
<1> QED BY <1>1, <1>2

LEMMA SweepStep == IInv /\ Sweep => IInv'
<1> SUFFICES ASSUME IInv, Sweep PROVE IInv'
  OBVIOUS
<1> USE DEF IInv
<1> DEFINE S == {o \in held : seen[o] < now - Idle}
<1>1. /\ held' = held \ S
      /\ seen'   = [o \in Holder |-> IF o \in S THEN 0 ELSE seen[o]]
      /\ tokens' = [b \in Bucket |-> IF Of(b) \in S THEN Full(b) ELSE tokens[b]]
      /\ last'   = [b \in Bucket |-> IF Of(b) \in S THEN 0 ELSE last[b]]
      /\ UNCHANGED <<now, reading, watch, since, granted, retryAt>>
  BY DEF Sweep, Drop, history
<1>2. \A b \in Bucket : Full(b) \in Nat /\ Of(b) \in Holder
  BY RatesAndCapacities
<1>3. TypeOK'
  BY <1>1, <1>2 DEF TypeOK
<1>4. Dated'
  <2> SUFFICES ASSUME NEW b \in Bucket
               PROVE  /\ tokens'[b] <= Full(b)
                      /\ Of(b) \in held' => last'[b] <= seen'[Of(b)] /\ seen'[Of(b)] <= now'
    BY DEF Dated, Of, Full, Rate
  <2> QED BY <1>1, <1>2 DEF Dated
<1>5. Balance(watch)' = Balance(watch) /\ Full(watch)' = Full(watch)
      /\ Rate(watch)' = Rate(watch)
  <2>1. PICK b \in Bucket : b = watch  BY DEF TypeOK
  <2>2. Balance(b)' = Balance(b)  BY SweepIsUnseen
  <2> QED BY <1>1, <2>1, <2>2, WatchedBucket
<1>6. Measured' /\ Waited'
  BY <1>1, <1>5 DEF Measured, Waited
<1> QED BY <1>3, <1>4, <1>6

LEMMA TickStep == IInv /\ Tick => IInv'
<1> SUFFICES ASSUME IInv, Tick PROVE IInv'
  OBVIOUS
<1> USE DEF IInv
<1>1. now' = now + 1
      /\ UNCHANGED <<held, seen, tokens, last, reading, watch, since, granted, retryAt>>
  BY DEF Tick, entries, history
<1>2. TypeOK'
  BY <1>1 DEF TypeOK
<1>3. Dated'
  <2> SUFFICES ASSUME NEW b \in Bucket
               PROVE  /\ tokens'[b] <= Full(b)
                      /\ Of(b) \in held' => last'[b] <= seen'[Of(b)] /\ seen'[Of(b)] <= now'
    BY DEF Dated, Of, Full, Rate
  <2>1. Of(b) \in Holder  BY RatesAndCapacities
  <2> QED BY <1>1, <2>1 DEF Dated, TypeOK
<1>4. /\ Balance(watch)' = Smaller(Full(watch), Balance(watch) + Rate(watch))
      /\ Full(watch)' = Full(watch) /\ Rate(watch)' = Rate(watch)
  <2>1. PICK b \in Bucket : b = watch  BY DEF TypeOK
  <2>2. Balance(b)' = Smaller(Full(b), Balance(b) + Rate(b))  BY TickRefills
  <2> QED BY <1>1, <2>1, <2>2, WatchedBucket
<1>5. /\ Full(watch) \in Nat /\ Full(watch) >= Minute /\ Rate(watch) \in Nat \ {0}
      /\ Balance(watch) \in Nat /\ now \in Nat /\ Minute \in Nat
  BY OneBucket, RatesAndCapacities, RateAssumption DEF TypeOK
<1>6. Measured'
  <2>1. CASE since = Never
    BY <1>1, <2>1 DEF Measured
  <2>2. CASE since # Never
    <3> DEFINE refilled == Rate(watch) * (now - since)
    <3>1. since \in Nat /\ since <= now /\ granted \in Nat
          /\ granted * Minute + Balance(watch) <= Full(watch) + refilled
      BY <2>2 DEF Measured, TypeOK
    <3>2. Rate(watch) * (now' - since) = refilled + Rate(watch) /\ refilled \in Int
          /\ granted * Minute \in Int
      BY <1>1, <1>5, <3>1
    <3> HIDE DEF refilled
    <3>3. granted * Minute + Smaller(Full(watch), Balance(watch) + Rate(watch))
            <= Full(watch) + Rate(watch) * (now' - since)
      BY <1>5, <3>1, <3>2 DEF Smaller
    <3> QED BY <1>1, <1>4, <1>5, <2>2, <3>1, <3>3 DEF Measured
  <2> QED BY <2>1, <2>2
<1>7. Waited'
  <2> SUFFICES ASSUME retryAt # Never PROVE Waited'
    BY <1>1 DEF Waited
  <2>1. CASE Balance(watch) >= Minute
    BY <1>4, <1>5, <2>1 DEF Waited, Smaller
  <2>2. CASE Balance(watch) + Rate(watch) * (retryAt - now) >= Minute
    <3> DEFINE soon == Rate(watch) * (retryAt - now)
    <3>1. retryAt \in Nat  BY DEF TypeOK
    <3>2. Rate(watch) * (retryAt - now') = soon - Rate(watch) /\ soon \in Int
      BY <1>1, <1>5, <3>1
    <3> HIDE DEF soon
    <3>3. Balance(watch) + soon >= Minute  BY <2>2 DEF soon
    <3>4. \/ Balance(watch)' >= Minute
          \/ Balance(watch)' + Rate(watch) * (retryAt - now') >= Minute
      BY <1>4, <1>5, <3>2, <3>3 DEF Smaller
    <3> QED BY <1>1, <1>4, <3>4 DEF Waited
  <2> QED BY <2>1, <2>2 DEF Waited
<1> QED BY <1>2, <1>3, <1>6, <1>7

LEMMA StartPeriodStep == IInv /\ StartPeriod => IInv'
<1> SUFFICES ASSUME IInv, StartPeriod PROVE IInv'
  OBVIOUS
<1> USE DEF IInv
<1>1. /\ since = Never /\ since' = now /\ granted = 0
      /\ UNCHANGED <<now, held, seen, tokens, last, reading, watch, granted, retryAt>>
  BY DEF StartPeriod, entries, Measured
<1>2. TypeOK' /\ Dated'
  BY <1>1 DEF TypeOK, Dated, Of, Full, Rate
<1>3. Balance(watch)' = Balance(watch) /\ Full(watch)' = Full(watch)
      /\ Rate(watch)' = Rate(watch)
  BY <1>1 DEF Balance, Refilled, Of, Full, Rate, Smaller
<1>4. Waited'
  BY <1>1, <1>3 DEF Waited
<1>5. Measured'
  <2>1. /\ Full(watch) \in Nat /\ Rate(watch) \in Nat /\ Balance(watch) <= Full(watch)
        /\ Balance(watch) \in Nat /\ now \in Nat /\ Minute \in Nat
    BY OneBucket, RatesAndCapacities, RateAssumption DEF TypeOK
  <2>2. 0 * Minute = 0 /\ Rate(watch) * (now - now) = 0
    BY <2>1
  <2>3. granted' * Minute + Balance(watch)' <= Full(watch)' + Rate(watch)' * (now' - since')
    BY <1>1, <1>3, <2>1, <2>2
  <2> QED BY <1>1, <2>1, <2>3 DEF Measured, Never
<1> QED BY <1>2, <1>4, <1>5

LEMMA NextIInv == IInv /\ [Next]_vars => IInv'
<1> SUFFICES ASSUME IInv, [Next]_vars PROVE IInv'
  OBVIOUS
<1>1. reading \in Nat  BY DEF IInv, TypeOK
<1>2. ASSUME NEW i \in Ip, NEW c \in Category, Request(i, c) PROVE IInv'
  <2>1. /\ i \in Holder /\ {<<i, c>>} \in SUBSET Bucket /\ Charge(i, {<<i, c>>})
        /\ \A b \in {<<i, c>>} : Of(b) = i
        /\ UNCHANGED <<now, watch>> /\ reading' \in Nat
    BY <1>1, <1>2 DEF Request, Holder, Bucket, Of
  <2> QED BY <2>1, ChargeStep
<1>3. ASSUME NEW i \in Ip, AdminRequest(i) PROVE IInv'
  <2>1. /\ i \in Holder /\ {<<i, "admin">>} \in SUBSET Bucket
        /\ Charge(i, {<<i, "admin">>})
        /\ \A b \in {<<i, "admin">>} : Of(b) = i
        /\ UNCHANGED <<now, watch>> /\ reading' \in Nat
    BY <1>1, <1>3, RateAssumption DEF AdminRequest, Holder, Bucket, Of
  <2> QED BY <2>1, ChargeStep
<1>4. ASSUME NEW i \in Ip, AdminDenied(i) PROVE IInv'
  <2> DEFINE S == {<<i, "admin">>, <<i, "authFail">>}
  <2>1. /\ i \in Holder /\ S \in SUBSET Bucket /\ Charge(i, S)
        /\ \A b \in S : Of(b) = i
        /\ UNCHANGED <<now, watch>> /\ reading' \in Nat
    BY <1>1, <1>4, RateAssumption DEF AdminDenied, Holder, Bucket, Of
  <2> QED BY <2>1, ChargeStep
<1>5. ASSUME NEW k \in Throttled, IssueChecked(k) PROVE IInv'
  <2>1. /\ k \in Holder /\ {<<k, "issue">>} \in SUBSET Bucket
        /\ Charge(k, {<<k, "issue">>})
        /\ \A b \in {<<k, "issue">>} : Of(b) = k
        /\ UNCHANGED <<now, watch>> /\ reading' \in Nat
    BY <1>1, <1>5 DEF IssueChecked, Holder, Bucket, Of
  <2> QED BY <2>1, ChargeStep
<1>6. CASE IssueUnchecked \/ UNCHANGED vars
  <2>1. UNCHANGED <<now, entries, watch, history>> /\ reading' \in Nat
    BY <1>1, <1>6 DEF IssueUnchecked, vars
  <2> QED BY <2>1 DEF IInv, entries, history, TypeOK, Dated, Measured, Waited, Balance,
             Refilled, Of, Full, Rate, Smaller
<1> QED BY <1>2, <1>3, <1>4, <1>5, <1>6, SweepStep, TickStep, StartPeriodStep DEF Next

LEMMA Invariance == Spec => []IInv
BY InitIInv, NextIInv, PTL DEF Spec

-------------------------------------------------------------------------------
\* Every variable of the limiter holds what its declaration says; no balance is ever
\* negative (check, checkKey and recordAuthFail of ratelimit.mjs).
THEOREM TypeCorrect == Spec => []TypeOK
<1>1. IInv => TypeOK  BY DEF IInv
<1> QED BY <1>1, Invariance, PTL

\* No bucket of ratelimit.mjs, however its requests, the sweep and the full maps
\* interleave, grants more in any period than its capacity and its rate allow.
THEOREM RateIsBounded == Spec => []WithinRate
<1>1. IInv => WithinRate
  <2> SUFFICES ASSUME IInv, since # Never PROVE WithinRate
    BY DEF WithinRate
  <2>1. /\ since \in Nat /\ now \in Nat /\ granted \in Nat
        /\ granted * Minute + Balance(watch) <= Full(watch) + Rate(watch) * (now - since)
    BY DEF IInv, Measured, TypeOK
  <2>2. /\ Balance(watch) \in Nat /\ Full(watch) = Rate(watch) * Minute
        /\ Rate(watch) \in Nat /\ Minute \in Nat
    BY OneBucket, RatesAndCapacities, RateAssumption DEF IInv, TypeOK
  <2>3. Rate(watch) * (Minute + (now - since)) = Full(watch) + Rate(watch) * (now - since)
        /\ Rate(watch) * (now - since) \in Int /\ granted * Minute \in Int
        /\ Full(watch) \in Int
    BY <2>1, <2>2
  <2> DEFINE refilled == Rate(watch) * (now - since)
  <2> HIDE DEF refilled
  <2>4. granted * Minute <= Full(watch) + refilled
    BY <2>1, <2>2, <2>3 DEF refilled
  <2> QED BY <2>3, <2>4 DEF WithinRate, refilled
<1> QED BY <1>1, Invariance, PTL

\* A client that waits for the Retry-After of its 429 finds a token (check and
\* checkKey of ratelimit.mjs).
THEOREM RetryAfterIsHonest == Spec => []RetryIsHonest
<1>1. IInv => RetryIsHonest
  <2> SUFFICES ASSUME IInv, retryAt # Never, now >= retryAt
               PROVE  Balance(watch) >= Minute
    BY DEF RetryIsHonest
  <2>1. /\ Balance(watch) \in Nat /\ Rate(watch) \in Nat /\ Minute \in Nat
        /\ now \in Nat /\ retryAt \in Nat
    BY OneBucket, RatesAndCapacities, RateAssumption DEF IInv, TypeOK
  <2>2. Rate(watch) * (retryAt - now) <= Rate(watch) * 0 /\ Rate(watch) * 0 = 0
        /\ Rate(watch) * (retryAt - now) \in Int
    BY <2>1, Monotone
  <2> QED BY <2>1, <2>2 DEF IInv, Waited
<1> QED BY <1>1, Invariance, PTL

\* What GET /v3/keys/:id/quota shows is what the next issue meets (quotaSnapshot
\* and checkKey of ratelimit.mjs).
THEOREM QuotaIsTruthful == Spec => []QuotaAgrees
<1>1. IInv => QuotaAgrees
  <2> SUFFICES ASSUME IInv, NEW k \in Throttled, HasEntry(k)
               PROVE  SnapshotTokens(k) >= 1 <=> Allows(<<k, "issue">>)
    BY DEF QuotaAgrees
  <2> DEFINE b == <<k, "issue">>
  <2>1. /\ b \in Bucket /\ Of(b) = k /\ Rate(b) = KeyRpm[k]
        /\ Minute \in Nat \ {0}
    BY RateAssumption DEF Bucket, Of, Rate, Throttled
  <2>2. Balance(b) \in Nat  BY <2>1, OneBucket DEF IInv
  <2>3. Balance(b) \div Minute >= 1 <=> Balance(b) >= Minute
    BY <2>1, <2>2, AtLeastOne
  <2>4. CASE k \in held
    BY <2>1, <2>3, <2>4 DEF SnapshotTokens, Allows, Balance, Refilled
  <2>5. CASE k \notin held
    <3>1. KeyRpm[k] \in Nat \ {0} /\ Full(b) = KeyRpm[k] * Minute
      BY <2>1, RateAssumption DEF Throttled, Full
    <3>2. Balance(b) >= Minute /\ SnapshotTokens(k) >= 1
      BY <2>1, <2>5, <3>1 DEF SnapshotTokens, Balance
    <3> QED BY <2>1, <3>2 DEF Allows
  <2> QED BY <2>4, <2>5
<1> QED BY <1>1, Invariance, PTL

-------------------------------------------------------------------------------
(***************************************************************************)
(* Induction and recursion over 0..N.                                      *)
(***************************************************************************)

\* A set of natural numbers that is not empty has a least one.
LEMMA LeastNumber ==
  ASSUME NEW T, T \subseteq Nat, T # {}
  PROVE  \E n \in T : \A m \in T : n <= m
<1> DEFINE R == OpToRel(<, Nat)
<1>1. \A x, y \in Nat : y < x => <<y, x>> \in R
  BY DEF OpToRel
<1> HIDE DEF R
<1>2. IsWellFoundedOn(R, Nat)
  BY NatLessThanWellFounded DEF R
<1>3. PICK x \in T : \A y \in T : ~ (<<y, x>> \in R)
  BY <1>2, WFMin
<1>4. ASSUME NEW y \in T PROVE x <= y
  <2>1. x \in Nat /\ y \in Nat /\ ~ (y < x)
    BY <1>1, <1>3
  <2> QED BY <2>1
<1> QED BY <1>4

\* A set that holds 0, and n with n - 1, holds all numbers up to N: the induction over data.
LEMMA UpTo ==
  ASSUME NEW N \in Nat, NEW T, 0 \in T, \A n \in 1..N : n - 1 \in T => n \in T
  PROVE  0..N \subseteq T
<1> DEFINE F == {n \in 0..N : n \notin T}
<1> SUFFICES ASSUME F # {} PROVE FALSE
  OBVIOUS
<1>0. F \subseteq Nat
  OBVIOUS
<1>1. PICK n \in F : \A m \in F : n <= m
  <2> HIDE DEF F
  <2> QED BY <1>0, LeastNumber
<1>2. n \in 1..N /\ n - 1 \in 0..N /\ n - 1 \notin F
  BY <1>1
<1> QED BY <1>2

\* f is defined by recursion on 0..N, by G from b.
StepsWith(f, b, G, N) == f[0] = b /\ \A n \in 1..N : f[n] = G[<<f[n - 1], n>>]

\* A function may be defined by recursion on 0..N: its value at n is G of the one before.
LEMMA Recursion ==
  ASSUME NEW N \in Nat, NEW S, NEW b \in S, NEW G \in [S \X (1..N) -> S]
  PROVE  \E f \in [0..N -> S] : StepsWith(f, b, G, N)
<1> USE DEF StepsWith
<1> DEFINE Is(f, m) == f[0] = b /\ \A n \in 1..m : f[n] = G[<<f[n - 1], n>>]
           T == {m \in 0..N : \E f \in [0..m -> S] : Is(f, m)}
<1>1. 0 \in T
  <2> DEFINE h == [n \in 0..0 |-> b]
  <2>1. h \in [0..0 -> S] /\ h[0] = b
    OBVIOUS
  <2> HIDE DEF h
  <2>2. Is(h, 0)
    BY <2>1
  <2> QED BY <2>1, <2>2
<1>2. ASSUME NEW m \in 1..N, m - 1 \in T PROVE m \in T
  <2>1. PICK f \in [0..(m - 1) -> S] : Is(f, m - 1)
    BY <1>2
  <2> DEFINE v == G[<<f[m - 1], m>>]
             h == [n \in 0..m |-> IF n = m THEN v ELSE f[n]]
  <2>2. f[m - 1] \in S /\ v \in S
    BY <2>1
  <2> HIDE DEF v
  <2>3. h \in [0..m -> S] /\ h[0] = b /\ h[m] = v
    BY <2>1, <2>2
  <2>4. \A n \in 0..(m - 1) : h[n] = f[n]
    OBVIOUS
  <2> HIDE DEF h
  <2>5. h[m - 1] = f[m - 1]
    BY <2>4
  <2>6. ASSUME NEW n \in 1..m PROVE h[n] = G[<<h[n - 1], n>>]
    <3>1. CASE n = m
      BY <3>1, <2>3, <2>5 DEF v
    <3>2. CASE n # m
      BY <3>2, <2>1, <2>4
    <3> QED BY <3>1, <3>2
  <2>7. Is(h, m)
    BY <2>3, <2>6
  <2> QED BY <2>3, <2>7
<1> HIDE DEF T
<1>3. N \in T
  BY <1>1, <1>2, UpTo
<1> QED BY <1>3 DEF T

-------------------------------------------------------------------------------
(***************************************************************************)
(* Powers of two, and quotients by them.                                   *)
(***************************************************************************)
Bits == ByteBits * V6Bytes

\* Pow2 is what its equation says.
LEMMA Pow2Facts ==
  /\ Bits \in Nat /\ Pow2[0] = 1
  /\ \A n \in 0..Bits : Pow2[n] \in Nat \ {0}
  /\ \A n \in 1..Bits : Pow2[n] = 2 * Pow2[n - 1]
<1>1. Bits \in Nat
  BY WidthAssumption DEF Bits
<1> DEFINE N == Bits
           S == Nat \ {0}
           G == [p \in S \X (1..N) |-> 2 * p[1]]
<1>2. Pow2 = CHOOSE g : g = [n \in 0..N |-> IF n = 0 THEN 1 ELSE 2 * g[n - 1]]
  BY DEF Pow2, Bits
<1>0. N \in Nat /\ 1 \in S
  BY <1>1
<1> HIDE DEF N
<1>3. G \in [S \X (1..N) -> S] /\ \A s \in S, n \in 1..N : G[<<s, n>>] = 2 * s
  OBVIOUS
<1> HIDE DEF G
<1>4. PICK f \in [0..N -> S] : StepsWith(f, 1, G, N)
  BY <1>0, <1>3, Recursion
<1>5. ASSUME NEW n \in 1..N PROVE f[n - 1] \in S /\ f[n] = 2 * f[n - 1]
  <2>1. f[n - 1] \in S
    BY <1>0
  <2>2. f[n] = G[<<f[n - 1], n>>]
    BY <1>4 DEF StepsWith
  <2> HIDE DEF S
  <2> QED BY <1>3, <2>1, <2>2
<1>6. f = [n \in 0..N |-> IF n = 0 THEN 1 ELSE 2 * f[n - 1]]
  <2>1. f[0] = 1
    BY <1>4 DEF StepsWith
  <2>2. \A n \in 0..N : f[n] = IF n = 0 THEN 1 ELSE 2 * f[n - 1]
    BY <1>5, <2>1
  <2> QED BY <2>2
<1>7. Pow2 = [n \in 0..N |-> IF n = 0 THEN 1 ELSE 2 * Pow2[n - 1]]
  BY <1>2, <1>6
<1>8. Pow2[0] = 1 /\ \A n \in 1..N : Pow2[n] = 2 * Pow2[n - 1]
  BY <1>1, <1>7 DEF N
<1> DEFINE T == {n \in 0..N : Pow2[n] \in S}
<1>9. 0 \in T /\ \A n \in 1..N : n - 1 \in T => n \in T
  BY <1>1, <1>8 DEF N
<1> HIDE DEF T
<1>10. 0..N \subseteq T
  BY <1>1, <1>9, UpTo DEF N
<1> QED BY <1>1, <1>8, <1>10 DEF N, T

\* Exponents add up.
LEMMA Pow2Sum ==
  ASSUME NEW j \in Nat, NEW k \in Nat, j + k <= Bits
  PROVE  Pow2[j + k] = Pow2[j] * Pow2[k]
<1> DEFINE T == {n \in 0..k : Pow2[j + n] = Pow2[j] * Pow2[n]}
<1>1. 0 \in T
  BY Pow2Facts
<1>2. ASSUME NEW n \in 1..k, n - 1 \in T PROVE n \in T
  <2>1. /\ j + n \in 1..Bits /\ n \in 1..Bits /\ n - 1 \in 0..Bits /\ j \in 0..Bits
        /\ (j + n) - 1 = j + (n - 1)
    BY Pow2Facts
  <2>2. Pow2[j + n] = 2 * Pow2[j + (n - 1)] /\ Pow2[n] = 2 * Pow2[n - 1]
    BY <2>1, Pow2Facts
  <2>3. Pow2[j + (n - 1)] = Pow2[j] * Pow2[n - 1]
    BY <1>2
  <2>4. Pow2[j] \in Nat /\ Pow2[n - 1] \in Nat
    BY <2>1, Pow2Facts
  <2>5. 2 * (Pow2[j] * Pow2[n - 1]) = Pow2[j] * (2 * Pow2[n - 1])
    BY <2>4
  <2> QED BY <2>2, <2>3, <2>5
<1> HIDE DEF T
<1>3. 0..k \subseteq T
  BY <1>1, <1>2, UpTo
<1> QED BY <1>3 DEF T

\* A byte is a digit to the base Base.
LEMMA BaseFacts == Base \in Nat \ {0} /\ ByteBits \in 1..Bits /\ Base - 1 \in Byte /\ 0 \in Byte
<1>1. ByteBits \in 1..Bits
  <2>1. ByteBits \in Nat \ {0} /\ V6Bytes \in Nat /\ V6Bytes >= 1
    BY WidthAssumption
  <2>2. ByteBits * V6Bytes = ByteBits + ByteBits * (V6Bytes - 1) /\ ByteBits * (V6Bytes - 1) \in Nat
    BY <2>1
  <2> QED BY <2>1, <2>2 DEF Bits
<1> QED BY <1>1, Pow2Facts DEF Base, Byte

\* A quotient and its remainder.
LEMMA Quotient ==
  ASSUME NEW x \in Nat, NEW d \in Nat \ {0}
  PROVE  /\ x \div d \in Nat /\ x % d \in 0..(d - 1) /\ x = d * (x \div d) + (x % d)
  OBVIOUS

\* And there is no other.
LEMMA QuotientUnique ==
  ASSUME NEW x \in Nat, NEW d \in Nat \ {0}, NEW q \in Nat, NEW r \in 0..(d - 1), x = d * q + r
  PROVE  x \div d = q /\ x % d = r
  OBVIOUS

\* A digit more on both sides of a division does not change it.
LEMMA QuotientScaled ==
  ASSUME NEW x \in Nat, NEW s \in Nat \ {0}, NEW t \in Nat \ {0}, NEW r \in 0..(t - 1)
  PROVE  (x * t + r) \div (s * t) = x \div s
<1> DEFINE q == x \div s
           p == x % s
<1>1. q \in Nat /\ p \in 0..(s - 1) /\ x = s * q + p
  BY Quotient
<1> HIDE DEF q, p
<1>2. x * t + r = (s * t) * q + (p * t + r)
  BY <1>1
<1>3. p * t + r \in 0..(s * t - 1)
  <2>1. p * t <= (s - 1) * t /\ p * t \in Nat
    BY <1>1
  <2>2. (s - 1) * t = s * t - t
    OBVIOUS
  <2> QED BY <2>1, <2>2
<1>4. s * t \in Nat \ {0} /\ x * t + r \in Nat
  OBVIOUS
<1> QED BY <1>1, <1>2, <1>3, <1>4, QuotientUnique DEF q

\* A number that is split inside its last digit.
LEMMA QuotientInside ==
  ASSUME NEW x \in Nat, NEW s \in Nat \ {0}, NEW t \in Nat \ {0}, NEW r \in 0..(t * s - 1)
  PROVE  (x * (t * s) + r) \div s = x * t + r \div s /\ r \div s \in 0..(t - 1)
<1> DEFINE q == r \div s
           p == r % s
<1>0. t * s \in Nat /\ r \in Nat
  OBVIOUS
<1>1. q \in Nat /\ p \in 0..(s - 1) /\ r = s * q + p
  BY <1>0, Quotient
<1> HIDE DEF q, p
<1>2. q <= t - 1
  <2> SUFFICES ASSUME q >= t PROVE FALSE
    BY <1>1
  <2>1. s * t <= s * q
    BY <1>1
  <2> QED BY <1>1, <2>1
<1>3. x * (t * s) + r = s * (x * t + q) + p
  BY <1>1
<1>4. x * t + q \in Nat /\ x * (t * s) + r \in Nat
  BY <1>1
<1>5. (x * (t * s) + r) \div s = x * t + q
  BY <1>1, <1>3, <1>4, QuotientUnique
<1> QED BY <1>1, <1>2, <1>5 DEF q

\* Two numbers are equal if all their digits are.
LEMMA Digits ==
  ASSUME NEW x \in Nat, NEW y \in Nat, NEW t \in Nat \ {0}, NEW u \in 0..(t - 1),
         NEW v \in 0..(t - 1)
  PROVE  x * t + u = y * t + v <=> x = y /\ u = v
<1> SUFFICES ASSUME x * t + u = y * t + v PROVE x = y /\ u = v
  OBVIOUS
<1>1. x * t + u \in Nat /\ x * t + u = t * x + u /\ y * t + v = t * y + v
  OBVIOUS
<1>2. (x * t + u) \div t = x /\ (x * t + u) % t = u
  BY <1>1, QuotientUnique
<1>3. (y * t + v) \div t = y /\ (y * t + v) % t = v
  BY <1>1, QuotientUnique
<1> QED BY <1>2, <1>3

\* The interval of the numbers that have one quotient.
LEMMA QuotientRange ==
  ASSUME NEW x \in Nat, NEW y \in Nat, NEW s \in Nat \ {0}
  PROVE  x \in ((y \div s) * s)..((y \div s) * s + s - 1) <=> x \div s = y \div s
<1> DEFINE q == y \div s
<1>1. q \in Nat
  BY Quotient
<1> HIDE DEF q
<1>2. ASSUME x \div s = q PROVE x \in (q * s)..(q * s + s - 1)
  <2>1. x % s \in 0..(s - 1) /\ x = s * q + (x % s)
    BY <1>2, Quotient
  <2> QED BY <1>1, <2>1
<1>3. ASSUME x \in (q * s)..(q * s + s - 1) PROVE x \div s = q
  <2> DEFINE r == x - q * s
  <2>1. r \in 0..(s - 1) /\ x = s * q + r
    BY <1>1, <1>3
  <2> HIDE DEF r
  <2> QED BY <1>1, <2>1, QuotientUnique
<1> QED BY <1>2, <1>3 DEF q

-------------------------------------------------------------------------------
(***************************************************************************)
(* Addresses as numbers, and the ranges of cidr.mjs.                       *)
(***************************************************************************)

\* The numbers that the first bytes of an address are: v[k] of k bytes.
Numbers(v, bytes, W) ==
  /\ v \in [0..W -> Nat] /\ v[0] = 0
  /\ \A k \in 1..W : v[k] = v[k - 1] * Base + bytes[k]

\* Value reads an address so.
LEMMA ValueFacts ==
  ASSUME NEW W \in Nat, NEW bytes \in [1..W -> Byte]
  PROVE  \E v : Numbers(v, bytes, W) /\ Value(bytes) = v[W]
<1> DEFINE step(x, n) == x * Base + bytes[n]
           value[n \in 0..W] == IF n = 0 THEN 0 ELSE step(value[n - 1], n)
           G == [p \in Nat \X (1..W) |-> step(p[1], p[2])]
<1>1. ASSUME NEW x \in Nat, NEW n \in 1..W PROVE step(x, n) \in Nat
  <2>1. bytes[n] \in Nat /\ Base \in Nat
    BY BaseFacts DEF Byte
  <2> QED BY <2>1
<1>2. Len(bytes) = W
  OBVIOUS
<1>3. Value(bytes) = value[W]
  BY <1>2 DEF Value
<1> HIDE DEF step
<1>4. G \in [Nat \X (1..W) -> Nat] /\ \A x \in Nat, n \in 1..W : G[<<x, n>>] = step(x, n)
  BY <1>1
<1> HIDE DEF G
<1>5. PICK f \in [0..W -> Nat] : StepsWith(f, 0, G, W)
  BY <1>4, Recursion
<1>6. f[0] = 0 /\ \A n \in 1..W : f[n] = G[<<f[n - 1], n>>]
  BY <1>5 DEF StepsWith
<1>7. ASSUME NEW n \in 1..W PROVE f[n] = step(f[n - 1], n)
  <2>1. f[n - 1] \in Nat
    OBVIOUS
  <2> QED BY <1>4, <1>6, <2>1
<1>8. f = [n \in 0..W |-> IF n = 0 THEN 0 ELSE step(f[n - 1], n)]
  <2>1. \A n \in 0..W : f[n] = IF n = 0 THEN 0 ELSE step(f[n - 1], n)
    BY <1>6, <1>7
  <2> QED BY <2>1
<1>9. value = [n \in 0..W |-> IF n = 0 THEN 0 ELSE step(value[n - 1], n)]
  BY <1>8
<1> HIDE DEF value
<1>10. value[0] = 0 /\ \A n \in 1..W : value[n] = step(value[n - 1], n)
  BY <1>9
<1> DEFINE T == {n \in 0..W : value[n] \in Nat}
<1>11. 0 \in T /\ \A n \in 1..W : n - 1 \in T => n \in T
  <2>1. ASSUME NEW n \in 1..W, value[n - 1] \in Nat PROVE value[n] \in Nat
    BY <1>1, <1>10, <2>1
  <2> QED BY <1>10, <2>1
<1> HIDE DEF T
<1>12. 0..W \subseteq T
  BY <1>11, UpTo
<1>13. value \in [0..W -> Nat]
  BY <1>9, <1>12 DEF T
<1> QED BY <1>3, <1>10, <1>13 DEF Numbers, step

\* One byte, of which the mask takes what is left of it.
ByteMatches(a, c, mask, i) ==
  LET remaining == mask - ByteBits * (i - 1)
      take      == IF remaining < ByteBits THEN remaining ELSE ByteBits
  IN remaining > 0 => HighBits(a[i], take) = HighBits(c[i], take)

\* The size of the blocks that the mask leaves of the first k bytes.
Block(mask, k) == IF ByteBits * k <= mask THEN 1 ELSE Pow2[ByteBits * k - mask]

\* One byte more: the number of k bytes is in the same block when that of k - 1 is and the
\* byte matches.
LEMMA ByteStep ==
  ASSUME NEW W \in 1..V6Bytes, NEW a \in [1..W -> Byte], NEW c \in [1..W -> Byte], NEW va, NEW vc,
         Numbers(va, a, W), Numbers(vc, c, W), NEW mask \in 0..(ByteBits * W), NEW k \in 1..W
  PROVE  va[k] \div Block(mask, k) = vc[k] \div Block(mask, k)
           <=> /\ va[k - 1] \div Block(mask, k - 1) = vc[k - 1] \div Block(mask, k - 1)
               /\ ByteMatches(a, c, mask, k)
<1> DEFINE x == va[k - 1]
           y == vc[k - 1]
           rem == mask - ByteBits * (k - 1)
<1>1. /\ x \in Nat /\ y \in Nat /\ a[k] \in 0..(Base - 1) /\ c[k] \in 0..(Base - 1)
      /\ va[k] = x * Base + a[k] /\ vc[k] = y * Base + c[k]
  BY DEF Numbers, Byte
<1>2. /\ ByteBits \in Nat \ {0} /\ Base \in Nat \ {0} /\ V6Bytes \in Nat /\ Bits \in Nat
      /\ ByteBits * k \in 0..Bits /\ ByteBits * (k - 1) = ByteBits * k - ByteBits
      /\ ByteBits * (k - 1) \in Nat /\ rem \in Int
  <2>1. ByteBits \in Nat \ {0} /\ V6Bytes \in Nat /\ k \in 1..V6Bytes
    BY WidthAssumption
  <2>2. /\ ByteBits * V6Bytes = ByteBits * k + ByteBits * (V6Bytes - k)
        /\ ByteBits * (V6Bytes - k) \in Nat
    BY <2>1
  <2>3. /\ ByteBits * (k - 1) \in Nat /\ ByteBits * k \in Nat
        /\ ByteBits * (k - 1) = ByteBits * k - ByteBits
    BY <2>1
  <2> QED BY <2>1, <2>2, <2>3, BaseFacts, Pow2Facts DEF Bits
<1>3. CASE rem <= 0
  <2> DEFINE s == Pow2[ByteBits * (k - 1) - mask]
  <2>1. s \in Nat \ {0} /\ Block(mask, k - 1) = s
    <3>1. ByteBits * (k - 1) - mask \in 0..Bits
      BY <1>2, <1>3
    <3>2. ByteBits * (k - 1) <= mask => ByteBits * (k - 1) - mask = 0
      BY <1>2, <1>3
    <3> QED BY <3>1, <3>2, Pow2Facts DEF Block
  <2>2. Block(mask, k) = s * Base
    <3>1. /\ ByteBits * (k - 1) - mask \in Nat /\ ~(ByteBits * k <= mask)
          /\ (ByteBits * (k - 1) - mask) + ByteBits = ByteBits * k - mask
          /\ ByteBits * k - mask <= Bits
      BY <1>2, <1>3
    <3> QED BY <1>2, <3>1, Pow2Sum DEF Block, Base
  <2> HIDE DEF s
  <2>3. va[k] \div (s * Base) = x \div s /\ vc[k] \div (s * Base) = y \div s
    <3> HIDE DEF x, y
    <3>1. (x * Base + a[k]) \div (s * Base) = x \div s
      <4>1. x \in Nat /\ Base \in Nat \ {0} /\ s \in Nat \ {0} /\ a[k] \in 0..(Base - 1)
        BY <1>1, <1>2, <2>1
      <4> DEFINE r == a[k]
                 t == Base
      <4> HIDE DEF r, t
      <4>2. (x * t + r) \div (s * t) = x \div s
        BY <4>1, QuotientScaled DEF r, t
      <4> QED BY <4>2 DEF r, t
    <3>2. (y * Base + c[k]) \div (s * Base) = y \div s
      <4>1. y \in Nat /\ Base \in Nat \ {0} /\ s \in Nat \ {0} /\ c[k] \in 0..(Base - 1)
        BY <1>1, <1>2, <2>1
      <4> DEFINE r == c[k]
                 t == Base
      <4> HIDE DEF r, t
      <4>2. (y * t + r) \div (s * t) = y \div s
        BY <4>1, QuotientScaled DEF r, t
      <4> QED BY <4>2 DEF r, t
    <3> QED BY <1>1, <3>1, <3>2
  <2>4. ByteMatches(a, c, mask, k)
    BY <1>2, <1>3 DEF ByteMatches
  <2> QED BY <2>1, <2>2, <2>3, <2>4
<1>4. CASE rem > 0
  <2> DEFINE take == IF rem < ByteBits THEN rem ELSE ByteBits
             s == Pow2[ByteBits - take]
             t == Pow2[take]
  <2>1. take \in 1..ByteBits /\ ByteBits - take \in 0..ByteBits /\ ByteBits \in 1..Bits
    BY <1>2, <1>4, BaseFacts
  <2>2. s \in Nat \ {0} /\ t \in Nat \ {0} /\ Base = t * s
    <3> HIDE DEF take
    <3>1. take \in 0..Bits /\ ByteBits - take \in 0..Bits /\ take + (ByteBits - take) = ByteBits
          /\ take \in Nat /\ ByteBits - take \in Nat /\ ByteBits <= Bits
      BY <1>2, <2>1
    <3>2. Pow2[take + (ByteBits - take)] = t * s
      BY <3>1, Pow2Sum
    <3> QED BY <3>1, <3>2, Pow2Facts DEF Base
  <2>3. Block(mask, k - 1) = 1
    BY <1>2, <1>4 DEF Block
  <2>4. Block(mask, k) = s
    <3>1. CASE ByteBits * k <= mask
      <4>1. take = ByteBits /\ ByteBits - take = 0
        BY <1>2, <3>1
      <4> QED BY <3>1, <4>1, Pow2Facts DEF Block
    <3>2. CASE ~(ByteBits * k <= mask)
      <4>1. ByteBits - take = ByteBits * k - mask
        BY <1>2, <3>2
      <4> QED BY <3>2, <4>1 DEF Block
    <3> QED BY <3>1, <3>2
  <2>5. ByteMatches(a, c, mask, k) <=> a[k] - (a[k] % s) = c[k] - (c[k] % s)
    BY <1>4 DEF ByteMatches, HighBits
  <2> HIDE DEF take, s, t, rem
  <2> DEFINE p == a[k]
             q == c[k]
  <2>6. p \in 0..(t * s - 1) /\ q \in 0..(t * s - 1) /\ p \in Nat /\ q \in Nat
    BY <1>1, <2>2
  <2>7. va[k] = x * (t * s) + p /\ vc[k] = y * (t * s) + q
    BY <1>1, <2>2
  <2> HIDE DEF x, y, p, q
  <2>8. /\ va[k] \div s = x * t + p \div s /\ p \div s \in 0..(t - 1)
        /\ vc[k] \div s = y * t + q \div s /\ q \div s \in 0..(t - 1)
    <3>1. (x * (t * s) + p) \div s = x * t + p \div s /\ p \div s \in 0..(t - 1)
      BY <1>1, <2>2, <2>6, QuotientInside
    <3>2. (y * (t * s) + q) \div s = y * t + q \div s /\ q \div s \in 0..(t - 1)
      BY <1>1, <2>2, <2>6, QuotientInside
    <3> QED BY <2>7, <3>1, <3>2
  <2>9. va[k] \div s = vc[k] \div s <=> x = y /\ p \div s = q \div s
    <3> DEFINE u == p \div s
               v == q \div s
    <3>1. /\ u \in 0..(t - 1) /\ v \in 0..(t - 1)
          /\ va[k] \div s = x * t + u /\ vc[k] \div s = y * t + v
      BY <2>8
    <3> HIDE DEF u, v
    <3>2. x \in Nat /\ y \in Nat /\ t \in Nat \ {0} /\ u \in 0..(t - 1) /\ v \in 0..(t - 1)
      BY <1>1, <2>2, <3>1
    <3>3. x * t + u = y * t + v <=> x = y /\ u = v
      BY <3>2, Digits
    <3> QED BY <3>1, <3>3 DEF u, v
  <2>10. p \div s = q \div s <=> p - (p % s) = q - (q % s)
    <3>1. p - (p % s) = s * (p \div s) /\ q - (q % s) = s * (q \div s)
          /\ p \div s \in Nat /\ q \div s \in Nat
      <4>1. p \in Nat /\ q \in Nat /\ s \in Nat \ {0}
        BY <2>2, <2>6
      <4> DEFINE i == p \div s
                 j == q \div s
                 m == p % s
                 n == q % s
      <4>2. i \in Nat /\ m \in 0..(s - 1) /\ p = s * i + m
        BY <4>1, Quotient
      <4>3. j \in Nat /\ n \in 0..(s - 1) /\ q = s * j + n
        BY <4>1, Quotient
      <4> HIDE DEF i, j, m, n
      <4>4. p - m = s * i /\ q - n = s * j
        BY <4>1, <4>2, <4>3
      <4> QED BY <4>2, <4>3, <4>4 DEF i, j, m, n
    <3>2. \A i, j \in Nat : s * i = s * j <=> i = j
      BY <2>2
    <3> QED BY <3>1, <3>2
  <2>11. x \div 1 = x /\ y \div 1 = y
    BY <1>1
  <2> QED BY <2>3, <2>4, <2>5, <2>9, <2>10, <2>11 DEF x, y, p, q
<1> QED BY <1>2, <1>3, <1>4

\* Byte by byte until the mask is used up is: in one block of numbers.
LEMMA BytesAndBlocks ==
  ASSUME NEW W \in 1..V6Bytes, NEW a \in [1..W -> Byte], NEW c \in [1..W -> Byte],
         NEW mask \in 0..(ByteBits * W)
  PROVE  /\ Value(a) \in Nat /\ Value(c) \in Nat /\ Pow2[ByteBits * W - mask] \in Nat \ {0}
         /\ (\A i \in 1..W : ByteMatches(a, c, mask, i))
              <=> Value(a) \div Pow2[ByteBits * W - mask] = Value(c) \div Pow2[ByteBits * W - mask]
<1>0. V6Bytes \in Nat /\ W \in Nat
  BY WidthAssumption
<1>1. PICK va : Numbers(va, a, W) /\ Value(a) = va[W]
  BY <1>0, ValueFacts
<1>2. PICK vc : Numbers(vc, c, W) /\ Value(c) = vc[W]
  BY <1>0, ValueFacts
<1> DEFINE Matches(k) == \A i \in 1..k : ByteMatches(a, c, mask, i)
           Same(k) == va[k] \div Block(mask, k) = vc[k] \div Block(mask, k)
           T == {k \in 0..W : Matches(k) <=> Same(k)}
<1>3. 0 \in T
  <2>1. va[0] = 0 /\ vc[0] = 0
    BY <1>1, <1>2 DEF Numbers
  <2> QED BY <1>0, <2>1
<1>4. ASSUME NEW k \in 1..W, k - 1 \in T PROVE k \in T
  <2>1. Same(k) <=> Same(k - 1) /\ ByteMatches(a, c, mask, k)
    BY <1>1, <1>2, ByteStep
  <2>2. Matches(k) <=> Matches(k - 1) /\ ByteMatches(a, c, mask, k)
    OBVIOUS
  <2>3. Matches(k - 1) <=> Same(k - 1)
    BY <1>4
  <2> HIDE DEF Matches, Same
  <2> QED BY <2>1, <2>2, <2>3
<1> HIDE DEF T, Matches, Same
<1>5. 0..W \subseteq T
  BY <1>0, <1>3, <1>4, UpTo
<1>6. Matches(W) <=> Same(W)
  BY <1>0, <1>5 DEF T
<1>7. Block(mask, W) = Pow2[ByteBits * W - mask] /\ ByteBits * W - mask \in 0..Bits
  <2>1. ByteBits \in Nat /\ ByteBits * W \in Nat /\ ByteBits * (V6Bytes - W) \in Nat
        /\ ByteBits * V6Bytes = ByteBits * W + ByteBits * (V6Bytes - W)
    BY <1>0, WidthAssumption
  <2>2. ByteBits * W - mask \in 0..Bits
    BY <2>1 DEF Bits
  <2>3. ByteBits * W <= mask => ByteBits * W - mask = 0
    BY <2>1
  <2> QED BY <2>2, <2>3, Pow2Facts DEF Block
<1>8. Value(a) \in Nat /\ Value(c) \in Nat
  BY <1>0, <1>1, <1>2 DEF Numbers
<1> QED BY <1>1, <1>2, <1>6, <1>7, <1>8, Pow2Facts DEF Matches, Same

\* The width of an address, in bytes and in bits.
LEMMA WidthFacts ==
  ASSUME NEW f
  PROVE  Width(f) \in 1..V6Bytes /\ FullBits(f) = ByteBits * Width(f) /\ FullBits(f) \in Nat
<1>1. Width(f) \in 1..V6Bytes
  BY WidthAssumption DEF Width
<1> QED BY <1>1, WidthAssumption DEF FullBits

\* An address that parses has the bytes of its family.
LEMMA ParseIpFacts ==
  ASSUME NEW text \in Address
  PROVE  LET ip == ParseIp(text) IN
         ip # NoAddress => ip.family \in {4, 6} /\ ip.bytes \in [1..Width(ip.family) -> Byte]
<1>1. CASE text.form = "v4"
  <2>1. text.bytes \in [1..V4Bytes -> Byte]
    BY <1>1 DEF Address
  <2> QED BY <1>1, <2>1 DEF ParseIp, Width
<1>2. CASE text.form = "v6"
  <2>1. text.bytes \in [1..V6Bytes -> Byte]
    BY <1>2 DEF Address
  <2> QED BY <1>2, <2>1 DEF ParseIp, ParseV6, Width
<1>3. CASE text.form = "mapped"
  <2>1. text.bytes \in [1..V4Bytes -> Byte]
    BY <1>3 DEF Address
  <2> DEFINE zeros == [i \in 1..(V6Bytes - V4Bytes) |->
                         IF i > V6Bytes - V4Bytes - 2 THEN Base - 1 ELSE 0]
  <2>2. V6Bytes - V4Bytes \in Nat /\ V4Bytes \in Nat
    BY WidthAssumption
  <2>3. zeros \in Seq(Byte) /\ Len(zeros) = V6Bytes - V4Bytes
    BY <2>2, BaseFacts
  <2>4. text.bytes \in Seq(Byte) /\ Len(text.bytes) = V4Bytes
    BY <2>1, <2>2
  <2> HIDE DEF zeros
  <2>5. zeros \o text.bytes \in Seq(Byte) /\ Len(zeros \o text.bytes) = V6Bytes
    <3>1. (V6Bytes - V4Bytes) + V4Bytes = V6Bytes
      BY WidthAssumption
    <3> DEFINE tail == text.bytes
    <3> HIDE DEF tail
    <3>2. zeros \o tail \in Seq(Byte) /\ Len(zeros \o tail) = Len(zeros) + Len(tail)
      BY <2>3, <2>4, ConcatProperties DEF tail
    <3> QED BY <2>3, <2>4, <3>1, <3>2 DEF tail
  <2>6. zeros \o text.bytes \in [1..V6Bytes -> Byte]
    <3> DEFINE all == zeros \o text.bytes
    <3> HIDE DEF all
    <3>1. all \in Seq(Byte) /\ Len(all) = V6Bytes
      BY <2>5 DEF all
    <3>2. all \in [1..Len(all) -> Byte]
      BY <3>1
    <3> QED BY <3>1, <3>2 DEF all
  <2>7. ParseIp(text) = [family |-> 6, bytes |-> zeros \o text.bytes]
    BY <1>3 DEF ParseIp, ParseV6, zeros
  <2> QED BY <2>6, <2>7 DEF Width
<1>4. CASE text.form \notin {"v4", "v6", "mapped"}
  <2>1. ParseIp(text) = NoAddress
    BY <1>4 DEF ParseIp
  <2> QED BY <2>1
<1> QED BY <1>1, <1>2, <1>3, <1>4

\* inCidr of cidr.mjs: the bytes are compared as the range says, of numbers.
THEOREM InCidrIsTheRange ==
  ASSUME NEW text \in Address, NEW entry \in [addr : Address, mask : Int], WellFormed(entry),
         ParseIp(text) # NoAddress
  PROVE  InCidr(ParseIp(text), ParseCidr(entry)) <=> Covers(ParseCidr(entry), ParseIp(text))
<1> DEFINE ip == ParseIp(text)
           net == ParseIp(entry.addr)
           cidr == ParseCidr(entry)
           f == ip.family
           W == Width(f)
<1>1. /\ ip.family \in {4, 6} /\ ip.bytes \in [1..W -> Byte]
  BY ParseIpFacts
<1>2. /\ net # NoAddress /\ entry.mask \in -1..FullBits(net.family)
      /\ net.family \in {4, 6} /\ net.bytes \in [1..Width(net.family) -> Byte]
  BY ParseIpFacts DEF WellFormed
<1>3. /\ cidr.family = net.family /\ cidr.bytes = net.bytes
      /\ cidr.mask = IF entry.mask = -1 THEN FullBits(net.family) ELSE entry.mask
  BY DEF ParseCidr
<1>4. cidr.mask \in 0..FullBits(cidr.family)
  BY <1>2, <1>3, WidthFacts
<1> HIDE DEF ip, net, cidr
<1>5. CASE cidr.family # f
  <2>1. ~InCidr(ip, cidr)
    BY <1>5 DEF InCidr
  <2>2. ~Covers(cidr, ip)
    BY <1>5 DEF Covers
  <2> QED BY <2>1, <2>2 DEF ip, cidr
<1>6. CASE cidr.family = f
  <2> DEFINE mask == cidr.mask
             a == ip.bytes
             c == cidr.bytes
             size == Pow2[ByteBits * W - mask]
  <2>1. /\ W \in 1..V6Bytes /\ a \in [1..W -> Byte] /\ c \in [1..W -> Byte]
        /\ mask \in 0..(ByteBits * W) /\ FullBits(cidr.family) = ByteBits * W
    BY <1>1, <1>2, <1>3, <1>4, <1>6, WidthFacts
  <2>2. InCidr(ip, cidr) <=> \A i \in 1..W : ByteMatches(a, c, mask, i)
    BY <1>6, <2>1 DEF InCidr, ByteMatches
  <2>3. Covers(cidr, ip)
          <=> Value(a) \in ((Value(c) \div size) * size)..((Value(c) \div size) * size + size - 1)
    BY <1>6, <2>1 DEF Covers
  <2> HIDE DEF mask, a, c, W
  <2>4. /\ Value(a) \in Nat /\ Value(c) \in Nat /\ size \in Nat \ {0}
        /\ (\A i \in 1..W : ByteMatches(a, c, mask, i)) <=> Value(a) \div size = Value(c) \div size
    BY <2>1, BytesAndBlocks
  <2> HIDE DEF size
  <2>5. Value(a) \in ((Value(c) \div size) * size)..((Value(c) \div size) * size + size - 1)
          <=> Value(a) \div size = Value(c) \div size
    BY <2>4, QuotientRange
  <2> QED BY <2>2, <2>3, <2>4, <2>5 DEF ip, cidr
<1> QED BY <1>5, <1>6

\* cidrGate lets a request pass exactly when its address lies in a range.
LEMMA GateIsAllowed ==
  ASSUME NEW r, r.socket \in Address, r.xff \in Seq(Address),
         NEW list \in Seq([addr : Address, mask : Int]), \A e \in Range(list) : WellFormed(e)
  PROVE  CidrGate(r, list) = 0 <=> Allowed(r, list)
<1> DEFINE text == ExtractClientIp(r)
<1>1. text \in Address
  BY DEF ExtractClientIp, Last
<1>2. Range(list) \subseteq [addr : Address, mask : Int]
  <2> DEFINE E == [addr : Address, mask : Int]
  <2> HIDE DEF E
  <2>1. list \in Seq(E)
    BY DEF E
  <2>2. Range(list) \subseteq E
    BY <2>1 DEF Range
  <2> QED BY <2>2 DEF E
<1> HIDE DEF text
<1>3. ASSUME ParseIp(text) # NoAddress
      PROVE  (\E e \in Range(list) : InCidr(ParseIp(text), ParseCidr(e)))
               <=> \E e \in Range(list) : Covers(ParseCidr(e), ParseIp(text))
  <2>1. ASSUME NEW e \in Range(list)
        PROVE  InCidr(ParseIp(text), ParseCidr(e)) <=> Covers(ParseCidr(e), ParseIp(text))
    BY <1>1, <1>2, <1>3, InCidrIsTheRange
  <2> QED BY <2>1
<1>4. MatchesAny(text, list) <=> Allowed(r, list)
  BY <1>3 DEF MatchesAny, Allowed, text
<1> QED BY <1>4 DEF CidrGate, text

\* requireAdmin lets a request pass exactly when it bears the one secret that was set.
LEMMA AdminIsAuthorised ==
  ASSUME NEW r, NEW e, e.anon \in BOOLEAN,
         e.hash \in {NoHash, <<"malformed">>} \cup ({"sha256"} \X STRING),
         LoadAdminConfig(e).mode # "refused"
  PROVE  RequireAdmin(r, LoadAdminConfig(e)) = 0 <=> Authorised(r, e)
<1> DEFINE config == LoadAdminConfig(e)
           conflict == IF e.anon THEN e.token # "" \/ e.hash # NoHash
                                 ELSE e.token # "" /\ e.hash # NoHash
           unset    == /\ ~e.anon
                       /\ \/ e.hash = <<"malformed">>
                          \/ e.hash = NoHash /\ e.token \in {"", "short"}
<1>1. /\ ~conflict /\ ~unset
      /\ config = IF e.anon THEN [mode |-> "anon"]
                  ELSE IF e.hash # NoHash THEN [mode |-> "hashed", tokenHash |-> e.hash]
                                          ELSE [mode |-> "static", token |-> e.token]
  <2>1. config = IF conflict \/ unset THEN [mode |-> "refused"]
                 ELSE IF e.anon THEN [mode |-> "anon"]
                 ELSE IF e.hash # NoHash THEN [mode |-> "hashed", tokenHash |-> e.hash]
                                         ELSE [mode |-> "static", token |-> e.token]
    BY DEF LoadAdminConfig
  <2> HIDE DEF conflict, unset
  <2>2. ~(conflict \/ unset)
    BY <2>1
  <2> QED BY <2>1, <2>2
<1> HIDE DEF config
<1>2. RequireAdmin(r, config) = 0 <=> CheckAdmin(r.bearer, config) \in {"anon", "ok"}
  BY DEF RequireAdmin
<1>3. CASE e.anon
  <2>1. config.mode = "anon" /\ e.token = "" /\ e.hash = NoHash
    BY <1>1, <1>3
  <2> QED BY <1>2, <1>3, <2>1 DEF CheckAdmin, Authorised, config
<1>4. CASE ~e.anon /\ e.hash # NoHash
  <2>1. e.token = "" /\ config.mode = "hashed" /\ config.tokenHash = e.hash
    BY <1>1, <1>4
  <2>2. RequireAdmin(r, config) = 0 <=> r.bearer # "" /\ HashOf(r.bearer) = e.hash
    BY <1>2, <2>1 DEF CheckAdmin
  <2>3. Authorised(r, e) <=> r.bearer # "" /\ {HashOf(r.bearer)} = {e.hash} \ {NoHash}
    <3>1. {e.hash} \cup {} = {e.hash}
      OBVIOUS
    <3> QED BY <1>4, <2>1, <3>1 DEF Authorised
  <2>4. {e.hash} \ {NoHash} = {e.hash}
    BY <1>4
  <2> QED BY <2>2, <2>3, <2>4 DEF config
<1>5. CASE ~e.anon /\ e.hash = NoHash
  <2>1. e.token # "" /\ config.mode = "static" /\ config.token = e.token
    BY <1>1, <1>5
  <2>2. RequireAdmin(r, config) = 0 <=> r.bearer # "" /\ HashOf(r.bearer) = HashOf(e.token)
    BY <1>2, <2>1 DEF CheckAdmin
  <2>3. ({e.hash} \cup {HashOf(e.token)}) \ {NoHash} = {HashOf(e.token)}
    <3>1. HashOf(e.token) # NoHash
      BY DEF HashOf, NoHash
    <3> QED BY <1>5, <3>1
  <2>4. Authorised(r, e) <=> r.bearer # "" /\ {HashOf(r.bearer)} = {HashOf(e.token)}
    BY <1>5, <2>1, <2>3 DEF Authorised
  <2> QED BY <2>2, <2>4 DEF config
<1> QED BY <1>3, <1>4, <1>5

-------------------------------------------------------------------------------
(***************************************************************************)
(* The Falcon routes: what holds of every call in every state.             *)
(***************************************************************************)
Asked == {NoRequest} \cup UNION {Requests[c] : c \in Call}
Envelope == {NoHeaders} \cup {Headers(r, e) : r \in Asked, e \in Envs}

\* The types, with those of the two maps that BridgeTypeOK leaves open.
BridgeTypes ==
  /\ BridgeTypeOK
  /\ req \in [Call -> Asked]
  /\ headers \in [Call -> Envelope]

\* A server that is up, or was, took its settings at boot.
Accepted(e) ==
  /\ ~LoadSecurityConfig(e).refused /\ LoadCorsConfig(e).mode # "refused"
  /\ LoadAdminConfig(e).mode # "refused"
  /\ \A x \in Range(e.cidrs) : WellFormed(x)

Gates(c) == AdminGates(req[c], env.cidrs, LoadAdminConfig(env))

\* A call: before it arrives there is no server that refused its settings; the headers are
\* those of its request; a sign call past the gates passed them; and its child and its
\* directory belong to the time it waits.
CallInv(c) ==
  /\ st[c] # "idle" => server \in {"up", "dead"} /\ req[c] \in Requests[c]
  /\ status[c] # 0 => st[c] = "done"
  /\ st[c] \notin {"idle", "gates"} => headers[c] = Headers(req[c], env)
  /\ c \in Sign =>
       /\ st[c] \in {"reading", "waiting"} \/ status[c] \in {200, 400, 500, 503} => Gates(c) = 0
       /\ status[c] \in {401, 403} => Gates(c) = status[c]
  /\ st[c] \in {"idle", "gates", "reading"} => child[c] = "none"
  /\ stuck[c] => st[c] = "done"
  /\ dir[c] => st[c] = "waiting" \/ stuck[c]
  /\ st[c] = "waiting" => dir[c]
  /\ child[c] = "running" => st[c] = "waiting"

BridgeInv ==
  /\ BridgeTypes
  /\ server \in {"up", "dead"} => Accepted(env)
  /\ \A c \in Call : CallInv(c)

\* The gates answer with one of two statuses, or let the call pass.
LEMMA GateStatus ==
  ASSUME NEW r, NEW list, NEW config
  PROVE  AdminGates(r, list, config) \in {0, 401, 403}
  BY DEF AdminGates, CidrGate, RequireAdmin

\* A child's exit becomes one of two answers.
LEMMA VerdictStatus ==
  ASSUME NEW c, NEW k \in {-1, 0, 2}, NEW s \in Verdicts(c, k)
  PROVE  s \in {200, 500}
<1>1. CASE k = 0
  BY <1>1 DEF Verdicts
<1>2. CASE k = 2
  BY <1>2 DEF Verdicts
<1>3. CASE k = -1
  BY <1>3 DEF Verdicts
<1> QED BY <1>1, <1>2, <1>3

\* The invariant holds at the start, and every step keeps it.
LEMMA BridgeStart == BridgeInit => BridgeInv
<1> SUFFICES ASSUME BridgeInit PROVE BridgeInv
  OBVIOUS
<1>1. BridgeTypes
  <2>1. NoHeaders \in Envelope
    BY DEF Envelope
  <2>2. headers \in [Call -> Envelope]
    BY <2>1 DEF BridgeInit
  <2>3. req \in [Call -> Asked]
    <3>1. NoRequest \in Asked
      BY DEF Asked
    <3> QED BY <3>1 DEF BridgeInit
  <2>4. BridgeTypeOK
    BY DEF BridgeInit, BridgeTypeOK
  <2> QED BY <2>2, <2>3, <2>4 DEF BridgeTypes
<1>2. \A c \in Call : CallInv(c)
  BY DEF BridgeInit, CallInv
<1> QED BY <1>1, <1>2 DEF BridgeInit, BridgeInv

\* What a call does leaves the others as they are.
LEMMA CallKept ==
  ASSUME NEW d, CallInv(d), env' = env, server' = server, req'[d] = req[d], st'[d] = st[d],
         status'[d] = status[d], headers'[d] = headers[d], child'[d] = child[d],
         dir'[d] = dir[d], stuck'[d] = stuck[d]
  PROVE  CallInv(d)'
  BY DEF CallInv, Gates

\* A call that is answered: its directory is gone or stuck.
DoneWith(c) ==
  /\ st'[c] = "done" /\ status'[c] \in {200, 500} /\ (dir'[c] => stuck'[c])
  /\ st' \in [Call -> {"idle", "gates", "reading", "waiting", "done"}]
  /\ status' \in [Call -> {0, 200, 204, 400, 401, 403, 404, 429, 500, 503}]
  /\ dir' \in [Call -> BOOLEAN] /\ stuck' \in [Call -> BOOLEAN]
  /\ \A d \in Call \ {c} : st'[d] = st[d] /\ status'[d] = status[d] /\ dir'[d] = dir[d]
                           /\ stuck'[d] = stuck[d]

\* Finish leaves a call so.
LEMMA Finished ==
  ASSUME NEW c \in Call, NEW s \in {200, 500}, NEW t \in BOOLEAN, BridgeTypes, Finish(c, s, t)
  PROVE  DoneWith(c)
<1> USE DEF BridgeTypes, BridgeTypeOK, DoneWith
<1>1. CASE Answer(c, s) /\ dir' = [dir EXCEPT ![c] = FALSE] /\ UNCHANGED stuck
  BY <1>1 DEF Answer
<1>2. CASE Answer(c, 500) /\ dir' = [dir EXCEPT ![c] = TRUE] /\ stuck' = [stuck EXCEPT ![c] = TRUE]
  BY <1>2 DEF Answer
<1> QED BY <1>1, <1>2 DEF Finish

LEMMA BridgeStep == BridgeInv /\ [BridgeNext]_bridgeVars => BridgeInv'
<1> SUFFICES ASSUME BridgeInv, [BridgeNext]_bridgeVars PROVE BridgeInv'
  OBVIOUS
<1> USE DEF BridgeInv
<1>1. CASE UNCHANGED bridgeVars
  BY <1>1 DEF bridgeVars, conf, process, BridgeTypes, BridgeTypeOK, CallInv, Accepted, Gates
<1>2. CASE Boot /\ UNCHANGED headers
  BY <1>2 DEF Boot, conf, process, BridgeTypes, BridgeTypeOK, CallInv, Accepted, Gates
<1>3. CASE Die /\ UNCHANGED headers
  BY <1>3 DEF Die, conf, process, BridgeTypes, BridgeTypeOK, CallInv, Accepted, Gates
<1>4. ASSUME NEW c \in Call, Dispatch(c) PROVE BridgeInv'
  <2>1. Headers(req[c], env) \in Envelope
    <3>1. req[c] \in Requests[c] /\ env \in Envs
      BY <1>4 DEF Dispatch, BridgeTypes, BridgeTypeOK, CallInv
    <3>2. req[c] \in Asked
      BY <3>1 DEF Asked
    <3> QED BY <3>1, <3>2 DEF Envelope
  <2>2. BridgeTypes'
    BY <1>4, <2>1, GateStatus DEF Dispatch, Answer, conf, process, BridgeTypes, BridgeTypeOK
  <2>3. Accepted(env)' = Accepted(env) /\ server' = server
    BY <1>4 DEF Dispatch, conf, Accepted
  <2>4. ASSUME NEW d \in Call PROVE CallInv(d)'
    BY <1>4, <2>4, GateStatus
       DEF Dispatch, Answer, conf, process, BridgeTypes, BridgeTypeOK, CallInv, Gates
  <2> QED BY <2>2, <2>3, <2>4
<1>5. ASSUME NEW c \in Call, Later(c), UNCHANGED headers PROVE BridgeInv'
  <2>0. Accepted(env)' = Accepted(env) /\ server' = server /\ env' = env
    BY <1>5
       DEF Later, Arrive, BodyThrows, BadFields, NoChild, Spawn, Timeout, OutputTooLarge,
           conf, process,
                SpawnError, Closed, ChildExits, Accepted
  <2>1. CASE Arrive(c)
    <3>0. Requests[c] \subseteq Asked
      BY DEF Asked
    <3>1. BridgeTypes'
      BY <1>5, <2>0, <2>1, <3>0 DEF Arrive, BridgeTypes, BridgeTypeOK, conf, process
    <3>2. ASSUME NEW d \in Call PROVE CallInv(d)'
      <4>1. CASE d # c
        BY <1>5, <2>0, <2>1, <4>1, CallKept DEF Arrive, conf, process, BridgeTypes, BridgeTypeOK
      <4>2. CASE d = c
        BY <1>5, <2>0, <2>1, <4>2
           DEF Arrive, CallInv, Gates, conf, process, BridgeTypes, BridgeTypeOK
      <4> QED BY <4>1, <4>2
    <3> QED BY <2>0, <3>1, <3>2
  <2>2. CASE BodyThrows(c)
    <3>1. BridgeTypes'
      BY <1>5, <2>0, <2>2 DEF BodyThrows, Answer, BridgeTypes, BridgeTypeOK, conf, process
    <3>2. ASSUME NEW d \in Call PROVE CallInv(d)'
      <4>1. CASE d # c
        BY <1>5, <2>0, <2>2, <4>1, CallKept
           DEF BodyThrows, Answer, conf, process, BridgeTypes, BridgeTypeOK
      <4>2. CASE d = c
        BY <1>5, <2>0, <2>2, <4>2
           DEF BodyThrows, Answer, CallInv, Gates, conf, process, BridgeTypes, BridgeTypeOK
      <4> QED BY <4>1, <4>2
    <3> QED BY <2>0, <3>1, <3>2
  <2>3. CASE BadFields(c)
    <3>1. BridgeTypes'
      BY <1>5, <2>0, <2>3 DEF BadFields, Answer, BridgeTypes, BridgeTypeOK, conf, process
    <3>2. ASSUME NEW d \in Call PROVE CallInv(d)'
      <4>1. CASE d # c
        BY <1>5, <2>0, <2>3, <4>1, CallKept
           DEF BadFields, Answer, conf, process, BridgeTypes, BridgeTypeOK
      <4>2. CASE d = c
        BY <1>5, <2>0, <2>3, <4>2
           DEF BadFields, Answer, CallInv, Gates, conf, process, BridgeTypes, BridgeTypeOK
      <4> QED BY <4>1, <4>2
    <3> QED BY <2>0, <3>1, <3>2
  <2>4. CASE NoChild(c)
    <3>0. PICK made \in BOOLEAN : Finish(c, 500, made)
      BY <2>4 DEF NoChild
    <3>f. DoneWith(c)
      BY <3>0, Finished
    <3>1. BridgeTypes'
      BY <1>5, <2>0, <2>4, <3>f DEF NoChild, BridgeTypes, BridgeTypeOK, conf, process, DoneWith
    <3>2. ASSUME NEW d \in Call PROVE CallInv(d)'
      <4>1. CASE d # c
        BY <1>5, <2>0, <2>4, <3>f, <4>1, CallKept
           DEF NoChild, conf, process, BridgeTypes, BridgeTypeOK, DoneWith
      <4>2. CASE d = c
        BY <1>5, <2>0, <2>4, <3>f, <4>2
           DEF NoChild, CallInv, Gates, conf, process, BridgeTypes, BridgeTypeOK, DoneWith
      <4> QED BY <4>1, <4>2
    <3> QED BY <2>0, <3>1, <3>2
  <2>5. CASE Spawn(c)
    <3>1. BridgeTypes'
      BY <1>5, <2>0, <2>5 DEF Spawn, BridgeTypes, BridgeTypeOK, conf, process
    <3>2. ASSUME NEW d \in Call PROVE CallInv(d)'
      <4>1. CASE d # c
        <5>1. /\ st'[d] = st[d] /\ dir'[d] = dir[d] /\ child'[d] = child[d]
              /\ UNCHANGED <<req, status, stuck>>
          BY <2>5, <4>1 DEF Spawn, BridgeTypes, BridgeTypeOK
        <5> QED BY <1>5, <2>0, <5>1, CallKept
      <4>2. CASE d = c
        BY <1>5, <2>0, <2>5, <4>2
           DEF Spawn, CallInv, Gates, conf, process, BridgeTypes, BridgeTypeOK
      <4> QED BY <4>1, <4>2
    <3> QED BY <2>0, <3>1, <3>2
  <2>6. CASE Timeout(c)
    <3>1. CASE st[c] = "waiting"
      <4>0. Finish(c, 500, TRUE)
        BY <2>6, <3>1 DEF Timeout, Settle
      <4>f. DoneWith(c)
        BY <4>0, Finished
      <4>1. BridgeTypes'
        <5>1. /\ child' \in [Call -> {"none", "stillborn", "running", "signalled", "exited"}]
              /\ killed' \in [Call -> BOOLEAN] /\ timer' \in [Call -> BOOLEAN]
          BY <1>5, <2>6 DEF Timeout, Kill, BridgeTypes, BridgeTypeOK
        <5>2. req' = req /\ code' = code
          BY <2>6 DEF Timeout, Kill
        <5> QED BY <1>5, <2>0, <4>f, <5>1, <5>2 DEF BridgeTypes, BridgeTypeOK, DoneWith
      <4>2. ASSUME NEW d \in Call \ {c} PROVE CallInv(d)'
        BY <1>5, <2>0, <2>6, <4>f, CallKept
           DEF Timeout, Kill, conf, process, BridgeTypes, BridgeTypeOK, DoneWith
      <4>3. CallInv(c)'
        BY <1>5, <2>0, <2>6, <3>1, <4>f
           DEF Timeout, Kill, CallInv, Gates, conf, process, BridgeTypes, BridgeTypeOK, DoneWith
      <4> QED BY <2>0, <4>1, <4>2, <4>3
    <3>2. CASE st[c] # "waiting"
      <4>1. BridgeTypes'
        BY <1>5, <2>0, <2>6, <3>2
           DEF Timeout, Kill, Settle, BridgeTypes, BridgeTypeOK, conf, process
      <4>2. ASSUME NEW d \in Call \ {c} PROVE CallInv(d)'
        BY <1>5, <2>0, <2>6, <3>2, CallKept
           DEF Timeout, Kill, Settle, conf, process, BridgeTypes, BridgeTypeOK
      <4>3. CallInv(c)'
        BY <1>5, <2>0, <2>6, <3>2
           DEF Timeout, Kill, Settle, CallInv, Gates, conf, process, BridgeTypes, BridgeTypeOK
      <4> QED BY <2>0, <4>1, <4>2, <4>3
    <3> QED BY <3>1, <3>2
  <2>7. CASE OutputTooLarge(c)
    <3>1. CASE st[c] = "waiting"
      <4>0. Finish(c, 500, TRUE)
        BY <2>7, <3>1 DEF OutputTooLarge, Settle
      <4>f. DoneWith(c)
        BY <4>0, Finished
      <4>1. BridgeTypes'
        <5>1. /\ child' \in [Call -> {"none", "stillborn", "running", "signalled", "exited"}]
              /\ killed' \in [Call -> BOOLEAN] /\ timer' \in [Call -> BOOLEAN]
          BY <1>5, <2>7 DEF OutputTooLarge, Kill, BridgeTypes, BridgeTypeOK
        <5>2. req' = req /\ code' = code
          BY <2>7 DEF OutputTooLarge, Kill
        <5> QED BY <1>5, <2>0, <4>f, <5>1, <5>2 DEF BridgeTypes, BridgeTypeOK, DoneWith
      <4>2. ASSUME NEW d \in Call \ {c} PROVE CallInv(d)'
        BY <1>5, <2>0, <2>7, <4>f, CallKept
           DEF OutputTooLarge, Kill, conf, process, BridgeTypes, BridgeTypeOK, DoneWith
      <4>3. CallInv(c)'
        BY <1>5, <2>0, <2>7, <3>1, <4>f
           DEF OutputTooLarge, Kill, CallInv, Gates, conf, process, BridgeTypes, BridgeTypeOK,
               DoneWith
      <4> QED BY <2>0, <4>1, <4>2, <4>3
    <3>2. CASE st[c] # "waiting"
      <4>1. BridgeTypes'
        BY <1>5, <2>0, <2>7, <3>2
           DEF OutputTooLarge, Kill, Settle, BridgeTypes, BridgeTypeOK, conf, process
      <4>2. ASSUME NEW d \in Call \ {c} PROVE CallInv(d)'
        BY <1>5, <2>0, <2>7, <3>2, CallKept
           DEF OutputTooLarge, Kill, Settle, conf, process, BridgeTypes, BridgeTypeOK
      <4>3. CallInv(c)'
        BY <1>5, <2>0, <2>7, <3>2
           DEF OutputTooLarge, Kill, Settle, CallInv, Gates, conf, process, BridgeTypes,
               BridgeTypeOK
      <4> QED BY <2>0, <4>1, <4>2, <4>3
    <3> QED BY <3>1, <3>2
  <2>8. CASE SpawnError(c)
    <3>1. CASE st[c] = "waiting"
      <4>0. Finish(c, 500, TRUE)
        BY <2>8, <3>1 DEF SpawnError, Settle
      <4>f. DoneWith(c)
        BY <4>0, Finished
      <4>1. BridgeTypes'
        <5>1. /\ child' \in [Call -> {"none", "stillborn", "running", "signalled", "exited"}]
              /\ killed' \in [Call -> BOOLEAN] /\ timer' \in [Call -> BOOLEAN]
          BY <1>5, <2>8 DEF SpawnError, BridgeTypes, BridgeTypeOK
        <5>2. req' = req /\ code' = code
          BY <2>8 DEF SpawnError
        <5> QED BY <1>5, <2>0, <4>f, <5>1, <5>2 DEF BridgeTypes, BridgeTypeOK, DoneWith
      <4>2. ASSUME NEW d \in Call \ {c} PROVE CallInv(d)'
        BY <1>5, <2>0, <2>8, <4>f, CallKept
           DEF SpawnError, conf, process, BridgeTypes, BridgeTypeOK, DoneWith
      <4>3. CallInv(c)'
        BY <1>5, <2>0, <2>8, <3>1, <4>f
           DEF SpawnError, CallInv, Gates, conf, process, BridgeTypes, BridgeTypeOK, DoneWith
      <4> QED BY <2>0, <4>1, <4>2, <4>3
    <3>2. CASE st[c] # "waiting"
      <4>1. BridgeTypes'
        BY <1>5, <2>0, <2>8, <3>2
           DEF SpawnError, Settle, BridgeTypes, BridgeTypeOK, conf, process
      <4>2. ASSUME NEW d \in Call \ {c} PROVE CallInv(d)'
        BY <1>5, <2>0, <2>8, <3>2, CallKept
           DEF SpawnError, Settle, conf, process, BridgeTypes, BridgeTypeOK
      <4>3. CallInv(c)'
        BY <1>5, <2>0, <2>8, <3>2
           DEF SpawnError, Settle, CallInv, Gates, conf, process, BridgeTypes, BridgeTypeOK
      <4> QED BY <2>0, <4>1, <4>2, <4>3
    <3> QED BY <3>1, <3>2
  <2>9. CASE Closed(c)
    <3>1. CASE st[c] = "waiting" /\ ~killed[c]
      <4>0. PICK s \in {200, 500} : Finish(c, s, TRUE)
        <5>1. PICK s \in Verdicts(c, code[c]) : Finish(c, s, TRUE)
          BY <2>9, <3>1 DEF Closed, Settle
        <5>2. s \in {200, 500}
          BY <5>1, VerdictStatus DEF BridgeTypes, BridgeTypeOK
        <5> QED BY <5>1, <5>2
      <4>f. DoneWith(c)
        BY <4>0, Finished
      <4>1. BridgeTypes'
        <5>1. /\ child' \in [Call -> {"none", "stillborn", "running", "signalled", "exited"}]
              /\ killed' \in [Call -> BOOLEAN] /\ timer' \in [Call -> BOOLEAN]
          BY <1>5, <2>9 DEF Closed, BridgeTypes, BridgeTypeOK
        <5>2. req' = req /\ code' = code
          BY <2>9 DEF Closed
        <5> QED BY <1>5, <2>0, <4>f, <5>1, <5>2 DEF BridgeTypes, BridgeTypeOK, DoneWith
      <4>2. ASSUME NEW d \in Call \ {c} PROVE CallInv(d)'
        BY <1>5, <2>0, <2>9, <4>f, CallKept
           DEF Closed, conf, process, BridgeTypes, BridgeTypeOK, DoneWith
      <4>3. CallInv(c)'
        BY <1>5, <2>0, <2>9, <3>1, <4>f
           DEF Closed, CallInv, Gates, conf, process, BridgeTypes, BridgeTypeOK, DoneWith
      <4> QED BY <2>0, <4>1, <4>2, <4>3
    <3>2. CASE st[c] # "waiting" \/ killed[c]
      <4>0. UNCHANGED <<st, status, dir, stuck>>
        BY <2>9, <3>2 DEF Closed, Settle, conf, process
      <4>1. BridgeTypes'
        BY <1>5, <2>0, <2>9, <4>0 DEF Closed, BridgeTypes, BridgeTypeOK, conf, process
      <4>2. ASSUME NEW d \in Call \ {c} PROVE CallInv(d)'
        BY <1>5, <2>0, <2>9, <4>0, CallKept DEF Closed, conf, process, BridgeTypes, BridgeTypeOK
      <4>3. CallInv(c)'
        BY <1>5, <2>0, <2>9, <4>0
           DEF Closed, CallInv, Gates, conf, process, BridgeTypes, BridgeTypeOK
      <4> QED BY <2>0, <4>1, <4>2, <4>3
    <3> QED BY <3>1, <3>2
  <2>10. CASE ChildExits(c)
    <3>1. BridgeTypes'
      BY <1>5, <2>0, <2>10
         DEF ChildExits, SignExits, VerifyExits, BridgeTypes, BridgeTypeOK, conf, process
    <3>2. ASSUME NEW d \in Call PROVE CallInv(d)'
      <4>1. CASE d # c
        BY <1>5, <2>0, <2>10, <4>1, CallKept
           DEF ChildExits, SignExits, VerifyExits, conf, process, BridgeTypes, BridgeTypeOK
      <4>2. CASE d = c
        BY <1>5, <2>0, <2>10, <4>2
           DEF ChildExits, SignExits, VerifyExits, CallInv, Gates, conf, process, BridgeTypes,
               BridgeTypeOK
      <4> QED BY <4>1, <4>2
    <3> QED BY <2>0, <3>1, <3>2
  <2> QED BY <1>5, <2>1, <2>2, <2>3, <2>4, <2>5, <2>6, <2>7, <2>8, <2>9, <2>10 DEF Later
<1> QED BY <1>1, <1>2, <1>3, <1>4, <1>5 DEF BridgeNext

\* What a server that took its settings puts on an answer.
LEMMA HeadersConfined ==
  ASSUME NEW r, NEW e, Accepted(e), NEW h, h = Headers(r, e)
  PROVE  /\ h.security = Always \cup {"hsts" : x \in {e.hsts} \cap {"on"}}
         /\ h.origin \in {"", "*", r.origin} /\ (h.origin # "" => h.origin \in Range(e.origins))
         /\ h.credentials => h.origin \notin {"", "*"}
<1> DEFINE cors == LoadCorsConfig(e)
<1>1. /\ h.security = SecurityHeaders(LoadSecurityConfig(e))
      /\ h.origin = AllowOrigin(r, cors)
      /\ h.credentials = (AllowOrigin(r, cors) # "" /\ cors.allowCreds)
  BY DEF Headers
<1>2. h.security = Always \cup {"hsts" : x \in {e.hsts} \cap {"on"}}
  <2>1. CASE e.hsts = "on"
    <3>1. h.security = Always \cup {"hsts"}
      BY <1>1, <2>1 DEF SecurityHeaders, LoadSecurityConfig
    <3>2. {"hsts" : x \in {e.hsts} \cap {"on"}} = {"hsts"}
      BY <2>1
    <3> QED BY <3>1, <3>2
  <2>2. CASE e.hsts # "on"
    <3>1. h.security = Always \cup {}
      BY <1>1, <2>2 DEF SecurityHeaders, LoadSecurityConfig
    <3>2. {"hsts" : x \in {e.hsts} \cap {"on"}} = {}
      BY <2>2
    <3> QED BY <3>1, <3>2
  <2> QED BY <2>1, <2>2
<1>3. CASE e.origins = <<>>
  <2>1. cors.mode = "off"
    BY <1>3 DEF LoadCorsConfig
  <2>2. AllowOrigin(r, cors) = ""
    BY <2>1 DEF AllowOrigin
  <2> QED BY <1>1, <1>2, <2>2
<1>4. CASE e.origins = <<"*">>
  <2>1. cors.mode = "wildcard" /\ cors.allowCreds = FALSE
    BY <1>4 DEF LoadCorsConfig, Accepted
  <2>2. AllowOrigin(r, cors) = "*"
    BY <2>1 DEF AllowOrigin
  <2>3. "*" \in Range(e.origins)
    BY <1>4 DEF Range
  <2> QED BY <1>1, <1>2, <2>1, <2>2, <2>3
<1>5. CASE e.origins # <<>> /\ e.origins # <<"*">>
  <2>1. /\ cors.mode = "list" /\ cors.origins = Range(e.origins)
        /\ "*" \notin Range(e.origins)
    BY <1>5 DEF LoadCorsConfig, Accepted
  <2> HIDE DEF cors
  <2>2. AllowOrigin(r, cors) = IF r.origin # "" /\ r.origin \in cors.origins THEN r.origin ELSE ""
    BY <2>1 DEF AllowOrigin
  <2> QED BY <1>1, <1>2, <2>1, <2>2
<1> QED BY <1>3, <1>4, <1>5

\* The invariant holds in every state of the Falcon routes.
THEOREM BridgeInvariant == BridgeSpec => []BridgeInv
  BY BridgeStart, BridgeStep, PTL DEF BridgeSpec

\* BridgeTypeOK: the variables keep their types.
THEOREM BridgeTypesHold == BridgeSpec => []BridgeTypeOK
  BY BridgeInvariant, PTL DEF BridgeInv, BridgeTypes

\* NothingLeftBehind: once a call is answered, its directory is gone unless removing it
\* failed, and its child is dead or dying (falconSign's finally, runChild's kill).
THEOREM CallsLeaveNothing == BridgeSpec => []NothingLeftBehind
<1>1. BridgeInv => NothingLeftBehind
  BY DEF BridgeInv, CallInv, NothingLeftBehind
<1> QED BY <1>1, BridgeInvariant, PTL
\* CorsConfined: the headers of every answer, and the origins they allow, are those of the
\* settings the server booted with (applyCors of security.mjs).
THEOREM CorsIsConfined == BridgeSpec => []CorsConfined
<1>1. BridgeInv => CorsConfined
  <2> SUFFICES ASSUME BridgeInv, NEW c \in Call, status[c] # 0
      PROVE  LET h == headers[c] IN
             /\ h.security = Always \cup {"hsts" : x \in {env.hsts} \cap {"on"}}
             /\ h.origin \in {"", "*", req[c].origin}
             /\ (h.origin # "" => h.origin \in Range(env.origins))
             /\ h.credentials => h.origin \notin {"", "*"}
    BY DEF CorsConfined
  <2>1. headers[c] = Headers(req[c], env) /\ Accepted(env)
    BY DEF BridgeInv, CallInv
  <2> QED BY <2>1, HeadersConfined
<1> QED BY <1>1, BridgeInvariant, PTL

\* AdmittedRightly: the calls that get past the gates, and the refusals, are those that an
\* interval of numbers and the one secret tell apart.
THEOREM GatesAdmitRightly == BridgeSpec => []AdmittedRightly
<1>1. BridgeInv => AdmittedRightly
  <2> SUFFICES ASSUME BridgeInv, NEW c \in Sign
      PROVE  /\ st[c] \in {"reading", "waiting"} \/ status[c] \in {200, 400, 500, 503} =>
                  Allowed(req[c], env.cidrs) /\ Authorised(req[c], env)
             /\ status[c] = 403 => ~Allowed(req[c], env.cidrs)
             /\ status[c] = 401 => Allowed(req[c], env.cidrs) /\ ~Authorised(req[c], env)
    BY DEF AdmittedRightly
  <2>0. CASE st[c] = "idle"
    BY <2>0 DEF BridgeInv, BridgeTypes, BridgeTypeOK, CallInv, Call
  <2>1. CASE st[c] # "idle"
    <3> DEFINE config == LoadAdminConfig(env)
    <3>1. /\ req[c] \in Requests[c] /\ Accepted(env) /\ env \in Envs
          /\ (st[c] \in {"reading", "waiting"} \/ status[c] \in {200, 400, 500, 503} => Gates(c) = 0)
          /\ status[c] \in {401, 403} => Gates(c) = status[c]
      BY <2>1 DEF BridgeInv, BridgeTypes, BridgeTypeOK, CallInv, Call
    <3>2. CidrGate(req[c], env.cidrs) = 0 <=> Allowed(req[c], env.cidrs)
      <4>1. /\ req[c].socket \in Address /\ req[c].xff \in Seq(Address)
            /\ env.cidrs \in Seq([addr : Address, mask : Int])
        BY <3>1, InputAssumption
      <4>2. \A e \in Range(env.cidrs) : WellFormed(e)
        BY <3>1 DEF Accepted
      <4> QED BY <4>1, <4>2, GateIsAllowed
    <3>3. RequireAdmin(req[c], config) = 0 <=> Authorised(req[c], env)
      <4>1. /\ env.anon \in BOOLEAN
            /\ env.hash \in {NoHash, <<"malformed">>} \cup ({"sha256"} \X STRING)
        BY <3>1, InputAssumption
      <4>2. config.mode # "refused"
        BY <3>1 DEF Accepted
      <4> QED BY <4>1, <4>2, AdminIsAuthorised
    <3>4. Gates(c) = IF CidrGate(req[c], env.cidrs) # 0 THEN CidrGate(req[c], env.cidrs)
                     ELSE RequireAdmin(req[c], config)
      BY DEF Gates, AdminGates
    <3>5. CidrGate(req[c], env.cidrs) \in {0, 403} /\ RequireAdmin(req[c], config) \in {0, 401}
      BY DEF CidrGate, RequireAdmin
    <3> HIDE DEF config
    <3> QED BY <3>1, <3>2, <3>3, <3>4, <3>5
  <2> QED BY <2>0, <2>1
<1> QED BY <1>1, BridgeInvariant, PTL
===============================================================================
