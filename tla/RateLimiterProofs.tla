-------------------------- MODULE RateLimiterProofs --------------------------
(***************************************************************************)
(* The log of the rate limiter for any limit, window, clocks, delays and   *)
(* requests.                                                               *)
(***************************************************************************)
EXTENDS RateLimiter, FiniteSetTheorems, TLAPS

LEMMA MaxType == max \in Nat \ {0}
BY RateLimiterAssumption DEF max

(* The next state of the request's record. *)
LEMMA TypeStep == TypeOK /\ [Next]_vars => TypeOK'
<1> SUFFICES ASSUME TypeOK, [Next]_vars PROVE TypeOK'
  OBVIOUS
<1> USE RateLimiterAssumption
<1>1. CASE UNCHANGED vars
  BY <1>1 DEF TypeOK, vars
<1>2. CASE Tick
  BY <1>2 DEF Tick, TypeOK
<1>3. ASSUME NEW r \in Requests, Send(r) PROVE TypeOK'
  <2>1. PICK i \in Instances, n \in 1..MaxBatch :
          req' = [req EXCEPT ![r] = [pc |-> "sent", now |-> clock + Skew[i], n |-> n,
                                     by |-> i, at |-> 0]]
    BY <1>3 DEF Send
  <2>2. clock + Skew[i] \in Nat /\ n \in 0..MaxBatch /\ 0 \in 0..MaxTime
    BY DEF TypeOK
  <2>3. req' \in [Requests -> [pc : Phase, now : Nat, n : 0..MaxBatch,
                               by : Instances \cup {"none"}, at : 0..MaxTime]]
    BY <2>1, <2>2 DEF TypeOK, Phase
  <2> QED BY <1>3, <2>3 DEF Send, TypeOK
<1>4. ASSUME NEW r \in Requests, NEW p \in Phase, NEW a \in 0..MaxTime,
             req' = [req EXCEPT ![r].pc = p, ![r].at = a]
      PROVE  req' \in [Requests -> [pc : Phase, now : Nat, n : 0..MaxBatch,
                                    by : Instances \cup {"none"}, at : 0..MaxTime]]
  BY <1>4 DEF TypeOK
<1>5. ASSUME NEW r \in Requests, allowNScript(r)
      PROVE  log' \subseteq Requests \X (1..MaxBatch) /\ expires' \in Nat
  <2>1. Members(r) \subseteq Requests \X (1..MaxBatch)
    BY DEF Members, TypeOK
  <2>2. Pruned(req[r].now) \subseteq Requests \X (1..MaxBatch)
    BY DEF Pruned, Stored, TypeOK
  <2> QED BY <1>5, <2>1, <2>2 DEF allowNScript, TypeOK
<1>6. ASSUME NEW r \in Requests, Run(r) PROVE TypeOK'
  <2>1. req' \in [Requests -> [pc : Phase, now : Nat, n : 0..MaxBatch,
                               by : Instances \cup {"none"}, at : 0..MaxTime]]
    BY <1>4, <1>6 DEF Run, Phase, TypeOK
  <2> QED BY <1>5, <1>6, <2>1 DEF Run, TypeOK
<1>7. ASSUME NEW r \in Requests, RunUnanswered(r) PROVE TypeOK'
  <2>1. req' \in [Requests -> [pc : Phase, now : Nat, n : 0..MaxBatch,
                               by : Instances \cup {"none"}, at : 0..MaxTime]]
    BY <1>7 DEF RunUnanswered, Phase, TypeOK
  <2> QED BY <1>5, <1>7, <2>1 DEF RunUnanswered, TypeOK
<1>8. ASSUME NEW r \in Requests, FailOpen(r) PROVE TypeOK'
  <2>1. req' \in [Requests -> [pc : Phase, now : Nat, n : 0..MaxBatch,
                               by : Instances \cup {"none"}, at : 0..MaxTime]]
    BY <1>4, <1>8 DEF FailOpen, Phase, TypeOK
  <2> QED BY <1>8, <2>1 DEF FailOpen, TypeOK
<1> QED BY <1>1, <1>2, <1>3, <1>6, <1>7, <1>8 DEF Next

(* A request has as many members as it has tasks. *)
LEMMA MembersCount ==
  ASSUME TypeOK, NEW r \in Requests
  PROVE  IsFiniteSet(Members(r)) /\ Cardinality(Members(r)) = req[r].n
<1>1. req[r].n \in Nat
  BY RateLimiterAssumption DEF TypeOK
<1>2. /\ IsFiniteSet({r}) /\ Cardinality({r}) = 1
      /\ IsFiniteSet(1..req[r].n) /\ Cardinality(1..req[r].n) = req[r].n
  <2>1. IsFiniteSet({r}) /\ Cardinality({r}) = 1
    BY FS_Singleton
  <2>2. ASSUME NEW n \in Nat PROVE IsFiniteSet(1..n) /\ Cardinality(1..n) = n
    <3>1. 1 \in Int /\ n \in Int
      OBVIOUS
    <3>2. IsFiniteSet(1..n) /\ Cardinality(1..n) = IF 1 > n THEN 0 ELSE n - 1 + 1
      BY <3>1, FS_Interval
    <3> QED BY <3>2
  <2> QED BY <1>1, <2>1, <2>2
<1>3. /\ IsFiniteSet({r} \X (1..req[r].n))
      /\ Cardinality({r} \X (1..req[r].n)) = Cardinality({r}) * Cardinality(1..req[r].n)
  BY <1>2, FS_Product
<1> QED BY <1>1, <1>2, <1>3 DEF Members

LogInv == TypeOK /\ IsFiniteSet(log) /\ LogIsBounded

(* What the script leaves in the key, whether it admits the request or not.*)
LEMMA ScriptKeepsLog ==
  ASSUME LogInv, NEW r \in Requests, allowNScript(r)
  PROVE  IsFiniteSet(log') /\ Cardinality(log') <= max
<1> DEFINE P == Pruned(req[r].now)
<1>1. P \in SUBSET log
  BY DEF Pruned, Stored
<1>2. IsFiniteSet(P) /\ Cardinality(P) <= Cardinality(log)
  BY <1>1, FS_Subset DEF LogInv
<1>3. Cardinality(P) \in Nat /\ Cardinality(log) \in Nat
  BY <1>2, FS_CardinalityType DEF LogInv
<1>4. CASE log' = P
  BY <1>2, <1>3, <1>4, MaxType DEF LogInv, LogIsBounded
<1>5. CASE Fits(r) /\ log' = P \cup Members(r)
  <2>1. IsFiniteSet(Members(r)) /\ Cardinality(Members(r)) = req[r].n /\ req[r].n \in Nat
    BY MembersCount, RateLimiterAssumption DEF LogInv, TypeOK
  <2>2. /\ IsFiniteSet(P \cup Members(r))
        /\ Cardinality(P \cup Members(r)) =
             Cardinality(P) + Cardinality(Members(r)) - Cardinality(P \cap Members(r))
    BY <1>2, <2>1, FS_Union
  <2>3. Cardinality(P \cap Members(r)) \in Nat
    BY <1>2, FS_Intersection, FS_CardinalityType
  <2>4. Cardinality(P) + req[r].n <= max
    BY <1>5 DEF Fits
  <2> QED BY <1>3, <1>5, <2>1, <2>2, <2>3, <2>4, MaxType
<1> QED BY <1>4, <1>5 DEF allowNScript

LEMMA LogInit == Init => LogInv
<1> SUFFICES ASSUME Init PROVE LogInv
  OBVIOUS
<1>1. NewRequest \in [pc : Phase, now : Nat, n : 0..MaxBatch,
                      by : Instances \cup {"none"}, at : 0..MaxTime]
  BY RateLimiterAssumption DEF NewRequest, Phase
<1>2. TypeOK
  BY <1>1, RateLimiterAssumption DEF Init, TypeOK
<1> QED BY <1>2, FS_EmptySet, MaxType DEF Init, LogInv, LogIsBounded

LEMMA LogStep == LogInv /\ [Next]_vars => LogInv'
<1> SUFFICES ASSUME LogInv, [Next]_vars PROVE LogInv'
  OBVIOUS
<1>1. TypeOK'
  BY TypeStep DEF LogInv
<1>2. IsFiniteSet(log') /\ Cardinality(log') <= max
  <2>1. CASE log' = log
    BY <2>1 DEF LogInv, LogIsBounded
  <2>2. ASSUME NEW r \in Requests, allowNScript(r)
        PROVE  IsFiniteSet(log') /\ Cardinality(log') <= max
    BY <2>2, ScriptKeepsLog
  <2> QED BY <2>1, <2>2 DEF Next, vars, Tick, Send, Run, RunUnanswered, FailOpen
<1> QED BY <1>1, <1>2 DEF LogInv, LogIsBounded

(* The sorted set of a client never holds more than max members, so Redis' *)
(* memory for a client is bounded, also when go-redis sends a script that  *)
(* has already run, however often.                                         *)
THEOREM BoundedLog == Spec => []LogIsBounded
<1>1. LogInv => LogIsBounded
  BY DEF LogInv
<1> QED BY <1>1, LogInit, LogStep, PTL DEF Spec

-----------------------------------------------------------------------------
(* The window.  A score is the time an instance's clock showed when it     *)
(* sent the script; Redis decides at another time.  The invariant relates   *)
(* the two and says what the log still knows of the requests admitted.     *)

(* A request under way was sent at most MaxDelay ago, by a clock that is   *)
(* at most MaxSkew ahead.                                                  *)
InFlight ==
    \A r \in Requests : req[r].pc \in {"sent", "lost"} =>
      /\ req[r].by \in Instances
      /\ req[r].now <= clock + MaxSkew
      /\ clock <= req[r].now + MaxDelay

(* So the score of a request that was decided is near its decision. *)
Decided ==
    \A r \in Requests : req[r].pc \in {"allowed", "denied"} =>
      /\ req[r].at <= clock
      /\ req[r].now <= req[r].at + MaxSkew
      /\ req[r].at <= req[r].now + MaxDelay

(* PEXPIRE never removes the key while a request of the last window counts. *)
ExpiryIsLate ==
    /\ expires <= clock + Window
    /\ \A r \in Requests : req[r].pc = "allowed" => req[r].at + Window <= expires

(* Neither ZREMRANGEBYSCORE by a clock that is ahead nor PEXPIRE has       *)
(* removed a request that was admitted in the window that is enforced.     *)
RecentIsLogged ==
    \A r \in Requests : req[r].pc = "allowed" /\ clock - (Window - Spread) < req[r].at =>
      Members(r) \subseteq log

(* Every member was charged for a request that was admitted or whose       *)
(* answer was lost.                                                        *)
LogIsOwed ==
    /\ \A m \in log : /\ m \in Members(m[1])
                      /\ req[m[1]].pc = "allowed" \/ m[1] \in lost
    /\ \A r \in lost : req[r].pc # "new"

WindowInv ==
    /\ LogInv
    /\ InFlight
    /\ Decided
    /\ ExpiryIsLate
    /\ RecentIsLogged
    /\ LogIsOwed

LEMMA ConstantTypes ==
  /\ Window \in Int /\ MaxSkew \in Int /\ MaxDelay \in Int
  /\ 0 <= Window /\ 0 <= MaxSkew /\ 0 <= MaxDelay
  /\ Spread = MaxSkew + MaxDelay
BY RateLimiterAssumption DEF Spread

LEMMA TimeTypes ==
  ASSUME TypeOK
  PROVE  /\ clock \in Int /\ 0 <= clock /\ expires \in Int
         /\ \A r \in Requests : req[r].now \in Int /\ req[r].at \in Int /\ req[r].n \in Nat
BY RateLimiterAssumption DEF TypeOK

(* What a lost answer leaves in the request's record. *)
LEMMA LostFacts ==
  ASSUME TypeOK, NEW r \in Requests, req' = [req EXCEPT ![r].pc = "lost"]
  PROVE  /\ req'[r].pc = "lost" /\ req'[r].now = req[r].now
         /\ req'[r].n = req[r].n /\ req'[r].by = req[r].by
         /\ \A q \in Requests : q # r => req'[q] = req[q]
         /\ \A q \in Requests : Members(q)' = Members(q)
<1>1. /\ req'[r].pc = "lost" /\ req'[r].now = req[r].now
      /\ req'[r].n = req[r].n /\ req'[r].by = req[r].by
      /\ \A q \in Requests : q # r => req'[q] = req[q]
  BY DEF TypeOK
<1>2. ASSUME NEW q \in Requests PROVE Members(q)' = Members(q)
  <2>1. req'[q].n = req[q].n
    BY <1>1
  <2> QED BY <2>1 DEF Members
<1> QED BY <1>1, <1>2

LEMMA SendFacts ==
  ASSUME TypeOK, NEW r \in Requests, Send(r)
  PROVE  /\ req'[r].pc = "sent" /\ req[r].pc = "new"
         /\ req'[r].by \in Instances
         /\ req'[r].now <= clock + MaxSkew /\ clock <= req'[r].now
         /\ \A q \in Requests : q # r => req'[q] = req[q] /\ Members(q)' = Members(q)
<1>1. PICK i \in Instances, n \in 1..MaxBatch :
        req' = [req EXCEPT ![r] = [pc |-> "sent", now |-> clock + Skew[i], n |-> n,
                                   by |-> i, at |-> 0]]
  BY DEF Send
<1>2. /\ req'[r] = [pc |-> "sent", now |-> clock + Skew[i], n |-> n, by |-> i, at |-> 0]
      /\ \A q \in Requests : q # r => req'[q] = req[q]
  BY <1>1 DEF TypeOK
<1>3. Skew[i] \in Int /\ 0 <= Skew[i] /\ Skew[i] <= MaxSkew /\ clock \in Int
  BY TimeTypes, RateLimiterAssumption
<1>4. \A q \in Requests : q # r => Members(q)' = Members(q)
  BY <1>2 DEF Members
<1>5. req'[r].now <= clock + MaxSkew /\ clock <= req'[r].now
  BY <1>2, <1>3, ConstantTypes
<1> QED BY <1>2, <1>4, <1>5 DEF Send

(* A script that runs now finds every request of the window that is        *)
(* enforced, whatever clock its score is from.                             *)
LEMMA ScriptSeesWindow ==
  ASSUME WindowInv, NEW r \in Requests, req[r].pc \in {"sent", "lost"},
         NEW q \in Requests, req[q].pc = "allowed",
         clock - (Window - Spread) < req[q].at
  PROVE  Members(q) \subseteq Pruned(req[r].now)
<1>1. Members(q) \subseteq log
  BY DEF WindowInv, RecentIsLogged
<1>2. clock < expires
  BY TimeTypes, ConstantTypes DEF WindowInv, LogInv, ExpiryIsLate
<1>3. req[q].now > req[r].now - Window
  BY TimeTypes, ConstantTypes DEF WindowInv, LogInv, InFlight, Decided
<1>4. \A m \in Members(q) : m[1] = q
  BY DEF Members
<1> QED BY <1>1, <1>2, <1>3, <1>4 DEF Pruned, Stored

(* And what it finds was admitted in a window that is as much longer, or   *)
(* was sent in it and its answer was lost.                                 *)
LEMMA ScriptSeesOnlyWindow ==
  ASSUME WindowInv, NEW r \in Requests, req[r].pc \in {"sent", "lost"}
  PROVE  Pruned(req[r].now) \subseteq
           AdmittedBetween(clock - (Window + Spread), clock, {"allowed"})
             \cup LostSince(clock - (Window + Spread))
<1> SUFFICES ASSUME NEW m \in Pruned(req[r].now)
             PROVE  m \in AdmittedBetween(clock - (Window + Spread), clock, {"allowed"})
                            \cup LostSince(clock - (Window + Spread))
  OBVIOUS
<1> PICK q : q = m[1]
  OBVIOUS
<1>1. m \in log /\ q \in Requests /\ req[q].now > req[r].now - Window
  BY DEF Pruned, Stored, WindowInv, LogInv, TypeOK
<1>2. m \in Members(q)
  BY <1>1 DEF WindowInv, LogIsOwed
<1>3. CASE q \in lost
  <2>1. clock - (Window + Spread) < req[q].now
    BY <1>1, TimeTypes, ConstantTypes DEF WindowInv, LogInv, InFlight
  <2> QED BY <1>2, <1>3, <2>1 DEF LostSince
<1>4. CASE req[q].pc = "allowed"
  <2>1. clock - (Window + Spread) < req[q].at /\ req[q].at <= clock
    BY <1>1, <1>4, TimeTypes, ConstantTypes DEF WindowInv, LogInv, InFlight, Decided
  <2> QED BY <1>1, <1>2, <1>4, <2>1 DEF AdmittedBetween
<1> QED BY <1>1, <1>3, <1>4 DEF WindowInv, LogIsOwed

(* The script: what it does to the key, the request apart. *)
LEMMA ScriptFacts ==
  ASSUME WindowInv, NEW r \in Requests, req[r].pc \in {"sent", "lost"}, allowNScript(r)
  PROVE  /\ expires' \in Int /\ expires <= expires' /\ expires' <= clock + Window
         /\ Pruned(req[r].now) \subseteq log' /\ Pruned(req[r].now) \subseteq log
         /\ log' \subseteq Pruned(req[r].now) \cup Members(r)
         /\ Fits(r) => expires' = clock + Window /\ Members(r) \subseteq log'
         /\ ~Fits(r) => log' = Pruned(req[r].now)
         /\ \A q \in Requests : req[q].pc = "allowed" /\ clock - (Window - Spread) < req[q].at =>
              Members(q) \subseteq log'
<1>1. expires \in Int /\ expires <= clock + Window
  BY TimeTypes DEF WindowInv, LogInv, ExpiryIsLate
<1>2. clock \in Int /\ Window \in Int
  BY TimeTypes, ConstantTypes DEF WindowInv, LogInv
<1>3. expires' \in {expires, clock + Window}
  BY DEF allowNScript
<1>4. Pruned(req[r].now) \subseteq log
  BY DEF Pruned, Stored
<1>5. /\ Pruned(req[r].now) \subseteq log'
      /\ log' \subseteq Pruned(req[r].now) \cup Members(r)
      /\ Fits(r) => expires' = clock + Window /\ Members(r) \subseteq log'
      /\ ~Fits(r) => log' = Pruned(req[r].now)
  BY DEF allowNScript
<1>6. expires' \in Int /\ expires <= expires' /\ expires' <= clock + Window
  BY <1>1, <1>2, <1>3
<1>7. \A q \in Requests : req[q].pc = "allowed" /\ clock - (Window - Spread) < req[q].at =>
              Members(q) \subseteq log'
  BY <1>5, ScriptSeesWindow
<1> QED BY <1>4, <1>5, <1>6, <1>7

(* A run whose answer arrives. *)
LEMMA RunKeepsWindow ==
  ASSUME WindowInv, NEW r \in Requests, Run(r)
  PROVE  InFlight' /\ Decided' /\ ExpiryIsLate' /\ RecentIsLogged' /\ LogIsOwed'
<1>0. TypeOK /\ req[r].pc \in {"sent", "lost"} /\ allowNScript(r) /\ clock' = clock /\ lost' = lost
  BY DEF WindowInv, LogInv, Run
<1>1. PICK p : p = IF Fits(r) THEN "allowed" ELSE "denied"
  OBVIOUS
<1> PICK a : a = clock
  OBVIOUS
<1>2. req' = [req EXCEPT ![r].pc = p, ![r].at = a]
  BY <1>1 DEF Run
<1>3. /\ req'[r].pc = p /\ req'[r].at = a /\ req'[r].now = req[r].now
      /\ \A q \in Requests : q # r => req'[q] = req[q]
      /\ \A q \in Requests : Members(q)' = Members(q)
  <2>1. /\ req'[r].pc = p /\ req'[r].at = a /\ req'[r].now = req[r].now /\ req'[r].n = req[r].n
        /\ \A q \in Requests : q # r => req'[q] = req[q]
    BY <1>0, <1>2 DEF TypeOK
  <2>2. \A q \in Requests : req'[q].n = req[q].n
    BY <2>1
  <2> QED BY <2>1, <2>2 DEF Members
<1>4. /\ expires' \in Int /\ expires <= expires' /\ expires' <= clock + Window
      /\ Pruned(req[r].now) \subseteq log' /\ Pruned(req[r].now) \subseteq log
      /\ log' \subseteq Pruned(req[r].now) \cup Members(r)
      /\ Fits(r) => expires' = clock + Window /\ Members(r) \subseteq log'
      /\ ~Fits(r) => log' = Pruned(req[r].now)
      /\ \A q \in Requests : req[q].pc = "allowed" /\ clock - (Window - Spread) < req[q].at =>
           Members(q) \subseteq log'
  BY <1>0, ScriptFacts
<1>5. p \in {"allowed", "denied"} /\ (p = "allowed" <=> Fits(r))
  BY <1>1
<1>6. InFlight'
  BY <1>0, <1>3, <1>5 DEF WindowInv, InFlight
<1>7. Decided'
  <2>1. clock <= clock /\ req[r].now <= clock + MaxSkew /\ clock <= req[r].now + MaxDelay
    BY <1>0, TimeTypes DEF WindowInv, InFlight
  <2> QED BY <1>0, <1>3, <2>1 DEF WindowInv, Decided
<1>8. ExpiryIsLate'
  <2>1. ASSUME NEW q \in Requests, req'[q].pc = "allowed"
        PROVE  req'[q].at + Window <= expires'
    <3>1. CASE q = r
      BY <1>0, <1>3, <1>4, <1>5, <2>1, <3>1, TimeTypes, ConstantTypes
    <3>2. CASE q # r
      <4>1. req'[q] = req[q]
        BY <1>3, <3>2
      <4>2. req[q].at + Window <= expires
        BY <2>1, <4>1 DEF WindowInv, ExpiryIsLate
      <4>3. expires' \in Int
        BY <1>4
      <4> QED BY <1>0, <1>4, <4>1, <4>2, <4>3, TimeTypes, ConstantTypes
    <3> QED BY <3>1, <3>2
  <2> QED BY <1>0, <1>4, <2>1 DEF ExpiryIsLate
<1>9. RecentIsLogged'
  <2>1. ASSUME NEW q \in Requests, req'[q].pc = "allowed", clock - (Window - Spread) < req'[q].at
        PROVE  Members(q) \subseteq log'
    BY <1>3, <1>4, <1>5, <2>1
  <2> QED BY <1>0, <1>3, <2>1 DEF RecentIsLogged, Spread
<1>10. LogIsOwed'
  <2>1. ASSUME NEW m \in log'
        PROVE  m \in Members(m[1]) /\ m[1] \in Requests
               /\ (req'[m[1]].pc = "allowed" \/ m[1] \in lost)
    <3>1. CASE m \in log
      <4>1. m \in Members(m[1]) /\ m[1] \in Requests /\ (req[m[1]].pc = "allowed" \/ m[1] \in lost)
        BY <1>0, <3>1 DEF WindowInv, LogIsOwed, TypeOK
      <4> QED BY <1>0, <1>3, <4>1
    <3>2. CASE m \in Members(r) /\ Fits(r)
      <4>1. m[1] = r
        BY <3>2 DEF Members
      <4> QED BY <1>3, <1>5, <3>2, <4>1
    <3> QED BY <1>4, <2>1, <3>1, <3>2
  <2>2. \A q \in lost : req'[q].pc # "new"
    BY <1>0, <1>3, <1>5 DEF WindowInv, LogIsOwed, TypeOK
  <2> QED BY <1>0, <1>3, <2>1, <2>2 DEF LogIsOwed
<1> QED BY <1>6, <1>7, <1>8, <1>9, <1>10

(* A run whose answer is lost. *)
LEMMA RunUnansweredKeepsWindow ==
  ASSUME WindowInv, NEW r \in Requests, RunUnanswered(r)
  PROVE  InFlight' /\ Decided' /\ ExpiryIsLate' /\ RecentIsLogged' /\ LogIsOwed'
<1>0. /\ TypeOK /\ req[r].pc \in {"sent", "lost"} /\ allowNScript(r)
      /\ clock' = clock /\ lost' = lost \cup {r}
  BY DEF WindowInv, LogInv, RunUnanswered
<1>1. /\ req'[r].pc = "lost" /\ req'[r].now = req[r].now /\ req'[r].by = req[r].by
      /\ \A q \in Requests : q # r => req'[q] = req[q]
      /\ \A q \in Requests : Members(q)' = Members(q)
  BY <1>0, LostFacts DEF RunUnanswered
<1>2. /\ expires' \in Int /\ expires <= expires' /\ expires' <= clock + Window
      /\ Pruned(req[r].now) \subseteq log
      /\ log' \subseteq Pruned(req[r].now) \cup Members(r)
      /\ \A q \in Requests : req[q].pc = "allowed" /\ clock - (Window - Spread) < req[q].at =>
           Members(q) \subseteq log'
  BY <1>0, ScriptFacts
<1>3. InFlight'
  BY <1>0, <1>1 DEF WindowInv, InFlight
<1>4. Decided'
  BY <1>0, <1>1 DEF WindowInv, Decided
<1>5. ExpiryIsLate'
  <2>1. ASSUME NEW q \in Requests, req'[q].pc = "allowed"
        PROVE  req'[q].at + Window <= expires'
    <3>1. req'[q] = req[q]
      BY <1>1, <2>1
    <3>2. req[q].at + Window <= expires
      BY <2>1, <3>1 DEF WindowInv, ExpiryIsLate
    <3>3. expires' \in Int
      BY <1>2
    <3> QED BY <1>0, <1>2, <3>1, <3>2, <3>3, TimeTypes, ConstantTypes
  <2> QED BY <1>0, <1>2, <2>1 DEF ExpiryIsLate
<1>6. RecentIsLogged'
  <2>1. ASSUME NEW q \in Requests, req'[q].pc = "allowed", clock - (Window - Spread) < req'[q].at
        PROVE  Members(q) \subseteq log'
    BY <1>1, <1>2, <2>1
  <2> QED BY <1>0, <1>1, <2>1 DEF RecentIsLogged, Spread
<1>7. LogIsOwed'
  <2>1. ASSUME NEW m \in log'
        PROVE  m \in Members(m[1]) /\ m[1] \in Requests
               /\ (req'[m[1]].pc = "allowed" \/ m[1] \in lost \cup {r})
    <3>1. CASE m \in log
      <4>1. m \in Members(m[1]) /\ m[1] \in Requests /\ (req[m[1]].pc = "allowed" \/ m[1] \in lost)
        BY <1>0, <3>1 DEF WindowInv, LogIsOwed, TypeOK
      <4> QED BY <1>0, <1>1, <4>1
    <3>2. CASE m \in Members(r)
      <4>1. m[1] = r
        BY <3>2 DEF Members
      <4> QED BY <3>2, <4>1
    <3> QED BY <1>2, <2>1, <3>1, <3>2
  <2>2. \A q \in lost \cup {r} : req'[q].pc # "new"
    BY <1>0, <1>1 DEF WindowInv, LogIsOwed, TypeOK
  <2> QED BY <1>0, <1>1, <2>1, <2>2 DEF LogIsOwed
<1> QED BY <1>3, <1>4, <1>5, <1>6, <1>7

LEMMA WindowStep == WindowInv /\ [Next]_vars => WindowInv'
<1> SUFFICES ASSUME WindowInv, [Next]_vars PROVE WindowInv'
  OBVIOUS
<1> DEFINE Rest == InFlight /\ Decided /\ ExpiryIsLate /\ RecentIsLogged /\ LogIsOwed
<1>0. TypeOK /\ Rest
  BY DEF WindowInv, LogInv
<1>1. CASE UNCHANGED vars
  <2>1. \A q \in Requests : Members(q)' = Members(q)
    BY <1>1 DEF vars, Members
  <2>2. UNCHANGED <<clock, req, log, expires, lost>>
    BY <1>1 DEF vars
  <2>3. InFlight' /\ Decided' /\ ExpiryIsLate'
    BY <1>0, <2>2 DEF InFlight, Decided, ExpiryIsLate
  <2>4. RecentIsLogged' /\ LogIsOwed'
    BY <1>0, <2>1, <2>2 DEF RecentIsLogged, LogIsOwed, Spread, TypeOK
  <2> QED BY <2>3, <2>4, LogStep DEF WindowInv
<1>2. ASSUME Tick PROVE Rest'
  <2>1. clock' = clock + 1 /\ UNCHANGED <<req, log, expires, lost>>
    BY <1>2 DEF Tick
  <2>2. \A q \in Requests : Members(q)' = Members(q)
    BY <2>1 DEF Members
  <2>3. InFlight'
    <3>1. ASSUME NEW r \in Requests, req[r].pc \in {"sent", "lost"}
          PROVE  req[r].now <= clock + 1 + MaxSkew /\ clock + 1 <= req[r].now + MaxDelay
      <4>1. req[r].by \in Instances /\ req[r].now <= clock + MaxSkew
        BY <1>0, <3>1 DEF InFlight
      <4>2. clock - (req[r].now - Skew[req[r].by]) < MaxDelay
        BY <1>2, <3>1 DEF Tick
      <4>3. Skew[req[r].by] \in Int /\ 0 <= Skew[req[r].by]
        BY <4>1, RateLimiterAssumption
      <4> QED BY <1>0, <4>1, <4>2, <4>3, TimeTypes, ConstantTypes
    <3> QED BY <1>0, <2>1, <3>1 DEF InFlight
  <2>4. Decided' /\ ExpiryIsLate'
    BY <1>0, <2>1, TimeTypes, ConstantTypes DEF Decided, ExpiryIsLate
  <2>5. RecentIsLogged'
    <3> PICK next \in Int : next = clock + 1
      BY <1>0, TimeTypes
    <3>1. \A q \in Requests : next - (Window - Spread) < req[q].at =>
                               clock - (Window - Spread) < req[q].at
      BY <1>0, TimeTypes, ConstantTypes
    <3>2. ASSUME NEW q \in Requests, req'[q].pc = "allowed",
                 clock' - (Window - Spread) < req'[q].at
          PROVE  Members(q)' \subseteq log'
      <4>0. clock' = next /\ req' = req
        BY <2>1
      <4>1. req[q].pc = "allowed" /\ next - (Window - Spread) < req[q].at
        BY <3>2, <4>0
      <4>2. Members(q) \subseteq log
        BY <1>0, <3>1, <4>1 DEF RecentIsLogged
      <4> QED BY <2>1, <2>2, <4>2
    <3>3. Spread' = Spread
      BY DEF Spread
    <3> QED BY <3>2, <3>3 DEF RecentIsLogged
  <2>6. LogIsOwed'
    BY <1>0, <2>1, <2>2 DEF LogIsOwed, TypeOK
  <2> QED BY <2>3, <2>4, <2>5, <2>6
<1>3. ASSUME NEW r \in Requests, Send(r) PROVE Rest'
  <2>1. /\ req'[r].pc = "sent" /\ req[r].pc = "new"
        /\ req'[r].by \in Instances
        /\ req'[r].now <= clock + MaxSkew /\ clock <= req'[r].now
        /\ \A q \in Requests : q # r => req'[q] = req[q] /\ Members(q)' = Members(q)
    BY <1>0, <1>3, SendFacts
  <2>2. UNCHANGED <<clock, log, expires, lost>>
    BY <1>3 DEF Send
  <2>3. req'[r].now \in Int /\ clock \in Int
    BY <1>0, <1>3, TypeStep, RateLimiterAssumption DEF Next, TypeOK
  <2>4. InFlight'
    <3>1. clock <= req'[r].now + MaxDelay
      BY <2>1, <2>3, ConstantTypes
    <3> QED BY <1>0, <2>1, <2>2, <3>1 DEF InFlight
  <2>5. Decided' /\ ExpiryIsLate' /\ RecentIsLogged'
    BY <1>0, <2>1, <2>2 DEF Decided, ExpiryIsLate, RecentIsLogged, Spread
  <2>6. ASSUME NEW m \in log
        PROVE  m \in Members(m[1])' /\ (req'[m[1]].pc = "allowed" \/ m[1] \in lost)
    <3>1. m[1] \in Requests /\ m \in Members(m[1]) /\ m[1] # r
      BY <1>0, <2>1 DEF LogIsOwed, TypeOK
    <3> QED BY <1>0, <2>1, <3>1 DEF LogIsOwed
  <2>7. \A q \in lost : req'[q].pc # "new"
    BY <1>0, <2>1 DEF LogIsOwed, TypeOK
  <2> QED BY <2>2, <2>4, <2>5, <2>6, <2>7 DEF LogIsOwed
<1>4. ASSUME NEW r \in Requests, Run(r) \/ RunUnanswered(r) PROVE Rest'
  BY <1>4, RunKeepsWindow, RunUnansweredKeepsWindow
<1>5. ASSUME NEW r \in Requests, FailOpen(r) PROVE Rest'
  <2>1. /\ req[r].pc \in {"sent", "lost"} /\ req' = [req EXCEPT ![r].pc = "open", ![r].at = clock]
        /\ UNCHANGED <<clock, log, expires, lost>>
    BY <1>5 DEF FailOpen
  <2>2. /\ req'[r].pc = "open" /\ req'[r].n = req[r].n
        /\ \A q \in Requests : q # r => req'[q] = req[q]
    BY <1>0, <2>1 DEF TypeOK
  <2>3. \A q \in Requests : req'[q].n = req[q].n
    BY <2>2
  <2>4. \A q \in Requests : Members(q)' = Members(q)
    BY <2>3 DEF Members
  <2>5. InFlight' /\ Decided' /\ ExpiryIsLate'
    BY <1>0, <2>1, <2>2 DEF InFlight, Decided, ExpiryIsLate
  <2>6. RecentIsLogged'
    BY <1>0, <2>1, <2>2, <2>4 DEF RecentIsLogged, Spread
  <2>7. LogIsOwed'
    BY <1>0, <2>1, <2>2, <2>4 DEF LogIsOwed, TypeOK
  <2> QED BY <2>5, <2>6, <2>7
<1>6. CASE Next
  <2>1. Rest'
    BY <1>2, <1>3, <1>4, <1>5, <1>6 DEF Next
  <2> QED BY <2>1, LogStep DEF WindowInv
<1> QED BY <1>1, <1>6

LEMMA WindowInit == Init => WindowInv
<1> SUFFICES ASSUME Init PROVE WindowInv
  OBVIOUS
<1>1. \A r \in Requests : req[r].pc = "new"
  BY DEF Init, NewRequest
<1>2. InFlight /\ Decided /\ RecentIsLogged
  BY <1>1 DEF InFlight, Decided, RecentIsLogged
<1>3. ExpiryIsLate /\ LogIsOwed
  BY <1>1, ConstantTypes DEF Init, ExpiryIsLate, LogIsOwed
<1> QED BY <1>2, <1>3, LogInit DEF WindowInv

(* The log still knows every request that was admitted in the window that  *)
(* is enforced.                                                            *)
LEMMA WindowInvariance == Spec => []WindowInv
BY WindowInit, WindowStep, PTL DEF Spec

(* A decision is final, and it is dated by Redis' clock. *)
LEMMA DecisionsStay ==
  ASSUME TypeOK, [Next]_vars
  PROVE  /\ clock' \in {clock, clock + 1} /\ lost \subseteq lost'
         /\ \A q \in Requests : req[q].pc \in {"allowed", "denied"} =>
              req'[q] = req[q]
         /\ \A q \in Requests :
              req'[q].pc \in {"allowed", "denied"} /\ req'[q] # req[q] =>
                Run(q) /\ req'[q].at = clock /\ clock' = clock
         /\ \A q \in Requests : req[q].pc # "new" =>
              Members(q)' = Members(q) /\ req'[q].now = req[q].now
<1>1. CASE UNCHANGED vars
  BY <1>1 DEF vars, Members
<1>2. CASE Tick
  BY <1>2 DEF Tick, Members
<1>3. ASSUME NEW r \in Requests, Send(r)
      PROVE  /\ clock' = clock /\ lost' = lost /\ req[r].pc = "new" /\ req'[r].pc = "sent"
             /\ \A q \in Requests : q # r => req'[q] = req[q] /\ Members(q)' = Members(q)
  BY <1>3, SendFacts DEF Send
<1>4. ASSUME NEW r \in Requests, RunUnanswered(r)
      PROVE  /\ clock' = clock /\ lost \subseteq lost' /\ req[r].pc \in {"sent", "lost"}
             /\ req'[r].pc = "lost" /\ req'[r].now = req[r].now
             /\ \A q \in Requests : q # r => req'[q] = req[q]
             /\ \A q \in Requests : Members(q)' = Members(q)
  BY <1>4, LostFacts DEF RunUnanswered
<1>5. ASSUME NEW r \in Requests, Run(r) \/ FailOpen(r)
      PROVE  /\ clock' = clock /\ lost' = lost /\ req[r].pc \in {"sent", "lost"}
             /\ req'[r].pc = "open" \/ (Run(r) /\ req'[r].at = clock)
             /\ req'[r].now = req[r].now
             /\ \A q \in Requests : q # r => req'[q] = req[q]
             /\ \A q \in Requests : Members(q)' = Members(q)
  <2>1. PICK p : /\ p = "open" \/ Run(r)
                 /\ req' = [req EXCEPT ![r].pc = p, ![r].at = clock]
    BY <1>5 DEF Run, FailOpen
  <2>2. /\ req'[r].pc = p /\ req'[r].at = clock /\ req'[r].n = req[r].n
        /\ req'[r].now = req[r].now
        /\ \A q \in Requests : q # r => req'[q] = req[q]
    BY <2>1 DEF TypeOK
  <2>3. \A q \in Requests : req'[q].n = req[q].n
    BY <2>2
  <2>4. \A q \in Requests : Members(q)' = Members(q)
    BY <2>3 DEF Members
  <2>5. clock' = clock /\ lost' = lost /\ req[r].pc \in {"sent", "lost"}
    BY <1>5 DEF Run, FailOpen
  <2> QED BY <2>1, <2>2, <2>4, <2>5
<1>6. ASSUME NEW r \in Requests, RunUnanswered(r) \/ Run(r) \/ FailOpen(r)
      PROVE  \A q \in Requests : req'[q].now = req[q].now
  BY <1>4, <1>5, <1>6
<1>7. \A q \in Requests : req[q].pc # "new" => req'[q].now = req[q].now
  <2>1. UNCHANGED vars \/ Tick => \A q \in Requests : req'[q].now = req[q].now
    BY DEF vars, Tick
  <2> QED BY <1>3, <1>6, <2>1 DEF Next
<1>8. CASE UNCHANGED vars \/ Tick
  BY <1>1, <1>2, <1>7, <1>8
<1>9. CASE \E r \in Requests : Send(r)
  BY <1>3, <1>7, <1>9
<1>10. CASE \E r \in Requests : RunUnanswered(r)
  BY <1>4, <1>7, <1>10
<1>11. CASE \E r \in Requests : Run(r) \/ FailOpen(r)
  BY <1>5, <1>7, <1>11
<1> QED BY <1>8, <1>9, <1>10, <1>11 DEF Next

LEMMA SomeRequestsAreFinite ==
  ASSUME TypeOK, NEW S, S \subseteq UNION {Members(q) : q \in Requests}
  PROVE  IsFiniteSet(S)
<1>1. \A q \in Requests : Members(q) \subseteq Requests \X (1..MaxBatch)
  BY RateLimiterAssumption DEF Members, TypeOK
<1>2. S \in SUBSET (Requests \X (1..MaxBatch))
  BY <1>1
<1>3. IsFiniteSet(1..MaxBatch)
  BY FS_Interval, RateLimiterAssumption
<1>4. IsFiniteSet(Requests \X (1..MaxBatch))
  BY <1>3, FS_Product, RateLimiterAssumption
<1> QED BY <1>2, <1>4, FS_Subset

(* The limit holds in the window that ends now. *)
LatestWindow ==
    Cardinality(AdmittedBetween(clock - (Window - Spread), clock, {"allowed"})) <= max

LEMMA LatestWindowIsKept == WindowInv => LatestWindow
<1> SUFFICES ASSUME WindowInv PROVE LatestWindow
  OBVIOUS
<1> PICK A : A = AdmittedBetween(clock - (Window - Spread), clock, {"allowed"})
  OBVIOUS
<1>1. A \in SUBSET log
  BY DEF AdmittedBetween, WindowInv, RecentIsLogged
<1>2. IsFiniteSet(A) /\ Cardinality(A) <= Cardinality(log)
  BY <1>1, FS_Subset DEF WindowInv, LogInv
<1>3. Cardinality(A) \in Nat /\ Cardinality(log) \in Nat /\ Cardinality(log) <= max
  BY <1>2, FS_CardinalityType DEF WindowInv, LogInv, LogIsBounded
<1> QED BY <1>2, <1>3, MaxType DEF LatestWindow

(* What was admitted until a time that has passed does not change. *)
LEMMA PastIsFixed ==
  ASSUME TypeOK, [Next]_vars, NEW t \in Int, t < clock', NEW from \in Int
  PROVE  AdmittedBetween(from, t, {"allowed"})' = AdmittedBetween(from, t, {"allowed"})
<1> DEFINE In(q) == req[q].pc \in {"allowed"} /\ from < req[q].at /\ req[q].at <= t
           Next_(q) == req'[q].pc \in {"allowed"} /\ from < req'[q].at /\ req'[q].at <= t
<1>1. ASSUME NEW q \in Requests, In(q) PROVE Next_(q) /\ Members(q)' = Members(q)
  <2>1. req'[q] = req[q] /\ Members(q)' = Members(q)
    BY <1>1, DecisionsStay
  <2> QED BY <1>1, <2>1
<1>2. ASSUME NEW q \in Requests, Next_(q) PROVE In(q)
  <2>1. CASE req'[q] = req[q]
    BY <1>2, <2>1
  <2>2. CASE req'[q] # req[q]
    <3>1. req'[q].at = clock /\ clock' = clock
      BY <1>2, <2>2, DecisionsStay
    <3>2. t < clock /\ clock <= t /\ clock \in Int
      BY <1>2, <3>1, TimeTypes
    <3> QED BY <3>2
  <2> QED BY <2>1, <2>2
<1>3. AdmittedBetween(from, t, {"allowed"}) = UNION {Members(q) : q \in {r \in Requests : In(r)}}
  BY DEF AdmittedBetween
<1>4. AdmittedBetween(from, t, {"allowed"})'
        = UNION {Members(q)' : q \in {r \in Requests : Next_(r)}}
  BY DEF AdmittedBetween
<1>5. {r \in Requests : Next_(r)} = {r \in Requests : In(r)}
  BY <1>1, <1>2
<1>6. \A q \in {r \in Requests : In(r)} : Members(q)' = Members(q)
  BY <1>1
<1> HIDE DEF In, Next_
<1> QED BY <1>3, <1>4, <1>5, <1>6

(* ratelimit.go: "Each client gets at most max requests per window", for   *)
(* any number of instances, requests and batches: over every window        *)
(* shortened by how far the clocks differ and by how long a request may be *)
(* under way, and whatever answers are lost and scripts run again.         *)
THEOREM LimitPerWindow == Spec => []SlidingWindow
<1>1. Init => SlidingWindow
  <2> SUFFICES ASSUME Init, NEW t \in 0..clock
               PROVE  Cardinality(AdmittedBetween(t - (Window - Spread), t, {"allowed"})) <= max
    BY DEF SlidingWindow
  <2>1. \A r \in Requests : req[r].pc \notin {"allowed"}
    BY DEF Init, NewRequest
  <2>2. AdmittedBetween(t - (Window - Spread), t, {"allowed"}) = {}
    BY <2>1 DEF AdmittedBetween
  <2> QED BY <2>2, FS_EmptySet, MaxType
<1>2. TypeOK /\ SlidingWindow /\ [Next]_vars /\ LatestWindow' => SlidingWindow'
  <2> SUFFICES ASSUME TypeOK, SlidingWindow, [Next]_vars, LatestWindow', NEW t \in 0..clock'
               PROVE  Cardinality(AdmittedBetween(t - (Window - Spread), t, {"allowed"}))' <= max
    BY DEF SlidingWindow, Spread, max
  <2>1. PICK next \in Int : next = clock' /\ next \in {clock, clock + 1}
    BY DecisionsStay, TimeTypes
  <2>2. t \in Int /\ 0 <= t /\ t <= next
    BY <2>1
  <2>3. CASE t = next
    BY <2>1, <2>3 DEF LatestWindow, Spread, max
  <2>4. CASE t < next
    <3>1. t \in 0..clock
      BY <2>1, <2>2, <2>4, TimeTypes
    <3>2. PICK from \in Int : from = t - (Window - Spread)
      BY <2>2, ConstantTypes
    <3>3. AdmittedBetween(from, t, {"allowed"})' = AdmittedBetween(from, t, {"allowed"})
      BY <2>1, <2>2, <2>4, PastIsFixed
    <3>4. Cardinality(AdmittedBetween(from, t, {"allowed"})) <= max
      BY <3>1, <3>2 DEF SlidingWindow
    <3> QED BY <3>2, <3>3, <3>4
  <2> QED BY <2>2, <2>3, <2>4
<1>3. WindowInv => TypeOK
  BY DEF WindowInv, LogInv
<1> QED BY <1>1, <1>2, <1>3, LatestWindowIsKept, WindowInvariance, PTL DEF Spec

(* The tasks a denial of r, decided at that time, is held against. *)
Charged(at) == AdmittedBetween(at - (Window + Spread), at, {"allowed"})
                 \cup LostSince(at - (Window + Spread))

LEMMA ChargesStay ==
  ASSUME WindowInv, [Next]_vars, NEW at
  PROVE  /\ Charged(at) \subseteq Charged(at)'
         /\ IsFiniteSet(Charged(at)) /\ IsFiniteSet(Charged(at)')
         /\ Cardinality(Charged(at)) <= Cardinality(Charged(at)')
<1>0. TypeOK /\ TypeOK'
  BY TypeStep DEF WindowInv, LogInv
<1>1. ASSUME NEW q \in Requests, req[q].pc \in {"allowed"}
      PROVE  req'[q] = req[q] /\ Members(q)' = Members(q)
  BY <1>0, <1>1, DecisionsStay
<1>2. AdmittedBetween(at - (Window + Spread), at, {"allowed"})
        \subseteq AdmittedBetween(at - (Window + Spread), at, {"allowed"})'
  BY <1>1 DEF AdmittedBetween, Spread
<1>3. ASSUME NEW q \in lost
      PROVE  q \in lost' /\ Members(q)' = Members(q) /\ req'[q].now = req[q].now
  BY <1>0, DecisionsStay DEF WindowInv, LogIsOwed, TypeOK
<1>4. LostSince(at - (Window + Spread)) \subseteq LostSince(at - (Window + Spread))'
  BY <1>3 DEF LostSince, Spread
<1>5. Charged(at) \subseteq Charged(at)'
  BY <1>2, <1>4 DEF Charged
<1>6. Charged(at) \subseteq UNION {Members(q) : q \in Requests}
  BY <1>0 DEF Charged, AdmittedBetween, LostSince, TypeOK
<1>7. Charged(at)' \subseteq UNION {Members(q)' : q \in Requests}
  BY <1>0 DEF Charged, AdmittedBetween, LostSince, TypeOK
<1>8. IsFiniteSet(Charged(at)')
  <2>1. \A q \in Requests : Members(q)' \subseteq Requests \X (1..MaxBatch)
    BY <1>0, RateLimiterAssumption DEF Members, TypeOK
  <2>2. PICK C : C = Charged(at)'
    OBVIOUS
  <2>3. C \in SUBSET (Requests \X (1..MaxBatch))
    BY <1>7, <2>1, <2>2
  <2>4. IsFiniteSet(1..MaxBatch)
    BY FS_Interval, RateLimiterAssumption
  <2>5. IsFiniteSet(Requests \X (1..MaxBatch))
    BY <2>4, FS_Product, RateLimiterAssumption
  <2>6. IsFiniteSet(C)
    BY <2>3, <2>5, FS_Subset
  <2> QED BY <2>2, <2>6
<1>9. PICK A, B : A = Charged(at) /\ B = Charged(at)'
  OBVIOUS
<1>10. IsFiniteSet(B) /\ A \in SUBSET B
  BY <1>5, <1>8, <1>9
<1>11. IsFiniteSet(A) /\ Cardinality(A) <= Cardinality(B)
  BY <1>10, FS_Subset
<1> QED BY <1>5, <1>8, <1>9, <1>11

LEMMA DenialStep == WindowInv /\ DenialIsDeserved /\ [Next]_vars => DenialIsDeserved'
<1> SUFFICES ASSUME WindowInv, DenialIsDeserved, [Next]_vars,
                    NEW r \in Requests \ lost', req'[r].pc = "denied"
             PROVE  (Cardinality(Charged(req[r].at)) + req[r].n > max)'
  BY DEF DenialIsDeserved, Charged
<1>0. TypeOK /\ TypeOK'
  BY TypeStep DEF WindowInv, LogInv
<1> PICK at : at = req'[r].at
  OBVIOUS
<1>1. /\ Cardinality(Charged(at)) <= Cardinality(Charged(at)')
      /\ Cardinality(Charged(at)) \in Nat /\ Cardinality(Charged(at)') \in Nat
      /\ IsFiniteSet(Charged(at))
  <2>1. /\ IsFiniteSet(Charged(at)) /\ IsFiniteSet(Charged(at)')
        /\ Cardinality(Charged(at)) <= Cardinality(Charged(at)')
    BY ChargesStay
  <2> QED BY <2>1, FS_CardinalityType
<1>2. req'[r].n = req[r].n /\ req[r].n \in Nat /\ max \in Nat
  <2>1. CASE req'[r] = req[r]
    BY <1>0, <2>1, TimeTypes, MaxType
  <2>2. CASE req'[r] # req[r]
    <3>1. Run(r)
      BY <1>0, <2>2, DecisionsStay
    <3> QED BY <1>0, <3>1, TimeTypes, MaxType DEF Run, TypeOK
  <2> QED BY <2>1, <2>2
<1>3. Cardinality(Charged(at)) + req[r].n > max
  <2>1. CASE req'[r] = req[r]
    <3>1. r \in Requests \ lost
      BY <1>0, DecisionsStay
    <3> QED BY <2>1, <3>1 DEF DenialIsDeserved, Charged
  <2>2. CASE req'[r] # req[r]
    <3>1. Run(r) /\ at = clock
      BY <1>0, <2>2, DecisionsStay
    <3>2. req[r].pc \in {"sent", "lost"} /\ ~Fits(r)
      BY <1>0, <3>1 DEF Run, TypeOK
    <3> PICK P : P = Pruned(req[r].now)
      OBVIOUS
    <3>3. P \in SUBSET Charged(at)
      BY <3>1, <3>2, ScriptSeesOnlyWindow DEF Charged
    <3>4. IsFiniteSet(P) /\ Cardinality(P) <= Cardinality(Charged(at))
      BY <1>1, <3>3, FS_Subset
    <3>5. Cardinality(P) \in Nat
      BY <3>4, FS_CardinalityType
    <3>6. ~(Cardinality(P) + req[r].n <= max)
      BY <3>2 DEF Fits
    <3>7. \A a, b, n, m \in Nat : a <= b /\ ~(a + n <= m) => b + n > m
      OBVIOUS
    <3> QED BY <1>1, <1>2, <3>4, <3>5, <3>6, <3>7
  <2> QED BY <2>1, <2>2
<1>4. Cardinality(Charged(at)') + req'[r].n > max
  BY <1>1, <1>2, <1>3
<1>5. Charged(at)' = Charged(req[r].at)' /\ max' = max
  BY DEF Charged, max
<1> QED BY <1>4, <1>5

(* A 429 is deserved: whoever is denied, and had every answer, is over the *)
(* limit in the window lengthened by the same difference, for any number   *)
(* of instances and requests.                                              *)
THEOREM DenialsAreDeserved == Spec => []DenialIsDeserved
<1>1. Init => DenialIsDeserved
  BY DEF Init, NewRequest, DenialIsDeserved
<1> QED BY <1>1, DenialStep, WindowInvariance, PTL DEF Spec
=============================================================================
