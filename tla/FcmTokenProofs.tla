--------------------------- MODULE FcmTokenProofs ---------------------------
(***************************************************************************)
(* Theorems about FcmToken, for any number of calls and any timeout of the *)
(* http.Client.                                                            *)
(*                                                                         *)
(* A goroutine ages only while some fetch holds the token source's mutex,  *)
(* and that fetch ends within FetchTimeout.  So the age of a goroutine is  *)
(* paid for by those that have their result already (Through), at          *)
(* FetchTimeout each, and by the time the fetch under way has taken.       *)
(***************************************************************************)
EXTENDS FcmToken, FiniteSetTheorems, TLAPS

\* Holder: the mutex is held by the goroutine that fetches, for no longer
\* than the client's timeout.
Holder ==
  /\ \A c \in Calls : mutex = c <=> fetcher[c] = "fetch"
  /\ mutex = NoCall => spent = 0
  /\ spent <= FetchTimeout

\* Private: a goroutine starts with its call, and its channel has a result
\* once it is gone.
Private ==
  \A c \in Calls : /\ caller[c] = "new" <=> fetcher[c] = "new"
                   /\ ch[c] = "empty" <=> fetcher[c] # "gone"

\* The goroutines that the token source has answered.
Through == {c \in Calls : fetcher[c] \in {"put_token", "put_error", "gone"}}

\* Waited: how long a goroutine can have been running.
Waited ==
  \A c \in Calls :
    /\ fetcher[c] \in {"new", "gone"} => age[c] = 0
    /\ fetcher[c] \in {"lock", "fetch"} =>
         age[c] <= FetchTimeout * Cardinality(Through) + spent
    /\ fetcher[c] \in {"put_token", "put_error"} =>
         age[c] <= FetchTimeout * Cardinality(Through)

IInv == TypeOK /\ Holder /\ Private /\ OwnAnswer /\ Waited

-----------------------------------------------------------------------------
(* Arithmetic.                                                             *)

\* Product: a product of natural numbers, and of one more.
LEMMA Product ==
  ASSUME NEW a \in Nat, NEW n \in Nat
  PROVE  a * n \in Nat /\ a * (n + 1) = a * n + a
OBVIOUS

\* ProductGrows: multiplication is monotonic.
LEMMA ProductGrows ==
  ASSUME NEW a \in Nat, NEW m \in Nat, NEW n \in Nat, m <= n
  PROVE  a * m <= a * n
<1>1. PICK d \in Nat : n = m + d
  <2>1. n - m \in Nat /\ n = m + (n - m)
    OBVIOUS
  <2> QED BY <2>1
<1>2. a * n = a * m + a * d /\ a * d \in Nat /\ a * m \in Nat
  BY <1>1
<1> QED BY <1>2

\* ThroughSize: no more goroutines are through than there are, and fewer as
\* long as one is not.
LEMMA ThroughSize ==
  ASSUME NEW T \in SUBSET Calls
  PROVE  /\ IsFiniteSet(T) /\ Cardinality(T) \in Nat /\ Cardinality(Calls) \in Nat
         /\ Cardinality(T) <= Cardinality(Calls)
         /\ T # Calls => Cardinality(T) + 1 <= Cardinality(Calls)
<1>1. IsFiniteSet(Calls)
  BY TokenAssumption
<1>2. /\ IsFiniteSet(T) /\ Cardinality(T) <= Cardinality(Calls)
      /\ Cardinality(Calls) = Cardinality(T) => Calls = T
  BY <1>1, FS_Subset
<1>3. Cardinality(T) \in Nat /\ Cardinality(Calls) \in Nat
  BY <1>1, <1>2, FS_CardinalityType
<1> QED BY <1>2, <1>3

-----------------------------------------------------------------------------
(* The steps.                                                              *)

\* InvInit: no call has been made.
LEMMA InvInit == Init => IInv
<1> SUFFICES ASSUME Init PROVE IInv
  OBVIOUS
<1>1. Cardinality(Calls) \in Nat /\ AgeBound \in Nat
  <2>1. Cardinality(Calls) \in Nat
    BY TokenAssumption, FS_CardinalityType
  <2>2. FetchTimeout * Cardinality(Calls) \in Nat
    BY <2>1, TokenAssumption, Product
  <2> QED BY <2>1, <2>2 DEF AgeBound
<1>2. TypeOK
  <2>1. age \in [Calls -> 0..AgeBound] /\ spent \in Nat
    BY <1>1 DEF Init
  <2> QED BY <2>1 DEF Init, TypeOK, Answers
<1>3. Holder
  BY TokenAssumption DEF Init, Holder
<1>4. Private /\ OwnAnswer /\ Waited
  <2>1. \A c \in Calls : /\ caller[c] = "new" /\ fetcher[c] = "new"
                         /\ ch[c] = "empty" /\ age[c] = 0
    BY DEF Init
  <2> QED BY <2>1 DEF Private, OwnAnswer, Waited, Answers
<1> QED BY <1>2, <1>3, <1>4 DEF IInv

\* TypeStep: types are kept.
LEMMA TypeStep ==
  ASSUME TypeOK, [Next]_vars
  PROVE  TypeOK'
<1>1. CASE UNCHANGED vars
  BY <1>1 DEF TypeOK, vars
<1>2. ASSUME NEW c \in Calls, Start(c) PROVE TypeOK'
  BY <1>2 DEF TypeOK, Start
<1>3. ASSUME NEW c \in Calls, Expire(c) PROVE TypeOK'
  BY <1>3 DEF TypeOK, Expire
<1>4. ASSUME NEW c \in Calls, UseCached(c) PROVE TypeOK'
  BY <1>4 DEF TypeOK, UseCached
<1>5. ASSUME NEW c \in Calls, Fetch(c) PROVE TypeOK'
  BY <1>5 DEF TypeOK, Fetch
<1>6. ASSUME NEW c \in Calls, Fetched(c) PROVE TypeOK'
  BY <1>6 DEF TypeOK, Fetched
<1>7. ASSUME NEW c \in Calls, Put(c) PROVE TypeOK'
  <2>1. Cardinality(Calls) \in Nat
    BY TokenAssumption, FS_CardinalityType
  <2>2. 0 \in 0..AgeBound
    BY <2>1, TokenAssumption, Product DEF AgeBound
  <2> QED BY <1>7, <2>2 DEF TypeOK, Put, Result, Answers
<1>8. ASSUME NEW c \in Calls, Receive(c) PROVE TypeOK'
  BY <1>8 DEF TypeOK, Receive
<1>9. ASSUME NEW c \in Calls, CutOff(c) PROVE TypeOK'
  BY <1>9 DEF TypeOK, CutOff
<1>10. CASE TokenExpires
  BY <1>10 DEF TypeOK, TokenExpires
<1>11. CASE Tick
  <2>1. Cardinality(Calls) \in Nat
    BY TokenAssumption, FS_CardinalityType
  <2>2. AgeBound \in Nat
    BY <2>1, TokenAssumption, Product DEF AgeBound
  <2>3. age' \in [Calls -> 0..AgeBound]
    BY <1>11, <2>2 DEF TypeOK, Tick
  <2>4. spent' \in Nat
    BY <1>11 DEF TypeOK, Tick
  <2> QED BY <1>11, <2>3, <2>4 DEF TypeOK, Tick
<1> QED BY <1>1, <1>2, <1>3, <1>4, <1>5, <1>6, <1>7, <1>8, <1>9, <1>10, <1>11
     DEF Next, CallStep

\* HolderStep: mutual exclusion at the token source, and its timeout.
LEMMA HolderStep ==
  ASSUME TypeOK, Holder, Private, [Next]_vars
  PROVE  Holder'
<1>1. CASE UNCHANGED vars
  BY <1>1 DEF Holder, vars
<1>2. ASSUME NEW c \in Calls, Start(c) PROVE Holder'
  BY <1>2 DEF TypeOK, Holder, Private, Start
<1>3. ASSUME NEW c \in Calls, Expire(c) PROVE Holder'
  BY <1>3 DEF Holder, Expire
<1>4. ASSUME NEW c \in Calls, UseCached(c) PROVE Holder'
  BY <1>4 DEF TypeOK, Holder, UseCached
<1>5. ASSUME NEW c \in Calls, Fetch(c) PROVE Holder'
  BY <1>5, TokenAssumption DEF TypeOK, Holder, Fetch
<1>6. ASSUME NEW c \in Calls, Fetched(c) PROVE Holder'
  BY <1>6, TokenAssumption DEF TypeOK, Holder, Fetched
<1>7. ASSUME NEW c \in Calls, Put(c) PROVE Holder'
  BY <1>7 DEF TypeOK, Holder, Put
<1>8. ASSUME NEW c \in Calls, Receive(c) PROVE Holder'
  BY <1>8 DEF Holder, Receive
<1>9. ASSUME NEW c \in Calls, CutOff(c) PROVE Holder'
  BY <1>9 DEF Holder, CutOff
<1>10. CASE TokenExpires
  BY <1>10 DEF Holder, TokenExpires
<1>11. CASE Tick
  BY <1>11, TokenAssumption DEF TypeOK, Holder, Tick, Quiet
<1> QED BY <1>1, <1>2, <1>3, <1>4, <1>5, <1>6, <1>7, <1>8, <1>9, <1>10, <1>11
     DEF Next, CallStep

\* PrivateStep: a goroutine and its channel belong to one call, so that an
\* answer is never another call's.
LEMMA PrivateStep ==
  ASSUME TypeOK, Private, OwnAnswer, [Next]_vars
  PROVE  Private' /\ OwnAnswer'
<1>1. CASE UNCHANGED vars
  BY <1>1 DEF Private, OwnAnswer, vars
<1>2. ASSUME NEW c \in Calls, Start(c) PROVE Private' /\ OwnAnswer'
  BY <1>2 DEF TypeOK, Private, OwnAnswer, Start, Answers
<1>3. ASSUME NEW c \in Calls, Expire(c) PROVE Private' /\ OwnAnswer'
  BY <1>3 DEF Private, OwnAnswer, Expire
<1>4. ASSUME NEW c \in Calls, UseCached(c) PROVE Private' /\ OwnAnswer'
  BY <1>4 DEF TypeOK, Private, OwnAnswer, UseCached
<1>5. ASSUME NEW c \in Calls, Fetch(c) PROVE Private' /\ OwnAnswer'
  BY <1>5 DEF TypeOK, Private, OwnAnswer, Fetch
<1>6. ASSUME NEW c \in Calls, Fetched(c) PROVE Private' /\ OwnAnswer'
  BY <1>6 DEF TypeOK, Private, OwnAnswer, Fetched
<1>7. ASSUME NEW c \in Calls, Put(c) PROVE Private' /\ OwnAnswer'
  BY <1>7 DEF TypeOK, Private, OwnAnswer, Put, Result, Answers
<1>8. ASSUME NEW c \in Calls, Receive(c) PROVE Private' /\ OwnAnswer'
  BY <1>8 DEF TypeOK, Private, OwnAnswer, Receive, Answers
<1>9. ASSUME NEW c \in Calls, CutOff(c) PROVE Private' /\ OwnAnswer'
  BY <1>9 DEF TypeOK, Private, OwnAnswer, CutOff, Answers
<1>10. CASE TokenExpires
  BY <1>10 DEF Private, OwnAnswer, TokenExpires
<1>11. CASE Tick
  BY <1>11 DEF Private, OwnAnswer, Tick
<1> QED BY <1>1, <1>2, <1>3, <1>4, <1>5, <1>6, <1>7, <1>8, <1>9, <1>10, <1>11
     DEF Next, CallStep

\* Same: a step that moves no goroutine and no clock.
LEMMA Same ==
  ASSUME Waited, UNCHANGED <<fetcher, spent, age>>
  PROVE  Waited'
<1>1. Through' = Through
  BY DEF Through
<1> QED BY <1>1 DEF Waited

\* Answered: goroutine c gets its answer from the token source; the time that
\* the others have waited for it is now on its account.
LEMMA Answered ==
  ASSUME TypeOK, Holder, Waited, NEW c \in Calls,
         fetcher[c] \in {"lock", "fetch"}, NEW s \in {"put_token", "put_error"},
         fetcher' = [fetcher EXCEPT ![c] = s], spent' = 0, UNCHANGED age
  PROVE  Waited'
<1>1. Through' = Through \cup {c} /\ c \notin Through
  BY DEF Through, TypeOK
<1>2. Through \in SUBSET Calls
  BY DEF Through
<1>3. PICK n \in Nat : n = Cardinality(Through)
  BY <1>2, ThroughSize
<1>4. Cardinality(Through') = n + 1
  BY <1>1, <1>2, <1>3, ThroughSize, FS_AddElement
<1>5. PICK p \in Nat : p = FetchTimeout * n /\ FetchTimeout * (n + 1) = p + FetchTimeout
  BY TokenAssumption, Product
<1>6. FetchTimeout \in Nat /\ spent \in Nat /\ spent <= FetchTimeout
  BY TokenAssumption DEF TypeOK, Holder
<1> SUFFICES ASSUME NEW d \in Calls
             PROVE  /\ fetcher'[d] \in {"new", "gone"} => age[d] = 0
                    /\ fetcher'[d] \in {"lock", "fetch"} => age[d] <= p + FetchTimeout
                    /\ fetcher'[d] \in {"put_token", "put_error"} =>
                         age[d] <= p + FetchTimeout
  BY <1>4, <1>5, <1>6 DEF Waited
<1>7. age[d] \in Int
  BY DEF TypeOK
<1>8. /\ fetcher[d] \in {"new", "gone"} => age[d] = 0
      /\ fetcher[d] \in {"lock", "fetch"} => age[d] <= p + spent
      /\ fetcher[d] \in {"put_token", "put_error"} => age[d] <= p
  BY <1>3, <1>5 DEF Waited
<1>9. CASE d = c
  BY <1>6, <1>7, <1>8, <1>9 DEF TypeOK
<1>10. CASE d # c
  BY <1>6, <1>7, <1>8, <1>10 DEF TypeOK
<1> QED BY <1>9, <1>10

\* WaitedStep: the account of the waiting times.
LEMMA WaitedStep ==
  ASSUME TypeOK, Holder, Private, Waited, [Next]_vars
  PROVE  Waited'
<1>0. /\ Through \in SUBSET Calls
      /\ FetchTimeout \in Nat /\ spent \in Nat
  BY TokenAssumption DEF Through, TypeOK
<1>1. Cardinality(Through) \in Nat
  BY <1>0, ThroughSize
<1>2. PICK p \in Nat : p = FetchTimeout * Cardinality(Through)
  BY <1>0, <1>1, Product
<1>3. ASSUME NEW c \in Calls, Start(c) PROVE Waited'
  <2>1. fetcher[c] = "new" /\ fetcher' = [fetcher EXCEPT ![c] = "lock"]
        /\ UNCHANGED <<spent, age>>
    BY <1>3 DEF Start, Private
  <2>2. Through' = Through
    BY <2>1 DEF Through, TypeOK
  <2>3. age[c] = 0
    BY <2>1 DEF Waited
  <2>4. 0 <= FetchTimeout * Cardinality(Through) + spent
    BY <1>0, <1>2
  <2> QED BY <2>1, <2>2, <2>3, <2>4 DEF Waited, TypeOK
<1>4. ASSUME NEW c \in Calls, Expire(c) PROVE Waited'
  BY <1>4, Same DEF Expire
<1>5. ASSUME NEW c \in Calls, UseCached(c) PROVE Waited'
  <2>1. spent' = 0
    BY <1>5 DEF UseCached, Holder
  <2> QED BY <1>5, <2>1, Answered DEF UseCached
<1>6. ASSUME NEW c \in Calls, Fetch(c) PROVE Waited'
  <2>1. /\ fetcher[c] = "lock" /\ fetcher' = [fetcher EXCEPT ![c] = "fetch"]
        /\ spent' = spent /\ UNCHANGED age
    BY <1>6 DEF Fetch, Holder
  <2>2. Through' = Through
    BY <2>1 DEF Through, TypeOK
  <2> QED BY <2>1, <2>2 DEF Waited, TypeOK
<1>7. ASSUME NEW c \in Calls, Fetched(c) PROVE Waited'
  <2>1. PICK s \in {"put_token", "put_error"} :
          fetcher' = [fetcher EXCEPT ![c] = s]
    BY <1>7 DEF Fetched
  <2> QED BY <1>7, <2>1, Answered DEF Fetched
<1>8. ASSUME NEW c \in Calls, Put(c) PROVE Waited'
  <2>1. /\ fetcher[c] \in {"put_token", "put_error"}
        /\ fetcher' = [fetcher EXCEPT ![c] = "gone"]
        /\ age' = [age EXCEPT ![c] = 0] /\ UNCHANGED spent
    BY <1>8 DEF Put
  <2>2. Through' = Through
    BY <2>1 DEF Through, TypeOK
  <2> QED BY <2>1, <2>2 DEF Waited, TypeOK
<1>9. ASSUME NEW c \in Calls, Receive(c) PROVE Waited'
  BY <1>9, Same DEF Receive
<1>10. ASSUME NEW c \in Calls, CutOff(c) PROVE Waited'
  BY <1>10, Same DEF CutOff
<1>11. CASE TokenExpires
  BY <1>11, Same DEF TokenExpires
<1>12. CASE Tick
  <2>1. UNCHANGED fetcher
    BY <1>12 DEF Tick
  <2>2. Through' = Through
    BY <2>1 DEF Through
  <2> SUFFICES ASSUME NEW c \in Calls
               PROVE  /\ fetcher[c] \in {"new", "gone"} => age'[c] = 0
                      /\ fetcher[c] \in {"lock", "fetch"} => age'[c] <= p + spent'
                      /\ fetcher[c] \in {"put_token", "put_error"} => age'[c] <= p
    BY <1>2, <2>1, <2>2 DEF Waited
  <2>3. /\ fetcher[c] \in {"new", "gone"} => age[c] = 0
        /\ fetcher[c] \in {"lock", "fetch"} => age[c] <= p + spent
        /\ fetcher[c] \in {"put_token", "put_error"} => age[c] <= p
    BY <1>2 DEF Waited
  <2>4. age[c] \in Int
    BY DEF TypeOK
  <2>5. CASE fetcher[c] \in {"lock", "fetch"}
    <3>1. mutex # NoCall
      BY <1>12, <2>5, TokenAssumption DEF Tick, Quiet, Holder
    <3>2. spent' = spent + 1 /\ (age'[c] = age[c] + 1 \/ age'[c] = age[c])
      BY <1>12, <3>1 DEF Tick
    <3> QED BY <1>0, <2>3, <2>4, <2>5, <3>2
  <2>6. CASE fetcher[c] \notin {"lock", "fetch"}
    <3>1. age'[c] = age[c]
      BY <1>12, <2>6 DEF Tick
    <3> QED BY <2>3, <2>6, <3>1
  <2> QED BY <2>5, <2>6
<1>13. CASE UNCHANGED vars
  BY <1>13, Same DEF vars
<1> QED BY <1>3, <1>4, <1>5, <1>6, <1>7, <1>8, <1>9, <1>10, <1>11, <1>12, <1>13
     DEF Next, CallStep

-----------------------------------------------------------------------------
(* The theorems.                                                           *)

\* TokenInvariant: the inductive invariant.
THEOREM TokenInvariant == Spec => []IInv
<1>1. IInv /\ [Next]_vars => IInv'
  BY TypeStep, HolderStep, PrivateStep, WaitedStep DEF IInv
<1> QED BY <1>1, InvInit, PTL DEF Spec

\* TypeCorrect: the state of every call keeps its type.
THEOREM TypeCorrect == Spec => []TypeOK
<1>1. IInv => TypeOK
  BY DEF IInv
<1> QED BY <1>1, TokenInvariant, PTL

\* OwnAnswerHolds: token returns the result of its own goroutine, however
\* many abandoned ones still run.
THEOREM OwnAnswerHolds == Spec => []OwnAnswer
<1>1. IInv => OwnAnswer
  BY DEF IInv
<1> QED BY <1>1, TokenInvariant, PTL

\* QueueBoundHolds: a goroutine ends within one timeout of the client per
\* call, with any number of calls queued at the token source's mutex.
THEOREM QueueBoundHolds == Spec => []QueueBound
<1>1. IInv => QueueBound
  <2> SUFFICES ASSUME IInv, NEW c \in Calls
               PROVE  age[c] <= FetchTimeout * Cardinality(Calls)
    BY DEF QueueBound
  <2>1. Through \in SUBSET Calls
    BY DEF Through
  <2>2. PICK n \in Nat : n = Cardinality(Through)
    BY <2>1, ThroughSize
  <2>3. PICK m \in Nat : m = Cardinality(Calls)
    BY <2>1, ThroughSize
  <2>4. n <= m /\ (Through # Calls => n + 1 <= m)
    BY <2>1, <2>2, <2>3, ThroughSize
  <2>5. FetchTimeout \in Nat
    BY TokenAssumption
  <2>6. /\ FetchTimeout * n \in Nat /\ FetchTimeout * m \in Nat
        /\ FetchTimeout * n <= FetchTimeout * m
    BY <2>4, <2>5, Product, ProductGrows
  <2>7. age[c] \in Int /\ spent \in Nat /\ spent <= FetchTimeout
    BY DEF IInv, TypeOK, Holder
  <2>8. CASE fetcher[c] \in {"lock", "fetch"}
    <3>1. Through # Calls
      BY <2>8 DEF Through
    <3>2. FetchTimeout * (n + 1) <= FetchTimeout * m
      BY <2>4, <2>5, <3>1, ProductGrows
    <3>3. FetchTimeout * (n + 1) = FetchTimeout * n + FetchTimeout
      BY <2>5, Product
    <3>4. age[c] <= FetchTimeout * n + spent
      BY <2>2, <2>8 DEF IInv, Waited
    <3> QED BY <2>3, <2>5, <2>6, <2>7, <3>2, <3>3, <3>4
  <2>9. CASE fetcher[c] \in {"put_token", "put_error"}
    <3>1. age[c] <= FetchTimeout * n
      BY <2>2, <2>9 DEF IInv, Waited
    <3> QED BY <2>3, <2>6, <2>7, <3>1
  <2>10. CASE fetcher[c] \in {"new", "gone"}
    <3>1. age[c] = 0
      BY <2>10 DEF IInv, Waited
    <3> QED BY <2>3, <2>6, <3>1
  <2> QED BY <2>8, <2>9, <2>10 DEF IInv, TypeOK
<1> QED BY <1>1, TokenInvariant, PTL
=============================================================================
