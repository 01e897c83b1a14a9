---------------------------- MODULE Login_proofs ----------------------------
(***************************************************************************)
(* Proofs about Login, for any number of requests, keys and sessions,      *)
(* any limit of failures and any window shorter than the lockout.          *)
(***************************************************************************)
EXTENDS Login, FiniteSetTheorems, TLAPS

N == Cardinality(Requests)

\* Requests are finitely many, and so are those of any subset.
LEMMA RequestsFinite ==
    /\ N \in Nat
    /\ \A S \in SUBSET Requests : Cardinality(S) \in Nat /\ Cardinality(S) <= N
    /\ \A S \in SUBSET Requests : \A r \in S :
          Cardinality(S \ {r}) = Cardinality(S) - 1
    /\ \A S \in SUBSET Requests : \A r \in Requests :
          Cardinality(S \ {r}) \in Nat /\ Cardinality(S \ {r}) <= Cardinality(S)
    /\ \A S \in SUBSET Requests : \A r \in Requests :
          Cardinality(S \ {r}) <= N - 1
  <1>1. IsFiniteSet(Requests) BY LoginAssumption
  <1>2. N \in Nat BY <1>1, FS_CardinalityType DEF N
  <1>3. ASSUME NEW S \in SUBSET Requests
        PROVE  IsFiniteSet(S) /\ Cardinality(S) \in Nat /\ Cardinality(S) <= N
    BY <1>1, FS_Subset, FS_CardinalityType DEF N
  <1>4. ASSUME NEW S \in SUBSET Requests, NEW r \in S
        PROVE  Cardinality(S \ {r}) = Cardinality(S) - 1
    BY <1>3, FS_RemoveElement
  <1>5. ASSUME NEW S \in SUBSET Requests, NEW r \in Requests
        PROVE  /\ Cardinality(S \ {r}) \in Nat
               /\ Cardinality(S \ {r}) <= Cardinality(S)
               /\ Cardinality(S \ {r}) <= N - 1
    <2>1. Cardinality(S \ {r}) \in Nat BY <1>3
    <2>2. Cardinality(S \ {r}) <= Cardinality(S)
      BY <1>3, FS_Subset
    <2>3. S \ {r} \in SUBSET (Requests \ {r}) /\ IsFiniteSet(Requests \ {r})
      BY <1>3
    <2>4. Cardinality(Requests \ {r}) = N - 1 BY <1>4 DEF N
    <2>5. Cardinality(S \ {r}) <= Cardinality(Requests \ {r}) BY <2>3, FS_Subset
    <2> QED BY <2>1, <2>2, <2>4, <2>5
  <1> QED BY <1>2, <1>3, <1>4, <1>5

\* The invariant holds when the daemon starts.
LEMMA InitInvariant == Init => IInv
  <1> SUFFICES ASSUME Init PROVE IInv OBVIOUS
  <1> USE LoginAssumption, RequestsFinite
  <1>1. TypeOK
    BY DEF Init, TypeOK, Bucket, NoBucket, Session, NoSession, InLogin
  <1>2. FailuresBounded
    <2>1. \A c \in Clients : bucket[c].failures = 0 BY DEF Init, NoBucket
    <2>2. Cardinality(Requests) \in Nat BY DEF N
    <2> QED BY <2>1, <2>2 DEF FailuresBounded
  <1>3. NoStaleLogin /\ VersionInv
    BY DEF Init, NoStaleLogin, VersionInv, NoSession
  <1>4. \A c \in Clients : LockoutInv(c)
    BY DEF Init, LockoutInv, NoBucket
  <1> QED BY <1>1, <1>2, <1>3, <1>4 DEF IInv

-----------------------------------------------------------------------------
(* What one failure does to a bucket                                         *)

\* What a failure makes of a bucket, in its three cases.
LEMMA BucketAfterFields ==
    ASSUME NEW b \in Bucket
    PROVE  /\ BucketAfter(b) \in Bucket
           /\ b.failures = 0 \/ b.age > Window =>
                 BucketAfter(b) = [failures |-> 1, age |-> 0, left |-> 0]
           /\ ~(b.failures = 0 \/ b.age > Window) =>
                 /\ BucketAfter(b).failures = b.failures + 1
                 /\ BucketAfter(b).age = b.age
                 /\ BucketAfter(b).left =
                       IF b.failures + 1 >= MaxFailures THEN Lockout ELSE b.left
  BY LoginAssumption DEF Bucket, BucketAfter

\* The bucket of a key after a failure of one of its requests, and the
\* requests under way when its lockout began, are as LockoutInv says.
LEMMA FailureCounted ==
    ASSUME IInv, NEW r \in Requests, recordLoginFailure(r),
           NEW c \in Clients, c = client[r]
    PROVE  /\ bucket'[c] \in Bucket /\ bucket'[c].failures # 0
           /\ bucket'[c].failures <= MaxFailures - 1 + N
           /\ early'[c] \in SUBSET Requests
           /\ UnderWay(c)' = UnderWay(c) \ {r}
           /\ LockoutInv(c)'
  <1> DEFINE b == bucket[c]
             U == UnderWay(c)
  <1> USE LoginAssumption, RequestsFinite
  <1>1. b \in Bucket /\ r \in U /\ U \in SUBSET Requests
        /\ early[c] \in SUBSET Requests /\ pc[r] = "failure"
    BY DEF IInv, TypeOK, recordLoginFailure, InLogin, UnderWay
  <1>2. bucket'[c] = BucketAfter(b)
    BY <1>1 DEF IInv, TypeOK, recordLoginFailure
  <1>3. early'[c] = IF BucketAfter(b).left = 0 THEN {}
                    ELSE IF b.left > 0 THEN early[c] \ {r} ELSE U \ {r}
    BY <1>1 DEF IInv, TypeOK, recordLoginFailure, Witness, loginLocked
  <1>4. UnderWay(c)' = U \ {r}
    BY <1>1 DEF IInv, TypeOK, recordLoginFailure, Answer, UnderWay, InLogin
  <1>5. LockoutInv(c) /\ b.failures <= MaxFailures - 1 + N
    BY <1>1 DEF IInv, FailuresBounded, N
  <1>6. N >= 1
    <2>1. Cardinality(U \ {r}) \in Nat /\ Cardinality(U \ {r}) <= N - 1 BY <1>1
    <2> QED BY <2>1
  <1>7. Cardinality({}) = 0 BY FS_EmptySet
  <1>8. CASE b.failures = 0 \/ b.age > Window
    <2>1. bucket'[c] = [failures |-> 1, age |-> 0, left |-> 0]
      BY <1>1, <1>2, <1>8, BucketAfterFields
    <2>2. LockoutInv(c)' BY <2>1, <1>1 DEF LockoutInv, Bucket
    <2> QED BY <1>1, <1>3, <1>4, <1>6, <2>1, <2>2 DEF Bucket
  <1>9. CASE ~(b.failures = 0 \/ b.age > Window) /\ b.failures + 1 < MaxFailures
    <2>2. bucket'[c].failures = b.failures + 1 /\ bucket'[c].left = b.left
          /\ bucket'[c].age = b.age /\ bucket'[c] \in Bucket
      BY <1>1, <1>2, <1>9, BucketAfterFields DEF Bucket
    <2>3. b.left = 0 BY <1>1, <1>5, <1>9 DEF LockoutInv, Bucket
    <2>4. LockoutInv(c)' BY <1>1, <1>9, <2>2, <2>3 DEF LockoutInv, Bucket
    <2> QED BY <1>1, <1>3, <1>4, <1>6, <1>9, <2>2, <2>4 DEF Bucket
  <1>10. CASE ~(b.failures = 0 \/ b.age > Window) /\ b.failures + 1 >= MaxFailures
    <2>2. bucket'[c].failures = b.failures + 1 /\ bucket'[c].left = Lockout
          /\ bucket'[c].age = b.age /\ bucket'[c] \in Bucket
      BY <1>1, <1>2, <1>10, BucketAfterFields DEF Bucket
    <2>3. early'[c] = U \ {r}
      <3>1. CASE b.left > 0
        <4>1. early[c] = U BY <1>1, <1>5, <3>1 DEF LockoutInv
        <4>2. BucketAfter(b).left # 0 BY <1>2, <2>2
        <4> QED BY <1>3, <3>1, <4>1, <4>2
      <3>2. CASE ~(b.left > 0)
        BY <1>2, <1>3, <2>2, <3>2
      <3> QED BY <3>1, <3>2
    <2>4. bucket'[c].failures + Cardinality(early'[c]) <= MaxFailures - 1 + N
      <3>1. CASE b.failures >= MaxFailures
        <4>1. b.age + b.left >= Lockout /\ b.left > 0
          BY <1>1, <1>5, <1>10, <3>1 DEF LockoutInv, Bucket
        <4>2. early[c] = U /\ b.failures + Cardinality(early[c]) <= MaxFailures - 1 + N
          BY <1>1, <1>5, <1>10, <3>1, <4>1 DEF LockoutInv, Bucket, N
        <4>3. Cardinality(early'[c]) = Cardinality(early[c]) - 1
          BY <1>1, <2>3, <4>2
        <4> QED BY <1>1, <2>2, <4>2, <4>3 DEF Bucket
      <3>2. CASE b.failures < MaxFailures
        <4>1. Cardinality(early'[c]) <= N - 1 /\ Cardinality(early'[c]) \in Nat
          BY <1>1, <2>3
        <4>2. bucket'[c].failures = MaxFailures BY <1>1, <1>10, <2>2, <3>2 DEF Bucket
        <4> QED BY <4>1, <4>2
      <3> QED BY <1>1, <3>1, <3>2 DEF Bucket
    <2>5. early'[c] = UnderWay(c)' BY <1>4, <2>3
    <2>6. bucket'[c].failures >= MaxFailures /\ bucket'[c].failures # 0 BY <1>1, <1>10, <2>2 DEF Bucket
    <2>7. bucket'[c].age + bucket'[c].left >= Lockout BY <1>1, <2>2 DEF Bucket
    <2>8. LockoutInv(c)'
      BY <2>4, <2>5, <2>6, <2>7 DEF LockoutInv, N
    <2>9. Cardinality(early'[c]) \in Nat BY <1>1, <2>3
    <2>10. bucket'[c].failures <= MaxFailures - 1 + N
      BY <1>1, <2>2, <2>4, <2>9 DEF Bucket
    <2> QED BY <1>1, <1>4, <2>2, <2>3, <2>6, <2>8, <2>10
  <1> QED BY <1>1, <1>8, <1>9, <1>10 DEF Bucket

-----------------------------------------------------------------------------
(* Every step preserves the invariant                                        *)

\* A request that is answered leaves the other keys as they are.
LEMMA OthersUntouched ==
    ASSUME IInv, NEW r \in Requests, Answer(r),
           pc[r] \in InLogin, NEW c \in Clients, c # client[r],
           bucket'[c] = bucket[c], early'[c] = early[c]
    PROVE  UnderWay(c)' = UnderWay(c) /\ LockoutInv(c)'
  <1>1. UnderWay(c)' = UnderWay(c)
    BY DEF IInv, TypeOK, UnderWay, Answer, InLogin
  <1>2. LockoutInv(c) BY DEF IInv
  <1> QED BY <1>1, <1>2 DEF LockoutInv

\* Answering keeps types and what is known of passwords.
LEMMA Answered ==
    ASSUME IInv, NEW r \in Requests, Answer(r)
    PROVE  /\ pc' \in [Requests -> InLogin \cup {"idle", "change"}]
           /\ client' \in [Requests -> Clients \cup {NoClient}]
           /\ \A q \in Requests : pc'[q] \in InLogin => client'[q] # NoClient
           /\ matched' \in [Requests -> Nat] /\ began' \in [Requests -> Nat]
           /\ \A q \in Requests :
                 /\ began'[q] <= password
                 /\ pc'[q] = "insert" => matched'[q] >= began'[q]
  BY LoginAssumption DEF IInv, TypeOK, Answer, InLogin, VersionInv

\* A failure that is recorded keeps the invariant.
LEMMA FailureInvariant ==
    ASSUME IInv, NEW r \in Requests, recordLoginFailure(r)
    PROVE  IInv'
  <1>1. PICK c \in Clients : c = client[r]
    BY DEF IInv, TypeOK, recordLoginFailure, InLogin
  <1>2. /\ bucket'[c] \in Bucket /\ bucket'[c].failures # 0
        /\ bucket'[c].failures <= MaxFailures - 1 + N
        /\ early'[c] \in SUBSET Requests /\ LockoutInv(c)'
    BY <1>1, FailureCounted
  <1>3. /\ bucket' = [bucket EXCEPT ![c] = bucket'[c]]
        /\ early' = [early EXCEPT ![c] = early'[c]]
        /\ Answer(r) /\ pc[r] = "failure"
        /\ UNCHANGED <<password, sessions>>
    BY <1>1 DEF IInv, TypeOK, recordLoginFailure, Witness
  <1>4. TypeOK'
    BY <1>2, <1>3, Answered DEF IInv, TypeOK
  <1>5. FailuresBounded'
    BY <1>2, <1>3 DEF IInv, TypeOK, FailuresBounded, N
  <1>6. NoStaleLogin' /\ VersionInv'
    BY <1>3, Answered DEF IInv, NoStaleLogin, VersionInv
  <1>7. \A d \in Clients : LockoutInv(d)'
    <2> SUFFICES ASSUME NEW d \in Clients PROVE LockoutInv(d)' OBVIOUS
    <2>1. CASE d = c BY <1>2, <2>1
    <2>2. CASE d # c
      <3>1. bucket'[d] = bucket[d] /\ early'[d] = early[d]
        BY <1>3, <2>2 DEF IInv, TypeOK
      <3> QED BY <1>1, <1>3, <2>2, <3>1, OthersUntouched DEF InLogin
    <2> QED BY <2>1, <2>2
  <1> QED BY <1>4, <1>5, <1>6, <1>7 DEF IInv

\* A success deletes the bucket.
LEMMA SuccessInvariant ==
    ASSUME IInv, NEW r \in Requests, recordLoginSuccess(r)
    PROVE  IInv'
  <1> USE LoginAssumption
  <1>1. PICK c \in Clients : c = client[r]
    BY DEF IInv, TypeOK, recordLoginSuccess, InLogin
  <1>2. /\ bucket' = [bucket EXCEPT ![c] = NoBucket]
        /\ early' = [early EXCEPT ![c] = {}]
        /\ Answer(r) /\ pc[r] = "success"
        /\ UNCHANGED <<password, sessions>>
    BY <1>1 DEF IInv, TypeOK, recordLoginSuccess, Witness, NoBucket
  <1>3. NoBucket \in Bucket /\ NoBucket.failures = 0 /\ NoBucket.left = 0
    BY DEF NoBucket, Bucket
  <1>4. TypeOK' BY <1>2, <1>3, Answered DEF IInv, TypeOK
  <1>5. FailuresBounded'
    BY <1>2, <1>3, RequestsFinite DEF IInv, TypeOK, FailuresBounded, N
  <1>6. NoStaleLogin' /\ VersionInv'
    BY <1>2, Answered DEF IInv, NoStaleLogin, VersionInv
  <1>7. \A d \in Clients : LockoutInv(d)'
    <2> SUFFICES ASSUME NEW d \in Clients PROVE LockoutInv(d)' OBVIOUS
    <2>1. CASE d = c
      <3>1. bucket'[d] = NoBucket BY <1>2, <2>1 DEF IInv, TypeOK
      <3> QED BY <1>3, <3>1 DEF LockoutInv
    <2>2. CASE d # c
      <3>1. bucket'[d] = bucket[d] /\ early'[d] = early[d]
        BY <1>2, <2>2 DEF IInv, TypeOK
      <3> QED BY <1>1, <1>2, <2>2, <3>1, OthersUntouched DEF InLogin
    <2> QED BY <2>1, <2>2
  <1> QED BY <1>4, <1>5, <1>6, <1>7 DEF IInv

\* A new login carries a key that is not locked out.
LEMMA BeginInvariant ==
    ASSUME IInv, NEW r \in Requests, NEW c \in Clients, Begin(r, c)
    PROVE  IInv'
  <1> USE LoginAssumption
  <1>1. TypeOK' BY DEF IInv, TypeOK, Begin, Goto, InLogin
  <1>2. FailuresBounded' /\ NoStaleLogin'
    BY DEF IInv, FailuresBounded, NoStaleLogin, Begin
  <1>3. VersionInv' BY DEF IInv, TypeOK, VersionInv, Begin, Goto
  <1>4. \A d \in Clients : LockoutInv(d)'
    <2> SUFFICES ASSUME NEW d \in Clients PROVE LockoutInv(d)' OBVIOUS
    <2>1. LockoutInv(d) /\ bucket'[d] = bucket[d] /\ early'[d] = early[d]
      BY DEF IInv, Begin
    <2>2. bucket[d].left > 0 => UnderWay(d)' = UnderWay(d)
      BY DEF IInv, TypeOK, Begin, Goto, loginLocked, UnderWay, InLogin
    <2> QED BY <2>1, <2>2 DEF LockoutInv
  <1> QED BY <1>1, <1>2, <1>3, <1>4 DEF IInv

\* A body that is decoded, or that is not: then the request is gone.
LEMMA DecodeInvariant ==
    ASSUME IInv, NEW r \in Requests, Decode(r)
    PROVE  IInv'
  <1> USE LoginAssumption
  <1>1. UNCHANGED <<bucket, password, sessions>> /\ pc[r] = "body" BY DEF Decode
  <1>2. FailuresBounded' /\ NoStaleLogin'
    BY <1>1 DEF IInv, FailuresBounded, NoStaleLogin
  <1>3. CASE Goto(r, "user") /\ UNCHANGED <<client, matched, began, early>>
    <2>1. TypeOK' /\ VersionInv'
      BY <1>1, <1>3 DEF IInv, TypeOK, VersionInv, Goto, InLogin
    <2>2. \A d \in Clients : UnderWay(d)' = UnderWay(d)
      BY <1>1, <1>3 DEF IInv, TypeOK, UnderWay, Goto, InLogin
    <2>3. \A d \in Clients : LockoutInv(d)'
      BY <1>1, <1>3, <2>2 DEF IInv, LockoutInv
    <2> QED BY <1>2, <2>1, <2>3 DEF IInv
  <1>4. CASE Answer(r) /\ early' = [early EXCEPT ![client[r]] = @ \ {r}]
    <2>1. PICK c \in Clients : c = client[r]
      BY <1>1 DEF IInv, TypeOK, InLogin
    <2>2. TypeOK' /\ VersionInv'
      BY <1>1, <1>4, <2>1, Answered DEF IInv, TypeOK, VersionInv
    <2>3. ASSUME NEW d \in Clients PROVE LockoutInv(d)'
      <3>1. CASE d = c
        <4>1. early'[c] = early[c] \ {r} /\ early[c] \in SUBSET Requests
              /\ bucket[c] \in Bucket
          BY <1>4, <2>1 DEF IInv, TypeOK
        <4>2. UnderWay(c)' = UnderWay(c) \ {r}
          BY <1>4, <2>1 DEF IInv, TypeOK, UnderWay, Answer, InLogin
        <4>3. Cardinality(early'[c]) \in Nat /\ Cardinality(early[c]) \in Nat
              /\ Cardinality(early'[c]) <= Cardinality(early[c])
              /\ Cardinality(Requests) \in Nat
          BY <4>1, RequestsFinite DEF N
        <4>4. LockoutInv(c) BY DEF IInv
        <4> HIDE DEF UnderWay
        <4>5. bucket'[c] = bucket[c] BY <1>1
        <4> QED BY <3>1, <4>1, <4>2, <4>3, <4>4, <4>5 DEF LockoutInv, Bucket
      <3>2. CASE d # c
        <4>1. bucket'[d] = bucket[d] /\ early'[d] = early[d]
          BY <1>1, <1>4, <2>1, <3>2 DEF IInv, TypeOK
        <4> QED BY <1>1, <1>4, <2>1, <3>2, <4>1, OthersUntouched DEF InLogin
      <3> QED BY <3>1, <3>2
    <2> QED BY <1>2, <2>2, <2>3 DEF IInv
  <1> QED BY <1>1, <1>3, <1>4 DEF Decode

\* The steps between the throttle's two answers leave it alone.
LEMMA AttemptInvariant ==
    ASSUME IInv, NEW r \in Requests, ReadUser(r) \/ InsertSession(r)
    PROVE  IInv'
  <1> USE LoginAssumption
  <1>1. /\ UNCHANGED <<bucket, password, client, began, early>>
        /\ pc[r] \in InLogin
        /\ \E label \in InLogin : pc' = [pc EXCEPT ![r] = label]
    BY DEF ReadUser, InsertSession, Goto, InLogin
  <1>2. TypeOK'
    <2>1. CASE ReadUser(r)
      BY <1>1, <2>1 DEF IInv, TypeOK, ReadUser
    <2>2. CASE InsertSession(r)
      <3>1. sessions' \in [Tokens -> Session]
        BY <2>2 DEF IInv, TypeOK, InsertSession, Session
      <3> QED BY <1>1, <2>2, <3>1 DEF IInv, TypeOK, InsertSession
    <2> QED BY <2>1, <2>2
  <1>3. VersionInv'
    <2>1. CASE ReadUser(r)
      BY <1>1, <2>1 DEF IInv, TypeOK, VersionInv, ReadUser, Goto
    <2>2. CASE InsertSession(r)
      BY <1>1, <2>2 DEF IInv, TypeOK, VersionInv, InsertSession, Goto
    <2> QED BY <2>1, <2>2
  <1>4. NoStaleLogin'
    <2>1. CASE ReadUser(r) BY <2>1 DEF IInv, NoStaleLogin, ReadUser
    <2>2. CASE InsertSession(r)
      BY <2>2 DEF IInv, TypeOK, NoStaleLogin, VersionInv, InsertSession
    <2> QED BY <2>1, <2>2
  <1>5. FailuresBounded' BY <1>1 DEF IInv, FailuresBounded
  <1>6. \A d \in Clients : UnderWay(d)' = UnderWay(d)
    BY <1>1 DEF IInv, TypeOK, UnderWay, InLogin
  <1>7. \A d \in Clients : LockoutInv(d)' BY <1>1, <1>6 DEF IInv, LockoutInv
  <1> QED BY <1>2, <1>3, <1>4, <1>5, <1>7 DEF IInv

\* Sessions end and the password changes without the throttle.
LEMMA SessionInvariant ==
    ASSUME IInv,
           \/ \E t \in Tokens : Expire(t) \/ ValidateExpired(t) \/ Logout(t)
           \/ \E r \in Requests : \/ \E t \in Tokens : ValidateSession(r, t)
                                  \/ ChangePassword(r) \/ ChangeRefused(r)
    PROVE  IInv'
  <1> USE LoginAssumption
  <1>1. UNCHANGED <<bucket, early>>
    BY DEF Expire, ValidateExpired, Logout, ValidateSession, ChangePassword, ChangeRefused
  <1>2. TypeOK' /\ VersionInv' /\ NoStaleLogin'
    <2>1. CASE \E t \in Tokens : Expire(t) \/ ValidateExpired(t) \/ Logout(t)
      <3>1. PICK t \in Tokens : Expire(t) \/ ValidateExpired(t) \/ Logout(t) BY <2>1
      <3>2. UNCHANGED <<bucket, password, local, early>>
        BY <3>1 DEF Expire, ValidateExpired, Logout
      <3>3. sessions' \in [Tokens -> Session]
            /\ \A u \in Tokens : sessions'[u].matched >= sessions'[u].began
        BY <3>1 DEF IInv, TypeOK, NoStaleLogin, Session, NoSession,
                    Expire, ValidateExpired, Logout
      <3> QED BY <3>2, <3>3 DEF IInv, TypeOK, VersionInv, NoStaleLogin, local
    <2>2. CASE \E r \in Requests, t \in Tokens : ValidateSession(r, t)
      BY <2>2 DEF IInv, TypeOK, VersionInv, NoStaleLogin, ValidateSession, Goto, InLogin
    <2>3. CASE \E r \in Requests : ChangePassword(r) \/ ChangeRefused(r)
      <3>1. PICK r \in Requests : ChangePassword(r) \/ ChangeRefused(r) BY <2>3
      <3>2. Answer(r) /\ UNCHANGED sessions
            /\ password' \in 0 .. MaxChanges /\ password' >= password
        BY <3>1 DEF IInv, TypeOK, ChangePassword, ChangeRefused
      <3>3. VersionInv'
        <4>1. \A q \in Requests : began'[q] \in Nat /\ began'[q] <= password
          BY <3>2, Answered
        <4> QED BY <3>2, <4>1, Answered DEF IInv, TypeOK, VersionInv
      <3> QED BY <1>1, <3>2, <3>3, Answered DEF IInv, TypeOK, NoStaleLogin
    <2> QED BY <2>1, <2>2, <2>3
  <1>3. ASSUME NEW d \in Clients PROVE UnderWay(d)' = UnderWay(d)
    <2>1. CASE \E t \in Tokens : Expire(t) \/ ValidateExpired(t) \/ Logout(t)
      BY <2>1 DEF UnderWay, Expire, ValidateExpired, Logout, local
    <2>2. CASE \E r \in Requests, t \in Tokens : ValidateSession(r, t)
      BY <2>2 DEF IInv, TypeOK, UnderWay, InLogin, ValidateSession, Goto
    <2>3. CASE \E r \in Requests : ChangePassword(r) \/ ChangeRefused(r)
      <3>1. PICK r \in Requests : pc[r] = "change" /\ Answer(r)
        BY <2>3 DEF ChangePassword, ChangeRefused
      <3> QED BY <3>1 DEF IInv, TypeOK, UnderWay, InLogin, Answer
    <2> QED BY <2>1, <2>2, <2>3
  <1>4. FailuresBounded' /\ \A d \in Clients : LockoutInv(d)'
    BY <1>1, <1>3 DEF IInv, FailuresBounded, LockoutInv
  <1> QED BY <1>2, <1>4 DEF IInv

\* The window passes before the lockout does.
LEMMA TickInvariant ==
    ASSUME IInv, Tick
    PROVE  IInv'
  <1> USE LoginAssumption
  <1>1. UNCHANGED <<password, sessions, pc, client, matched, began>>
    BY DEF Tick, local
  <1>2. ASSUME NEW c \in Clients
        PROVE  /\ bucket'[c] \in Bucket
               /\ bucket'[c].failures = bucket[c].failures
               /\ bucket'[c].age = IF bucket[c].failures > 0 /\ bucket[c].age <= Window
                                   THEN bucket[c].age + 1 ELSE bucket[c].age
               /\ bucket'[c].left = IF bucket[c].left > 0 THEN bucket[c].left - 1 ELSE 0
               /\ early'[c] = IF bucket[c].left <= 1 THEN {} ELSE early[c]
    BY DEF IInv, TypeOK, Tick, Bucket
  <1>3. TypeOK'
    <2>1. bucket' \in [Clients -> Bucket] /\ early' \in [Clients -> SUBSET Requests]
      BY <1>2 DEF IInv, TypeOK, Tick
    <2>2. ASSUME NEW c \in Clients, bucket'[c].failures = 0
          PROVE  bucket'[c] = NoBucket
      <3>1. bucket[c] = NoBucket BY <1>2, <2>2 DEF IInv, TypeOK
      <3> QED BY <1>2, <2>2, <3>1 DEF NoBucket, Bucket
    <2> QED BY <1>1, <2>1, <2>2 DEF IInv, TypeOK
  <1>4. FailuresBounded' BY <1>2 DEF IInv, FailuresBounded
  <1>5. NoStaleLogin' /\ VersionInv' BY <1>1 DEF IInv, NoStaleLogin, VersionInv
  <1>6. ASSUME NEW c \in Clients PROVE LockoutInv(c)'
    <2>1. LockoutInv(c) /\ bucket[c] \in Bucket /\ early[c] \in SUBSET Requests
      BY DEF IInv, TypeOK
    <2>2. UnderWay(c)' = UnderWay(c) BY <1>1 DEF UnderWay
    <2>3. bucket'[c].left > 0 => bucket[c].left > 1 /\ early'[c] = early[c]
      BY <1>2, <2>1 DEF Bucket
    <2>4. bucket'[c].failures >= MaxFailures =>
             bucket'[c].age > Window \/ bucket'[c].age + bucket'[c].left >= Lockout
      BY <1>2, <2>1 DEF LockoutInv, Bucket
    <2>5. bucket'[c].failures >= MaxFailures /\ bucket'[c].age <= Window =>
             bucket[c].age <= Window /\ bucket'[c].left > 0
      BY <1>2, <2>1, <2>4 DEF Bucket
    <2> QED BY <1>2, <2>1, <2>2, <2>3, <2>4, <2>5 DEF LockoutInv, Bucket
  <1> QED BY <1>3, <1>4, <1>5, <1>6 DEF IInv

\* A restart forgets buckets and requests.
LEMMA RestartInvariant ==
    ASSUME IInv, Restart
    PROVE  IInv'
  <1> USE LoginAssumption
  <1>1. NoBucket \in Bucket /\ NoBucket.failures = 0 /\ NoBucket.left = 0
    BY DEF NoBucket, Bucket
  <1>2. TypeOK' BY <1>1 DEF IInv, TypeOK, Restart, InLogin
  <1>3. FailuresBounded' BY <1>1, RequestsFinite DEF FailuresBounded, Restart, N
  <1>4. NoStaleLogin' /\ VersionInv'
    BY DEF IInv, TypeOK, NoStaleLogin, VersionInv, Restart
  <1>5. \A c \in Clients : LockoutInv(c)' BY <1>1 DEF LockoutInv, Restart
  <1> QED BY <1>2, <1>3, <1>4, <1>5 DEF IInv

\* Nothing happens.
LEMMA StutterInvariant == IInv /\ UNCHANGED vars => IInv'
  BY DEF IInv, TypeOK, FailuresBounded, NoStaleLogin, VersionInv, LockoutInv, UnderWay,
         vars, local

\* Every step keeps the invariant.
LEMMA NextInvariant == IInv /\ [Next]_vars => IInv'
  <1> SUFFICES ASSUME IInv, Next PROVE IInv' BY StutterInvariant
  <1>1. CASE \E r \in Requests, c \in Clients : Begin(r, c) BY <1>1, BeginInvariant
  <1>2. CASE \E r \in Requests : Decode(r) BY <1>2, DecodeInvariant
  <1>3. CASE \E r \in Requests : ReadUser(r) \/ InsertSession(r) BY <1>3, AttemptInvariant
  <1>4. CASE \E r \in Requests : recordLoginFailure(r) BY <1>4, FailureInvariant
  <1>5. CASE \E r \in Requests : recordLoginSuccess(r) BY <1>5, SuccessInvariant
  <1>6. CASE \/ \E t \in Tokens : Expire(t) \/ ValidateExpired(t) \/ Logout(t)
             \/ \E r \in Requests : \/ \E t \in Tokens : ValidateSession(r, t)
                                    \/ ChangePassword(r) \/ ChangeRefused(r)
    BY <1>6, SessionInvariant
  <1>7. CASE Tick BY <1>7, TickInvariant
  <1>8. CASE Restart BY <1>8, RestartInvariant
  <1> QED BY <1>1, <1>2, <1>3, <1>4, <1>5, <1>6, <1>7, <1>8 DEF Next

\* Login keeps its inductive invariant, with any number of requests.
THEOREM Invariance == Spec => []IInv
  BY InitInvariant, NextInvariant, PTL DEF Spec

\* The types of the buckets, the sessions and the requests.
THEOREM TypeCorrect == Spec => []TypeOK
  <1>1. IInv => TypeOK BY DEF IInv
  <1> QED BY <1>1, Invariance, PTL

\* A window holds at most the failures that lock and those of the other requests.
THEOREM ThrottleBounds == Spec => []FailuresBounded
  <1>1. IInv => FailuresBounded BY DEF IInv
  <1> QED BY <1>1, Invariance, PTL

\* No login that began after a change of the password is let in by the old one.
THEOREM NoStaleSession == Spec => []NoStaleLogin
  <1>1. IInv => NoStaleLogin BY DEF IInv
  <1> QED BY <1>1, Invariance, PTL

\* Only time, a restart or a request that was under way when it began ends a lockout.
THEOREM LockoutsHold == Spec => LockoutHolds
  <1> DEFINE Holds ==
        \A c \in Clients :
           loginLocked(c) /\ bucket'[c].left < bucket[c].left =>
              \/ Tick \/ Restart
              \/ \E r \in early[c] : pc[r] \in {"failure", "success"} /\ pc'[r] = "idle"
  <1>1. ASSUME IInv, Next PROVE Holds
    <2> SUFFICES ASSUME NEW c \in Clients, bucket[c].left > 0,
                        bucket'[c].left < bucket[c].left, ~Tick, ~Restart
                 PROVE  \E r \in early[c] : pc[r] \in {"failure", "success"} /\ pc'[r] = "idle"
      BY <1>1 DEF loginLocked
    <2>1. bucket[c] \in Bucket /\ early[c] = UnderWay(c)
      BY <1>1 DEF IInv, TypeOK, LockoutInv
    <2>2. bucket'[c] # bucket[c] BY <2>1 DEF Bucket
    <2>3. PICK r \in Requests : recordLoginFailure(r) \/ recordLoginSuccess(r)
      BY <1>1, <2>2 DEF Next, Begin, Decode, ReadUser, InsertSession, ValidateSession,
                  ChangePassword, ChangeRefused, Expire, ValidateExpired, Logout
    <2>4. client[r] = c
      BY <1>1, <2>2, <2>3 DEF IInv, TypeOK, recordLoginFailure, recordLoginSuccess
    <2>5. pc[r] \in {"failure", "success"} /\ pc'[r] = "idle"
      BY <1>1, <2>3 DEF IInv, TypeOK, recordLoginFailure, recordLoginSuccess, Answer
    <2>6. r \in early[c] BY <2>1, <2>4, <2>5 DEF UnderWay, InLogin
    <2> QED BY <2>5, <2>6
  <1>2. IInv /\ [Next]_vars => [Holds]_vars BY <1>1
  <1> QED BY <1>2, Invariance, PTL DEF Spec, LockoutHolds
=============================================================================
