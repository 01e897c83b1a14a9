------------------------------- MODULE Login -------------------------------
(***************************************************************************)
(* Logging in: the throttle of failed attempts per key, the sessions, and  *)
(* the change of the password.                                             *)
(*                                                                         *)
(* A login looks at the throttle, decodes the request, reads the user's    *)
(* hash, compares, inserts a session and only then tells the throttle how  *)
(* it went.  Each of these is a step, and other requests run in between.   *)
(*                                                                         *)
(* The key is what the request brings along: the address it comes from, or *)
(* the X-Real-IP or X-Forwarded-For header that middleware.RealIP puts in  *)
(* its place, cut at its last colon.  Any request may have any key, and    *)
(* what is shown of a key is not shown of the person who sends it.         *)
(*                                                                         *)
(* Time is kept relative: a bucket knows how long ago its first failure    *)
(* was (`age', which stops counting just past the window) and how much of  *)
(* the lockout is `left'.  A password is the number of the change that set *)
(* it.                                                                     *)
(***************************************************************************)
EXTENDS Naturals, FiniteSets

CONSTANTS
    Requests,     \* goroutines serving HTTP requests, one request at a time
    Clients,      \* the keys that requests carry
    Tokens,       \* session tokens; bound: sessions and logins at a time
    NoClient,     \* "no request under way"
    MaxFailures,  \* loginMaxFailures
    Window,       \* loginWindow
    Lockout,      \* loginLockout
    MaxChanges    \* bound: changes of the password

ASSUME LoginAssumption ==
    /\ IsFiniteSet(Requests) /\ IsFiniteSet(Tokens)
    /\ NoClient \notin Clients
    /\ MaxFailures \in Nat \ {0, 1}   \* the first failure never locks
    /\ Window \in Nat /\ Lockout \in Nat
    /\ Window < Lockout             \* one minute and two
    /\ MaxChanges \in Nat

VARIABLES
    bucket,    \* loginAttempts: a bucket for each key
    password,  \* users: the hash
    sessions,  \* sessions: the row of each token
    pc,        \* where each request stands in its handler
    client,    \* the key its login carried
    \* history, to state the properties with:
    matched,   \* the password that a request's was equal to
    began,     \* the password when it began
    early      \* requests under way when the lockout of their key began

local == <<pc, client, matched, began>>
vars  == <<bucket, password, sessions, local, early>>

\* A key without a bucket has had no failure
NoBucket == [failures |-> 0, age |-> 0, left |-> 0]

InLogin == {"body", "user", "insert", "failure", "success"}

UnderWay(c) == {r \in Requests : pc[r] \in InLogin /\ client[r] = c}

Rows == {t \in Tokens : sessions[t].row # "none"}

NoSession == [row |-> "none", matched |-> 0, began |-> 0]

Init ==
    /\ bucket = [c \in Clients |-> NoBucket]
    /\ password = 0
    /\ sessions = [t \in Tokens |-> NoSession]
    /\ pc = [r \in Requests |-> "idle"]
    /\ client = [r \in Requests |-> NoClient]
    /\ matched = [r \in Requests |-> 0]
    /\ began = [r \in Requests |-> 0]
    /\ early = [c \in Clients |-> {}]

-----------------------------------------------------------------------------
(* The throttle.  Each of the three is one critical section of loginMu.      *)

\* (seeded fault: the count decides, and not the time the lockout ends)
LockedByCount(c) == bucket[c].failures >= MaxFailures

loginLocked(c) == bucket[c].left > 0

\* A failure outside the window of the first one begins a new bucket, and a
\* lockout that has not run out goes with the old one
BucketAfter(b) ==
    IF b.failures = 0 \/ b.age > Window
    THEN [failures |-> 1, age |-> 0, left |-> 0]
    ELSE [ failures |-> b.failures + 1,
           age      |-> b.age,
           left     |-> IF b.failures + 1 >= MaxFailures THEN Lockout ELSE b.left ]

\* r is answered
Answer(r) ==
    /\ pc' = [pc EXCEPT ![r] = "idle"]
    /\ client' = [client EXCEPT ![r] = NoClient]
    /\ matched' = [matched EXCEPT ![r] = 0]
    /\ began' = [began EXCEPT ![r] = 0]

\* `early' follows the bucket of r's key, which is now b, and loses r
Witness(r, b) ==
    LET c == client[r]
    IN  early' = [early EXCEPT ![c] =
                     IF b.left = 0 THEN {}
                     ELSE IF loginLocked(c) THEN @ \ {r}
                     ELSE UnderWay(c) \ {r}]

recordLoginFailure(r) ==
    LET b == BucketAfter(bucket[client[r]])
    IN  /\ pc[r] = "failure"
        /\ bucket' = [bucket EXCEPT ![client[r]] = b]
        /\ Witness(r, b)
        /\ Answer(r)
        /\ UNCHANGED <<password, sessions>>

\* (seeded fault: only the count is set back)
SuccessKeepsLockout(r) ==
    /\ pc[r] = "success"
    /\ bucket' = [bucket EXCEPT ![client[r]].failures = 0]
    /\ Witness(r, bucket[client[r]])
    /\ Answer(r)
    /\ UNCHANGED <<password, sessions>>

recordLoginSuccess(r) ==
    /\ pc[r] = "success"
    /\ bucket' = [bucket EXCEPT ![client[r]] = NoBucket]
    /\ Witness(r, NoBucket)
    /\ Answer(r)
    /\ UNCHANGED <<password, sessions>>

-----------------------------------------------------------------------------
(* AuthHandler.Login and AuthService.Login *)

Goto(r, label) == pc' = [pc EXCEPT ![r] = label]

\* (seeded fault: the throttle is not asked)
BeginUnchecked(r, c) ==
    /\ pc[r] = "idle"
    /\ Cardinality(Rows) + Cardinality({q \in Requests : pc[q] \in InLogin})
         < Cardinality(Tokens)
    /\ Goto(r, "body")
    /\ client' = [client EXCEPT ![r] = c]
    /\ began' = [began EXCEPT ![r] = password]
    /\ UNCHANGED <<bucket, password, sessions, matched, early>>

\* A request whose key is locked out is answered 429 here and now, and nothing changes
Begin(r, c) ==
    /\ pc[r] = "idle" /\ ~loginLocked(c)
    /\ Cardinality(Rows) + Cardinality({q \in Requests : pc[q] \in InLogin})
         < Cardinality(Tokens)
    /\ Goto(r, "body")
    /\ client' = [client EXCEPT ![r] = c]
    /\ began' = [began EXCEPT ![r] = password]
    /\ UNCHANGED <<bucket, password, sessions, matched, early>>

\* The body takes as long as the client likes; what cannot be decoded is no attempt
Decode(r) ==
    /\ pc[r] = "body"
    /\ \/ Goto(r, "user") /\ UNCHANGED <<client, matched, began, early>>
       \/ Answer(r) /\ early' = [early EXCEPT ![client[r]] = @ \ {r}]
    /\ UNCHANGED <<bucket, password, sessions>>

\* (seeded fault: the hash is the one read at some earlier login)
ReadUserCached(r) ==
    /\ pc[r] = "user"
    /\ \/ Goto(r, "insert") /\ \E old \in 0 .. password : matched' = [matched EXCEPT ![r] = old]
       \/ Goto(r, "failure") /\ UNCHANGED matched
    /\ UNCHANGED <<bucket, password, sessions, client, began, early>>

\* The row is read and the hash compared: no such user, a failing query and a wrong
\* password all count as a failure
ReadUser(r) ==
    /\ pc[r] = "user"
    /\ \/ Goto(r, "insert") /\ matched' = [matched EXCEPT ![r] = password]
       \/ Goto(r, "failure") /\ UNCHANGED matched
    /\ UNCHANGED <<bucket, password, sessions, client, began, early>>

\* A failing INSERT counts against the key as well
InsertSession(r) ==
    /\ pc[r] = "insert"
    /\ \/ /\ Goto(r, "success")
          /\ \E t \in Tokens \ Rows :
                sessions' = [sessions EXCEPT ![t] =
                    [row |-> "live", matched |-> matched[r], began |-> began[r]]]
       \/ Goto(r, "failure") /\ UNCHANGED sessions
    /\ UNCHANGED <<bucket, password, client, matched, began, early>>

-----------------------------------------------------------------------------
(* Sessions and the password *)

Expire(t) ==
    /\ sessions[t].row = "live"
    /\ sessions' = [sessions EXCEPT ![t].row = "expired"]
    /\ UNCHANGED <<bucket, password, local, early>>

\* ValidateSession, for any request that needs a session: a row that has expired is
\* deleted by the request that brings it
ValidateExpired(t) ==
    /\ sessions[t].row = "expired"
    /\ sessions' = [sessions EXCEPT ![t] = NoSession]
    /\ UNCHANGED <<bucket, password, local, early>>

Logout(t) ==
    /\ sessions[t].row # "none"
    /\ sessions' = [sessions EXCEPT ![t] = NoSession]
    /\ UNCHANGED <<bucket, password, local, early>>

\* The session is valid: on to SettingsHandler.ChangePassword, which hashes first
ValidateSession(r, t) ==
    /\ pc[r] = "idle" /\ sessions[t].row = "live"
    /\ Goto(r, "change")
    /\ UNCHANGED <<bucket, password, sessions, client, matched, began, early>>

\* The sessions stay as they are
ChangePassword(r) ==
    /\ pc[r] = "change" /\ password < MaxChanges
    /\ password' = password + 1
    /\ Answer(r)
    /\ UNCHANGED <<bucket, sessions, early>>

\* too short, or the UPDATE fails
ChangeRefused(r) ==
    /\ pc[r] = "change"
    /\ Answer(r)
    /\ UNCHANGED <<bucket, password, sessions, early>>

-----------------------------------------------------------------------------
Tick ==
    /\ bucket' = [c \in Clients |->
          LET b == bucket[c]
          IN  [ failures |-> b.failures,
                age      |-> IF b.failures > 0 /\ b.age <= Window THEN b.age + 1 ELSE b.age,
                left     |-> IF b.left > 0 THEN b.left - 1 ELSE 0 ]]
    /\ early' = [c \in Clients |-> IF bucket[c].left <= 1 THEN {} ELSE early[c]]
    /\ UNCHANGED <<password, sessions, local>>

\* The buckets are in memory, the sessions in the database
Restart ==
    /\ bucket' = [c \in Clients |-> NoBucket]
    /\ pc' = [r \in Requests |-> "idle"]
    /\ client' = [r \in Requests |-> NoClient]
    /\ matched' = [r \in Requests |-> 0]
    /\ began' = [r \in Requests |-> 0]
    /\ early' = [c \in Clients |-> {}]
    /\ UNCHANGED <<password, sessions>>

Next ==
    \/ \E r \in Requests :
          \/ \E c \in Clients : Begin(r, c)
          \/ Decode(r) \/ ReadUser(r) \/ InsertSession(r)
          \/ recordLoginFailure(r) \/ recordLoginSuccess(r)
          \/ \E t \in Tokens : ValidateSession(r, t)
          \/ ChangePassword(r) \/ ChangeRefused(r)
    \/ \E t \in Tokens : Expire(t) \/ ValidateExpired(t) \/ Logout(t)
    \/ Tick
    \/ Restart

Spec == Init /\ [][Next]_vars

\* Time passes.  Requests take as long as they like.
FairSpec == Spec /\ WF_vars(Tick)

-----------------------------------------------------------------------------
(* Properties *)

Bucket == [failures : Nat, age : 0 .. Window + 1, left : 0 .. Lockout]

Session == [row : {"none", "live", "expired"}, matched : Nat, began : Nat]

\* Types; a key without failures has no lockout and no age.
TypeOK ==
    /\ bucket \in [Clients -> Bucket]
    /\ \A c \in Clients : bucket[c].failures = 0 => bucket[c] = NoBucket
    /\ password \in 0 .. MaxChanges
    /\ sessions \in [Tokens -> Session]
    /\ pc \in [Requests -> InLogin \cup {"idle", "change"}]
    /\ client \in [Requests -> Clients \cup {NoClient}]
    /\ \A r \in Requests : pc[r] \in InLogin => client[r] # NoClient
    /\ matched \in [Requests -> Nat] /\ began \in [Requests -> Nat]
    /\ early \in [Clients -> SUBSET Requests]

\* The throttle is asked before the password is looked at and told afterwards, so
\* five failures per window is not what it keeps.  What it does keep: a window holds
\* at most the failures that lock and one for each other request that was then
\* under way (handlers/auth.go:19 and 106-130).
FailuresBounded ==
    \A c \in Clients : bucket[c].failures <= MaxFailures - 1 + Cardinality(Requests)

\* A lockout ends before its time only with the daemon, or by a request that was
\* under way when the key was locked out: whoever comes later with that key can neither
\* delete the bucket by a success nor replace it by a failure past the window.
LockoutHolds ==
    [][\A c \in Clients :
          loginLocked(c) /\ bucket'[c].left < bucket[c].left =>
             \/ Tick \/ Restart
             \/ \E r \in early[c] : pc[r] \in {"failure", "success"} /\ pc'[r] = "idle"]_vars

\* No session is opened by a password that had been changed before its login began,
\* however long the login is under way and whatever changes meanwhile.
NoStaleLogin ==
    \A t \in Tokens : sessions[t].matched >= sessions[t].began

\* A lockout ends: neither those it refuses nor those under way keep it alive.
LockoutEnds == \A c \in Clients : loginLocked(c) ~> ~loginLocked(c)

-----------------------------------------------------------------------------
(* The inductive invariant behind the safety properties.                     *)

\* While a key is locked out, only the requests of `early' are under way; a
\* lockout outlasts the window, so that its last failure is not counted on.
LockoutInv(c) ==
    LET b == bucket[c]
    IN  /\ b.left > 0 => b.failures >= MaxFailures /\ early[c] = UnderWay(c)
        /\ b.failures >= MaxFailures => b.age > Window \/ b.age + b.left >= Lockout
        /\ b.failures >= MaxFailures /\ b.age <= Window =>
              b.failures + Cardinality(early[c]) <= MaxFailures - 1 + Cardinality(Requests)

VersionInv ==
    /\ \A r \in Requests :
          /\ began[r] <= password
          /\ pc[r] = "insert" => matched[r] >= began[r]

IInv ==
    /\ TypeOK /\ FailuresBounded /\ NoStaleLogin /\ VersionInv
    /\ \A c \in Clients : LockoutInv(c)
=============================================================================
