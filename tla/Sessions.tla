------------------------------ MODULE Sessions -------------------------------
(***************************************************************************)
(* Signing in and staying signed in: a driver's one-time code or an        *)
(* operator's password opens a session, whose refresh token is rotated by  *)
(* every refresh, until the session is revoked (api/routes_driver_auth.py, *)
(* api/routes_auth.py, security/session.py, core/deps.py,                  *)
(* db/repo/drivers.py).                                                    *)
(*                                                                         *)
(* One account and the one client that keeps its latest refresh token: the *)
(* driver's phone, or a browser whose tabs share a cookie jar.  Requests   *)
(* overlap, their answers and their processes can be lost.  Rate limits,   *)
(* passwords, second factors, the bodies of tokens, their expiry and the   *)
(* comparison of device names are left out: they refuse a request before   *)
(* it changes anything.  So are message operations and audit records,      *)
(* which these handlers write and never read.                              *)
(***************************************************************************)
EXTENDS Integers, Sequences, FiniteSets

CONSTANTS
    MaxRequests,    \* bound: requests that are made
    MaxChallenges,  \* bound: challenges that are made
    MaxAttempts     \* MAX_OTP_ATTEMPTS

ASSUME SessionsAssumption == {MaxRequests, MaxChallenges, MaxAttempts} \subseteq Nat \ {0}

VARIABLES
    account,        \* its kind, and whether it is active
    challenges,     \* the challenges of the driver's phone
    verification,   \* external: the provider waits for the code it has sent
    sessions,       \* the sessions of the account
    tokens,         \* the refresh tokens of its sessions
    held,           \* the token the client keeps, 0: none
    request,        \* the requests
    past            \* history: approvals, failed codes, sessions that were ended
                    \*   and those whose end was asked for, tokens presented and
                    \*   presented again

vars == <<account, challenges, verification, sessions, tokens, held, request, past>>

Kinds == {"driver_mobile", "unregistered", "web"}
Requests == 1..MaxRequests

Idle == [pc |-> "idle", challenge |-> 0, attempts |-> 0, session |-> 0, token |-> 0, child |-> 0]
\* failed, overlapped and approved are history: codes denied, counts that met
\* another one, an approval.
NewChallenge == [status |-> "pending", attempts |-> 0, late |-> FALSE, failed |-> 0,
                 overlapped |-> FALSE, approved |-> FALSE]
NewSession == [revoked |-> FALSE]
\* orphan is history: the session was revoked when the token was made.
NewToken(s, parent, orphan) ==
    [session |-> s, parent |-> parent, consumed |-> FALSE, revoked |-> FALSE, orphan |-> orphan]

\* A client meets the server without a session, or with one.
Init ==
    /\ account \in [kind : Kinds, active : BOOLEAN]
    /\ challenges = <<>>
    /\ verification = FALSE
    /\ \/ held = 0 /\ sessions = <<>> /\ tokens = <<>>
       \/ /\ account.kind # "unregistered"
          /\ held = 1 /\ sessions = <<NewSession>> /\ tokens = <<NewToken(1, 0, FALSE)>>
    /\ request = [r \in Requests |-> Idle]
    /\ past = [approvals |-> 0, opened |-> 0, asked |-> {}, ended |-> {}, presented |-> {}, again |-> {}]

At(r, pc) == request[r].pc = pc
Goto(r, pc) == request' = [request EXCEPT ![r].pc = pc]
Turn(r) == At(r, "idle") /\ \A q \in Requests : q < r => ~At(q, "idle")

-----------------------------------------------------------------------------
(* The driver asks for a code and enters it                                *)

\* A code is sent, or the provider's failure is logged and the request goes on.
RequestOtp(r) ==
    /\ account.kind # "web" /\ Turn(r)
    /\ Len(challenges) + Cardinality({q \in Requests : At(q, "challenge")}) < MaxChallenges
    /\ verification' \in {verification, TRUE}
    /\ Goto(r, "challenge")
    /\ UNCHANGED <<account, challenges, sessions, tokens, held, past>>

\* A challenge is made, and the request accepted, whether a code was sent or not.
CreateChallenge(r) ==
    /\ At(r, "challenge")
    /\ challenges' = Append(challenges, NewChallenge)
    /\ Goto(r, "over")
    /\ UNCHANGED <<account, verification, sessions, tokens, held, past>>

\* The newest challenge, whatever its status.
VerifyOtp(r) ==
    /\ account.kind # "web" /\ Turn(r)
    /\ LET c == Len(challenges)
       IN IF c = 0 \/ challenges[c].status \in {"locked", "verified"}
          THEN Goto(r, "over")
          ELSE request' = [request EXCEPT ![r].challenge = c,
                             ![r].pc = IF challenges[c].late THEN "expire" ELSE "check"]
    /\ UNCHANGED <<account, challenges, verification, sessions, tokens, held, past>>

SetStatus(r, status) ==
    challenges' = [challenges EXCEPT ![request[r].challenge].status = status]

ExpireChallenge(r) ==
    /\ At(r, "expire")
    /\ SetStatus(r, "expired")
    /\ Goto(r, "over")
    /\ UNCHANGED <<account, verification, sessions, tokens, held, past>>

\* The provider approves a code once; a phone no driver has is turned away after
\* that, and its challenge stays pending.
CodeApproved(r) ==
    /\ At(r, "check") /\ verification
    /\ verification' = FALSE
    /\ past' = [past EXCEPT !.approvals = @ + 1]
    /\ challenges' = [challenges EXCEPT ![request[r].challenge].approved = TRUE]
    /\ Goto(r, IF account.kind = "unregistered" THEN "over" ELSE "mark")
    /\ UNCHANGED <<account, sessions, tokens, held>>

CodeDenied(r) ==
    /\ At(r, "check") /\ verification
    /\ challenges' = [challenges EXCEPT ![request[r].challenge].failed = @ + 1]
    /\ Goto(r, "load")
    /\ UNCHANGED <<account, verification, sessions, tokens, held, past>>

\* The provider is away, or waits for no code.
CheckFails(r) ==
    /\ At(r, "check")
    /\ Goto(r, "over")
    /\ UNCHANGED <<account, challenges, verification, sessions, tokens, held, past>>

LoadChallenge(r) ==
    /\ At(r, "load")
    /\ LET row == challenges[request[r].challenge]
       IN IF row.late
          THEN SetStatus(r, "expired") /\ Goto(r, "over")
          ELSE /\ request' = [request EXCEPT ![r].pc = "count", ![r].attempts = row.attempts]
               /\ UNCHANGED challenges
    /\ UNCHANGED <<account, verification, sessions, tokens, held, past>>

\* Mutant of Counted: one more attempt than allowed.
CountedTooFar(row, n) ==
    [row EXCEPT !.attempts = n + 1,
                !.status = IF n > MaxAttempts THEN "locked" ELSE @,
                !.overlapped = @ \/ row.attempts # n]

\* The count that was read, plus one, locks the challenge at the limit.
Counted(row, n) ==
    [row EXCEPT !.attempts = n + 1,
                !.status = IF n + 1 >= MaxAttempts THEN "locked" ELSE @,
                !.overlapped = @ \/ row.attempts # n]

IncrementAttempts(r) ==
    /\ At(r, "count")
    /\ challenges' = [challenges EXCEPT ![request[r].challenge] = Counted(@, request[r].attempts)]
    /\ Goto(r, "over")
    /\ UNCHANGED <<account, verification, sessions, tokens, held, past>>

MarkVerified(r) ==
    /\ At(r, "mark")
    /\ SetStatus(r, "verified")
    /\ Goto(r, "session")
    /\ UNCHANGED <<account, verification, sessions, tokens, held, past>>

-----------------------------------------------------------------------------
(* Sessions                                                                *)

\* An operator's password is right and the account active: an inactive driver
\* is not refused a session.
Login(r) ==
    /\ account.kind = "web" /\ Turn(r)
    /\ Goto(r, IF account.active THEN "session" ELSE "over")
    /\ UNCHANGED <<account, challenges, verification, sessions, tokens, held, past>>

\* The session and its first refresh token are one commit.
CreateSession(r) ==
    /\ At(r, "session")
    /\ sessions' = Append(sessions, NewSession)
    /\ tokens' = Append(tokens, NewToken(Len(sessions) + 1, 0, FALSE))
    /\ past' = [past EXCEPT !.opened = @ + 1]
    /\ request' = [request EXCEPT ![r].pc = "answer", ![r].child = Len(tokens) + 1]
    /\ UNCHANGED <<account, challenges, verification, held>>

\* The session and every refresh token of it that is not revoked yet.
RevokeSession(s) ==
    /\ sessions' = [sessions EXCEPT ![s].revoked = TRUE]
    /\ tokens' = [t \in DOMAIN tokens |->
                    IF tokens[t].session = s THEN [tokens[t] EXCEPT !.revoked = TRUE] ELSE tokens[t]]


Spent(t) == tokens[t].revoked \/ tokens[t].consumed

\* The token's row is locked, and the commit that stamps the session's last use
\* gives the lock away.  A token that is spent ends the whole session.
BeginRefresh(r) ==
    /\ Turn(r) /\ held # 0
    /\ LET s == tokens[held].session
           presented == [past EXCEPT !.presented = @ \cup {held},
                                     !.again = @ \cup ({held} \cap past.presented)]
       IN IF Spent(held)
          THEN /\ RevokeSession(s)
               /\ past' = [presented EXCEPT !.ended = @ \cup {s}]
               /\ Goto(r, "over")
          ELSE /\ past' = presented
               /\ request' = [request EXCEPT
                    ![r].pc = IF sessions[s].revoked THEN "over" ELSE "rotate",
                    ![r].session = s, ![r].token = held]
               /\ UNCHANGED <<sessions, tokens>>
    /\ UNCHANGED <<account, challenges, verification, held>>

\* Mutant of Successor: the next token is a copy of the row it follows.
CopyOf(t) == [tokens[t] EXCEPT !.consumed = TRUE, !.parent = t]

Successor(t) == NewToken(tokens[t].session, t, sessions[tokens[t].session].revoked)

\* The token read is consumed and the next one inserted in one commit, without
\* another look at either row.
RotateToken(r) ==
    /\ At(r, "rotate")
    /\ LET t == request[r].token
       IN tokens' = Append([tokens EXCEPT ![t].consumed = TRUE], Successor(t))
    /\ request' = [request EXCEPT ![r].pc = "answer", ![r].child = Len(tokens) + 1]
    /\ UNCHANGED <<account, challenges, verification, sessions, held, past>>

\* A refresh looks at the driver after the rotation.
RefusedTooLate(r) ==
    account.kind = "driver_mobile" /\ request[r].token # 0 /\ ~account.active

Answer(r) ==
    /\ At(r, "answer")
    /\ IF RefusedTooLate(r)
       THEN Goto(r, "over") /\ UNCHANGED held
       ELSE Goto(r, "answered") /\ held' = request[r].child
    /\ UNCHANGED <<account, challenges, verification, sessions, tokens, past>>

EndsSession(s) ==
    RevokeSession(s) /\ past' = [past EXCEPT !.asked = @ \cup {s}, !.ended = @ \cup {s}]

\* A driver's client sends its refresh token.
RevokeDriverSession(r) ==
    /\ account.kind = "driver_mobile" /\ Turn(r) /\ held # 0
    /\ EndsSession(tokens[held].session)
    /\ Goto(r, "over")
    /\ UNCHANGED <<account, challenges, verification, held>>

\* A browser sends its access token, which a revoked session no longer carries.
\* The answer, unless it is lost, clears the cookies.
Logout(r) ==
    /\ account.kind = "web" /\ Turn(r) /\ held # 0
    /\ LET s == tokens[held].session
       IN IF sessions[s].revoked \/ ~account.active
          THEN UNCHANGED <<sessions, tokens, past, held>>
          ELSE EndsSession(s) /\ held' \in {held, 0}
    /\ Goto(r, "over")
    /\ UNCHANGED <<account, challenges, verification>>

\* Any other request of the client: its session is read, and then stamped.
Validate(r) ==
    /\ Turn(r) /\ held # 0
    /\ LET s == tokens[held].session
       IN request' = [request EXCEPT ![r].session = s,
                        ![r].pc = IF sessions[s].revoked THEN "over" ELSE "stamp"]
    /\ UNCHANGED <<account, challenges, verification, sessions, tokens, held, past>>

\* Mutant of Stamped: the row is written as it was read.
StampedWhole(row) == [revoked |-> FALSE]

\* The time of the last use is not modelled, and no other column is written.
Stamped(row) == row

\* The request goes on if the account is active.
Stamp(r) ==
    /\ At(r, "stamp")
    /\ sessions' = [sessions EXCEPT ![request[r].session] = Stamped(@)]
    /\ Goto(r, "over")
    /\ UNCHANGED <<account, challenges, verification, tokens, held, past>>

-----------------------------------------------------------------------------
(* The surroundings                                                        *)

\* The process, its connection, or the answer on its way.
Lose(r) ==
    /\ request[r].pc \notin {"idle", "over", "answered", "lost"}
    /\ Goto(r, "lost")
    /\ UNCHANGED <<account, challenges, verification, sessions, tokens, held, past>>

\* Drivers and operators are switched off and on by imports and administrators.
SetActive ==
    /\ account.kind # "unregistered"
    /\ account' = [account EXCEPT !.active = ~@]
    /\ UNCHANGED <<challenges, verification, sessions, tokens, held, request, past>>

\* Five minutes pass.
ChallengeExpires(c) ==
    /\ c = Len(challenges) /\ ~challenges[c].late
    /\ challenges' = [challenges EXCEPT ![c].late = TRUE]
    /\ UNCHANGED <<account, verification, sessions, tokens, held, request, past>>

Next ==
    \/ \E r \in Requests :
        \/ RequestOtp(r) \/ CreateChallenge(r)
        \/ VerifyOtp(r) \/ ExpireChallenge(r)
        \/ CodeApproved(r) \/ CodeDenied(r) \/ CheckFails(r)
        \/ LoadChallenge(r) \/ IncrementAttempts(r) \/ MarkVerified(r)
        \/ Login(r) \/ CreateSession(r)
        \/ BeginRefresh(r) \/ RotateToken(r) \/ Answer(r)
        \/ RevokeDriverSession(r) \/ Logout(r)
        \/ Validate(r) \/ Stamp(r)
        \/ Lose(r)
    \/ SetActive
    \/ \E c \in 1..MaxChallenges : ChallengeExpires(c)

Spec == Init /\ [][Next]_vars

-----------------------------------------------------------------------------
(* Properties                                                              *)

TypeOK ==
    /\ account.kind \in Kinds /\ account.active \in BOOLEAN
    /\ \A c \in DOMAIN challenges :
        challenges[c].status \in {"pending", "verified", "expired", "locked"}
    /\ \A t \in DOMAIN tokens : tokens[t].session \in DOMAIN sessions
    /\ held \in 0..Len(tokens)

Children(t) == {u \in DOMAIN tokens : tokens[u].parent = t}
Raced(s) == \E t \in DOMAIN tokens : tokens[t].session = s /\ Cardinality(Children(t)) > 1
Usable(t) == ~Spent(t) /\ ~sessions[tokens[t].session].revoked

\* A session that was ended stays ended, and for a reason: somebody asked for it,
\* or one of its tokens was presented twice.  A token that a refresh under way
\* still added to it leads nowhere.
EndedForGood ==
    /\ TypeOK
    /\ \A s \in past.ended : sessions[s].revoked
    /\ \A s \in DOMAIN sessions : sessions[s].revoked =>
        \/ s \in past.asked
        \/ \E t \in past.again : tokens[t].session = s
    /\ \A t \in DOMAIN tokens : tokens[t].orphan => Children(t) = {}

\* Unless two refreshes of one token overlapped, a session has one usable token
\* at most.  And the token the client keeps can be used, unless its session was
\* ended or a refresh with it has not been answered: it is under way, was lost,
\* or was refused after the rotation because the driver was inactive.
HolderCanGoOn ==
    /\ \A s \in DOMAIN sessions :
        Raced(s) \/ Cardinality({t \in DOMAIN tokens : tokens[t].session = s /\ Usable(t)}) <= 1
    /\ (held # 0 /\ ~sessions[tokens[held].session].revoked) =>
        \/ Usable(held)
        \/ \E r \in Requests : request[r].token = held /\ request[r].pc \in {"answer", "over", "lost"}

\* A driver has no more sessions than the provider has approved codes, a challenge
\* is verified only after an approval, and a challenge with fewer failures counted
\* than were denied has lost one to a request that counted at the same time, or
\* has a request that is still counting, was lost, or came too late to count.
LoginIsEarned ==
    /\ account.kind # "web" => past.opened <= past.approvals
    /\ account.kind = "unregistered" => sessions = <<>>
    /\ \A c \in DOMAIN challenges :
        LET row == challenges[c]
        IN /\ row.status = "verified" => row.approved
           /\ row.attempts <= row.failed
           /\ \/ row.attempts = row.failed \/ row.overlapped \/ row.late
              \/ \E r \in Requests : request[r].challenge = c /\ request[r].pc \in {"load", "count", "lost"}
           /\ (row.attempts >= MaxAttempts /\ ~row.approved /\ ~row.late) => row.status = "locked"
==============================================================================
