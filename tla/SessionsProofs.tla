--------------------------- MODULE SessionsProofs ---------------------------
(***************************************************************************)
(* Theorems about Sessions, for any number of requests, challenges and     *)
(* attempts.                                                               *)
(*                                                                         *)
(* EndInv follows a session to its end, HoldInv the tokens to the client   *)
(* that keeps the latest, LoginInv the codes to the sessions they open.    *)
(***************************************************************************)
EXTENDS Sessions, SequenceTheorems, FiniteSetTheorems, TLAPS

ChallengeRecords ==
   [status : {"pending", "verified", "expired", "locked"}, attempts : Nat, late : BOOLEAN,
    failed : Nat, overlapped : BOOLEAN, approved : BOOLEAN]
SessionRecords == [revoked : BOOLEAN]
TokenRecords ==
   [session : Nat, parent : Nat, consumed : BOOLEAN, revoked : BOOLEAN, orphan : BOOLEAN]
RequestRecords ==
   [pc : {"idle", "challenge", "expire", "check", "load", "count", "mark", "session", "rotate",
          "answer", "stamp", "over", "answered", "lost"},
    challenge : Nat, attempts : Nat, session : Nat, token : Nat, child : Nat]
PastRecords ==
   [approvals : Nat, opened : Nat, asked : SUBSET Nat, ended : SUBSET Nat,
    presented : SUBSET Nat, again : SUBSET Nat]

OnChallenge == {"expire", "check", "load", "count", "mark"}

\* A request refers to rows that are there.
RequestFits(x) ==
   /\ x.pc \in OnChallenge => x.challenge \in 1..Len(challenges)
   /\ x.pc = "stamp" => x.session \in 1..Len(sessions)
   /\ x.token <= Len(tokens) /\ x.child <= Len(tokens)
   /\ x.pc = "rotate" => x.token # 0
   /\ x.pc = "answer" => x.child # 0

\* A token belongs to a session and follows an earlier one, or none.
TokensFit ==
   \A t \in 1..Len(tokens) : tokens[t].session \in 1..Len(sessions) /\ tokens[t].parent < t

AccountTyped == account \in [kind : Kinds, active : BOOLEAN]

ChallengesTyped == challenges \in Seq(ChallengeRecords)

TokensTyped ==
   /\ sessions \in Seq(SessionRecords) /\ tokens \in Seq(TokenRecords) /\ TokensFit
   /\ held \in 0..Len(tokens)

RequestsTyped ==
   /\ request \in [Requests -> RequestRecords]
   /\ \A r \in Requests : RequestFits(request[r])

PastTyped ==
   /\ past \in PastRecords
   /\ past.ended \subseteq 1..Len(sessions) /\ past.again \subseteq 1..Len(tokens)

Typed == AccountTyped /\ ChallengesTyped /\ TokensTyped /\ RequestsTyped /\ PastTyped
-----------------------------------------------------------------------------
(* The end of a session. *)

SessionOf(t) == tokens[t].session

EndedAreRevoked == \A s \in past.ended : sessions[s].revoked

Blamed(s) == s \in past.asked \/ \E t \in past.again : SessionOf(t) = s
RevokedForAReason == \A s \in 1..Len(sessions) : sessions[s].revoked => Blamed(s)

\* A token is consumed by one who presented it, and revoked with its session.
SpentIsKnown ==
   \A t \in 1..Len(tokens) :
      /\ tokens[t].consumed => t \in past.presented
      /\ tokens[t].revoked => sessions[SessionOf(t)].revoked

\* A refresh never begins with a token that was added to a revoked session.
RotationIsKnown ==
   \A r \in Requests : request[r].pc = "rotate" =>
      request[r].token \in past.presented /\ ~tokens[request[r].token].orphan

OrphansLeadNowhere ==
   \A t \in 1..Len(tokens) : tokens[t].orphan =>
      /\ sessions[SessionOf(t)].revoked
      /\ \A u \in 1..Len(tokens) : tokens[u].parent # t

EndInv == /\ EndedAreRevoked /\ RevokedForAReason /\ SpentIsKnown
          /\ RotationIsKnown /\ OrphansLeadNowhere
-----------------------------------------------------------------------------
(* The client's token. *)

\* Two tokens follow one of the session's.
Forked(s) ==
   \E t, u, v \in 1..Len(tokens) :
      SessionOf(t) = s /\ u # v /\ tokens[u].parent = t /\ tokens[v].parent = t

\* Unless it has forked, a session has one token that is not consumed.
ForkedOrOneLeft ==
   \A t, u \in 1..Len(tokens) :
      (SessionOf(t) = SessionOf(u) /\ ~tokens[t].consumed /\ ~tokens[u].consumed /\ t # u)
         => Forked(SessionOf(t))

ConsumedIsFollowed ==
   \A t \in 1..Len(tokens) : tokens[t].consumed =>
      \E u \in 1..Len(tokens) : tokens[u].parent = t

\* A token on its way to the client has never been used.
AnswersAreFresh ==
   \A r \in Requests : request[r].pc = "answer" =>
      /\ request[r].child # held /\ ~tokens[request[r].child].consumed
      /\ \A q \in Requests :
            /\ request[q].token # request[r].child
            /\ request[q].pc = "answer" /\ q # r => request[q].child # request[r].child

\* The token the client keeps was consumed by a refresh it has no answer of.
Unanswered(t) ==
   \E r \in Requests : request[r].token = t /\ request[r].pc \in {"answer", "over", "lost"}
HeldOrUnanswered == (held # 0 /\ tokens[held].consumed) => Unanswered(held)

HoldInv == ForkedOrOneLeft /\ ConsumedIsFollowed /\ AnswersAreFresh /\ HeldOrUnanswered
-----------------------------------------------------------------------------
(* The codes. *)

\* Requests that were let in and have not opened their session yet.
Entering == {r \in Requests : request[r].pc \in {"mark", "session"}}

OpenedAreApproved ==
   account.kind # "web" => past.opened + Cardinality(Entering) <= past.approvals

StrangersStayOut == account.kind = "unregistered" => Entering = {} /\ sessions = <<>>

\* Requests whose code was denied and that have not counted it yet.
Counting(c) ==
   {r \in Requests : request[r].challenge = c /\ request[r].pc \in {"load", "count"}}

\* What is about to be written to a challenge is so.
WritesAreEarned ==
   \A r \in Requests : LET row == challenges[request[r].challenge] IN
      /\ request[r].pc = "mark" => row.approved
      /\ request[r].pc = "expire" => row.late
      /\ request[r].pc = "count" =>
            request[r].attempts + Cardinality(Counting(request[r].challenge)) <= row.failed

Lost(c) == \E r \in Requests : request[r].challenge = c /\ request[r].pc = "lost"

RowIsCounted(c) ==
   LET row == challenges[c] IN
      /\ row.status = "verified" => row.approved
      /\ row.attempts + Cardinality(Counting(c)) <= row.failed
      /\ \/ row.attempts + Cardinality(Counting(c)) = row.failed
         \/ row.overlapped \/ row.late \/ Lost(c)
      /\ (row.attempts >= MaxAttempts /\ ~row.approved /\ ~row.late) => row.status = "locked"
RowsAreCounted == \A c \in 1..Len(challenges) : RowIsCounted(c)

LoginInv == OpenedAreApproved /\ StrangersStayOut /\ WritesAreEarned /\ RowsAreCounted
-----------------------------------------------------------------------------
(* Sequences and sets. *)

LEMMA SeqFacts ==
   ASSUME NEW S, NEW s \in Seq(S)
   PROVE  /\ Len(s) \in Nat /\ DOMAIN s = 1..Len(s)
          /\ \A i \in 1..Len(s) : s[i] \in S
OBVIOUS

LEMMA AppendFacts ==
   ASSUME NEW S, NEW s \in Seq(S), NEW x \in S
   PROVE  /\ Append(s, x) \in Seq(S)
          /\ Len(Append(s, x)) = Len(s) + 1
          /\ \A i \in 1..Len(s) : Append(s, x)[i] = s[i]
          /\ Append(s, x)[Len(s) + 1] = x
OBVIOUS

LEMMA ReplaceFacts ==
   ASSUME NEW S, NEW s \in Seq(S), NEW k \in 1..Len(s), NEW x \in S
   PROVE  /\ [s EXCEPT ![k] = x] \in Seq(S)
          /\ Len([s EXCEPT ![k] = x]) = Len(s)
          /\ \A i \in 1..Len(s) : i # k => [s EXCEPT ![k] = x][i] = s[i]
          /\ [s EXCEPT ![k] = x][k] = x
OBVIOUS

\* A function over the indices of a sequence is a sequence of the same length.
LEMMA MapFacts ==
   ASSUME NEW S, NEW n \in Nat, NEW f, DOMAIN f = 1..n, f = [i \in 1..n |-> f[i]],
          \A i \in 1..n : f[i] \in S
   PROVE  f \in Seq(S) /\ Len(f) = n
<1>1. f \in [1..n -> S]
  OBVIOUS
<1>2. f \in Seq(S)
  BY <1>1, SeqDef
<1> QED
  BY <1>1, <1>2

LEMMA CardSub ==
   ASSUME NEW B, IsFiniteSet(B), NEW A, A \subseteq B
   PROVE  /\ IsFiniteSet(A) /\ Cardinality(A) \in Nat /\ Cardinality(B) \in Nat
          /\ Cardinality(A) <= Cardinality(B)
BY FS_Subset, FS_CardinalityType

LEMMA CardLess ==
   ASSUME NEW B, IsFiniteSet(B), NEW x \in B
   PROVE  /\ IsFiniteSet(B \ {x}) /\ Cardinality(B \ {x}) = Cardinality(B) - 1
          /\ Cardinality(B) \in Nat /\ Cardinality(B \ {x}) \in Nat
BY FS_RemoveElement, FS_CardinalityType

LEMMA CardAddNew ==
   ASSUME NEW B, IsFiniteSet(B), NEW x, x \notin B
   PROVE  /\ IsFiniteSet(B \cup {x}) /\ Cardinality(B \cup {x}) = Cardinality(B) + 1
          /\ Cardinality(B) \in Nat
BY FS_AddElement, FS_CardinalityType

LEMMA TwoMembers ==
   ASSUME NEW B, IsFiniteSet(B)
   PROVE  Cardinality(B) > 1 <=> \E a, b \in B : a # b
<1>1. ASSUME NEW a \in B, NEW b \in B, a # b PROVE Cardinality(B) > 1
  <2>1. Cardinality(B \ {a}) = Cardinality(B) - 1 /\ IsFiniteSet(B \ {a})
    BY CardLess
  <2>2. b \in B \ {a}
    BY <1>1
  <2>3. /\ Cardinality((B \ {a}) \ {b}) = Cardinality(B \ {a}) - 1
        /\ Cardinality((B \ {a}) \ {b}) \in Nat
    BY <2>1, <2>2, CardLess
  <2> QED
    BY <2>1, <2>3, CardLess
<1>2. ASSUME \A a, b \in B : a = b PROVE Cardinality(B) <= 1
  <2>1. CASE B = {}
    BY <2>1, FS_EmptySet
  <2>2. CASE B # {}
    <3>1. PICK a \in B : TRUE
      BY <2>2
    <3>2. B \ {a} = {}
      BY <1>2, <3>1
    <3>3. Cardinality(B \ {a}) = Cardinality(B) - 1 /\ Cardinality(B) \in Nat
      BY <3>1, CardLess
    <3>4. Cardinality(B \ {a}) = 0
      BY <3>2, FS_EmptySet
    <3> QED
      BY <3>3, <3>4
  <2> QED
    BY <2>1, <2>2
<1>3. Cardinality(B) \in Nat
  BY FS_CardinalityType
<1> QED
  BY <1>1, <1>2, <1>3

LEMMA RequestsAreFinite == IsFiniteSet(Requests) /\ MaxRequests \in Nat
<1>1. MaxRequests \in Nat
  BY SessionsAssumption
<1> QED
  BY <1>1, FS_Interval DEF Requests
-----------------------------------------------------------------------------
(* What a step does to its request. *)

Becomes(r, t) == t \in RequestRecords /\ request' = [request EXCEPT ![r] = t]

\* The request refers to what it referred to.
Moves(r, t) ==
   /\ Becomes(r, t)
   /\ t.challenge = request[r].challenge /\ t.attempts = request[r].attempts
   /\ t.session = request[r].session /\ t.token = request[r].token
   /\ t.child = request[r].child

Steps == {"challenge", "expire", "check", "load", "count", "mark", "session", "rotate",
          "answer", "stamp", "over", "answered", "lost"}

LEMMA RequestRecord ==
   ASSUME Typed, NEW r \in Requests
   PROVE  request[r] \in RequestRecords /\ RequestFits(request[r])
BY DEF Typed, RequestsTyped

LEMMA Replaced ==
   ASSUME Typed, NEW r \in Requests, NEW t, Becomes(r, t)
   PROVE  /\ request' \in [Requests -> RequestRecords]
          /\ request'[r] = t
          /\ \A q \in Requests : q # r => request'[q] = request[q]
BY DEF Typed, RequestsTyped, Becomes

LEMMA GotoEffect ==
   ASSUME Typed, NEW r \in Requests, NEW pc \in Steps, Goto(r, pc)
   PROVE  \E t : Moves(r, t) /\ t.pc = pc
<1>1. PICK x \in RequestRecords : x = request[r]
  BY RequestRecord
<1> DEFINE t == [x EXCEPT !.pc = pc]
<1>2. request' = [request EXCEPT ![r] = t]
  BY <1>1 DEF Goto, Typed, RequestsTyped
<1>3. /\ t \in RequestRecords /\ t.pc = pc /\ t.challenge = x.challenge
      /\ t.attempts = x.attempts /\ t.session = x.session /\ t.token = x.token /\ t.child = x.child
  BY <1>1 DEF RequestRecords, Steps
<1> HIDE DEF t
<1> QED
  BY <1>1, <1>2, <1>3 DEF Moves, Becomes

LEMMA VerifyEffect ==
   ASSUME Typed, NEW r \in Requests, VerifyOtp(r)
   PROVE  \E t : /\ Becomes(r, t)
                 /\ t.token = request[r].token /\ t.child = request[r].child
                 /\ \/ t.pc = "over" /\ t.challenge = request[r].challenge
                    \/ /\ t.challenge \in 1..Len(challenges)
                       /\ \/ t.pc = "check"
                          \/ t.pc = "expire" /\ challenges[t.challenge].late
<1>1. PICK x \in RequestRecords : x = request[r]
  BY RequestRecord
<1>2. PICK c \in Nat : c = Len(challenges)
  BY SeqFacts DEF Typed, ChallengesTyped
<1>3. CASE c = 0 \/ challenges[c].status \in {"locked", "verified"}
  <2>1. Goto(r, "over") /\ "over" \in Steps
    BY <1>2, <1>3 DEF VerifyOtp, Steps
  <2>2. PICK t : Moves(r, t) /\ t.pc = "over"
    BY <2>1, GotoEffect
  <2> QED
    BY <2>2 DEF Moves
<1>4. CASE ~(c = 0 \/ challenges[c].status \in {"locked", "verified"})
  <2> DEFINE pc == IF challenges[c].late THEN "expire" ELSE "check"
             t == [x EXCEPT !.challenge = c, !.pc = pc]
  <2>1. request' = [request EXCEPT ![r].challenge = c, ![r].pc = pc]
    BY <1>2, <1>4 DEF VerifyOtp
  <2>2. request' = [request EXCEPT ![r] = t]
    BY <1>1, <2>1 DEF Typed, RequestsTyped
  <2>3. pc \in {"expire", "check"} /\ (pc = "expire" => challenges[c].late)
    OBVIOUS
  <2> HIDE DEF pc
  <2>4. /\ t \in RequestRecords /\ t.pc = pc /\ t.challenge = c
        /\ t.token = x.token /\ t.child = x.child
    BY <1>1, <1>2, <2>3 DEF RequestRecords
  <2> HIDE DEF t
  <2>5. c \in 1..Len(challenges)
    BY <1>2, <1>4
  <2>6. Becomes(r, t) /\ t.challenge \in 1..Len(challenges)
    BY <2>2, <2>4, <2>5 DEF Becomes
  <2>7. t.pc = "check" \/ (t.pc = "expire" /\ challenges[t.challenge].late)
    BY <2>3, <2>4
  <2> QED
    BY <1>1, <2>4, <2>6, <2>7
<1> QED
  BY <1>3, <1>4

LEMMA LoadEffect ==
   ASSUME Typed, NEW r \in Requests, LoadChallenge(r), ~challenges[request[r].challenge].late
   PROVE  \E t : /\ Becomes(r, t) /\ t.pc = "count"
                 /\ t.challenge = request[r].challenge
                 /\ t.attempts = challenges[request[r].challenge].attempts
                 /\ t.token = request[r].token /\ t.child = request[r].child
<1>1. PICK x \in RequestRecords : x = request[r]
  BY RequestRecord
<1>2. PICK n \in Nat : n = challenges[request[r].challenge].attempts
  <2>1. request[r].challenge \in 1..Len(challenges)
    BY RequestRecord DEF LoadChallenge, At, RequestFits, OnChallenge
  <2>2. challenges[request[r].challenge] \in ChallengeRecords
    BY <2>1, SeqFacts DEF Typed, ChallengesTyped
  <2> QED
    BY <2>2 DEF ChallengeRecords
<1> DEFINE t == [x EXCEPT !.pc = "count", !.attempts = n]
<1>3. request' = [request EXCEPT ![r].pc = "count", ![r].attempts = n]
  BY <1>2 DEF LoadChallenge
<1>4. request' = [request EXCEPT ![r] = t]
  BY <1>1, <1>3 DEF Typed, RequestsTyped
<1>5. /\ t \in RequestRecords /\ t.pc = "count" /\ t.challenge = x.challenge /\ t.attempts = n
      /\ t.token = x.token /\ t.child = x.child
  BY <1>1, <1>2 DEF RequestRecords
<1> HIDE DEF t
<1> QED
  BY <1>1, <1>2, <1>4, <1>5 DEF Becomes

Takes(r, pc, s, k) ==
   request' = [request EXCEPT ![r] = [request[r] EXCEPT !.pc = pc, !.session = s, !.token = k]]

LEMMA HoldEffect ==
   ASSUME Typed, NEW r \in Requests, NEW pc \in Steps, NEW s \in Nat, NEW k \in Nat,
          Takes(r, pc, s, k)
   PROVE  \E t : /\ Becomes(r, t) /\ t.pc = pc /\ t.session = s /\ t.token = k
                 /\ t.challenge = request[r].challenge /\ t.child = request[r].child
<1>1. PICK x \in RequestRecords : x = request[r]
  BY RequestRecord
<1> DEFINE t == [x EXCEPT !.pc = pc, !.session = s, !.token = k]
<1>2. request' = [request EXCEPT ![r] = t]
  BY <1>1 DEF Typed, RequestsTyped, Takes
<1>3. /\ t \in RequestRecords /\ t.pc = pc /\ t.session = s /\ t.token = k
      /\ t.challenge = x.challenge /\ t.child = x.child
  BY <1>1 DEF RequestRecords, Steps
<1> HIDE DEF t
<1> QED
  BY <1>1, <1>2, <1>3 DEF Becomes

Reads(r, pc, s) ==
   request' = [request EXCEPT ![r] = [request[r] EXCEPT !.session = s, !.pc = pc]]

LEMMA ValidateEffect ==
   ASSUME Typed, NEW r \in Requests, NEW pc \in Steps, NEW s \in Nat,
          Reads(r, pc, s)
   PROVE  \E t : /\ Becomes(r, t) /\ t.pc = pc /\ t.session = s
                 /\ t.challenge = request[r].challenge
                 /\ t.token = request[r].token /\ t.child = request[r].child
<1>1. PICK x \in RequestRecords : x = request[r]
  BY RequestRecord
<1> DEFINE t == [x EXCEPT !.session = s, !.pc = pc]
<1>2. request' = [request EXCEPT ![r] = t]
  BY <1>1 DEF Typed, RequestsTyped, Reads
<1>3. /\ t \in RequestRecords /\ t.pc = pc /\ t.session = s
      /\ t.challenge = x.challenge /\ t.token = x.token /\ t.child = x.child
  BY <1>1 DEF RequestRecords, Steps
<1> HIDE DEF t
<1> QED
  BY <1>1, <1>2, <1>3 DEF Becomes

Brings(r, k) ==
   request' = [request EXCEPT ![r] = [request[r] EXCEPT !.pc = "answer", !.child = k]]

LEMMA ChildEffect ==
   ASSUME Typed, NEW r \in Requests, NEW k \in Nat,
          Brings(r, k)
   PROVE  \E t : /\ Becomes(r, t) /\ t.pc = "answer" /\ t.child = k
                 /\ t.challenge = request[r].challenge /\ t.token = request[r].token
<1>1. PICK x \in RequestRecords : x = request[r]
  BY RequestRecord
<1> DEFINE t == [x EXCEPT !.pc = "answer", !.child = k]
<1>2. request' = [request EXCEPT ![r] = t]
  BY <1>1 DEF Typed, RequestsTyped, Brings
<1>3. /\ t \in RequestRecords /\ t.pc = "answer" /\ t.child = k
      /\ t.challenge = x.challenge /\ t.token = x.token
  BY <1>1 DEF RequestRecords
<1> HIDE DEF t
<1> QED
  BY <1>1, <1>2, <1>3 DEF Becomes
-----------------------------------------------------------------------------
(* What a step does to the sessions and their tokens. *)

LEMMA TokenFacts ==
   ASSUME Typed
   PROVE  /\ Len(tokens) \in Nat /\ DOMAIN tokens = 1..Len(tokens)
          /\ Len(sessions) \in Nat /\ DOMAIN sessions = 1..Len(sessions)
          /\ \A t \in 1..Len(tokens) :
                /\ tokens[t] \in TokenRecords
                /\ SessionOf(t) \in 1..Len(sessions) /\ tokens[t].parent < t
          /\ \A s \in 1..Len(sessions) : sessions[s] \in SessionRecords
          /\ held # 0 => held \in 1..Len(tokens)
BY SeqFacts DEF Typed, TokensTyped, TokensFit, SessionOf

\* A session and its tokens are revoked, and nothing else changes.
Revoked(s) ==
   /\ Len(sessions') = Len(sessions) /\ sessions' \in Seq(SessionRecords)
   /\ Len(tokens') = Len(tokens) /\ tokens' \in Seq(TokenRecords)
   /\ sessions'[s].revoked
   /\ \A o \in 1..Len(sessions) : o # s => sessions'[o] = sessions[o]
   /\ \A t \in 1..Len(tokens) :
         /\ tokens'[t].session = tokens[t].session /\ tokens'[t].parent = tokens[t].parent
         /\ tokens'[t].consumed = tokens[t].consumed /\ tokens'[t].orphan = tokens[t].orphan
         /\ tokens'[t].revoked => tokens[t].revoked \/ tokens[t].session = s

LEMMA RevokeEffect ==
   ASSUME Typed, NEW s \in 1..Len(sessions), RevokeSession(s)
   PROVE  Revoked(s)
<1>1. PICK x \in SessionRecords : x = sessions[s]
  BY TokenFacts
<1> DEFINE y == [x EXCEPT !.revoked = TRUE]
<1>2. y \in SessionRecords /\ y.revoked = TRUE
  BY <1>1 DEF SessionRecords
<1>3. sessions' = [sessions EXCEPT ![s] = y]
  BY <1>1, TokenFacts DEF RevokeSession
<1> HIDE DEF y
<1>4. /\ Len(sessions') = Len(sessions) /\ sessions' \in Seq(SessionRecords)
      /\ sessions'[s].revoked
      /\ \A o \in 1..Len(sessions) : o # s => sessions'[o] = sessions[o]
  BY <1>2, <1>3, ReplaceFacts DEF Typed, TokensTyped
<1>5. tokens' = [t \in 1..Len(tokens) |->
                   IF tokens[t].session = s THEN [tokens[t] EXCEPT !.revoked = TRUE] ELSE tokens[t]]
  BY TokenFacts DEF RevokeSession
<1>6. ASSUME NEW t \in 1..Len(tokens)
      PROVE  /\ tokens'[t] \in TokenRecords
             /\ tokens'[t].session = tokens[t].session /\ tokens'[t].parent = tokens[t].parent
             /\ tokens'[t].consumed = tokens[t].consumed /\ tokens'[t].orphan = tokens[t].orphan
             /\ tokens'[t].revoked => tokens[t].revoked \/ tokens[t].session = s
  <2>1. PICK z \in TokenRecords : z = tokens[t]
    BY TokenFacts
  <2>2. tokens'[t] = IF z.session = s THEN [z EXCEPT !.revoked = TRUE] ELSE z
    BY <1>5, <2>1
  <2> QED
    BY <2>1, <2>2 DEF TokenRecords
<1>7. DOMAIN tokens' = 1..Len(tokens) /\ tokens' = [t \in 1..Len(tokens) |-> tokens'[t]]
  BY <1>5
<1>8. Len(tokens') = Len(tokens) /\ tokens' \in Seq(TokenRecords)
  BY <1>6, <1>7, TokenFacts, MapFacts
<1> QED
  BY <1>4, <1>6, <1>8 DEF Revoked

\* A session is added with its first token.
LEMMA CreateEffect ==
   ASSUME Typed, NEW r \in Requests, CreateSession(r)
   PROVE  /\ sessions' \in Seq(SessionRecords) /\ Len(sessions') = Len(sessions) + 1
          /\ \A s \in 1..Len(sessions) : sessions'[s] = sessions[s]
          /\ ~sessions'[Len(sessions) + 1].revoked
          /\ tokens' \in Seq(TokenRecords) /\ Len(tokens') = Len(tokens) + 1
          /\ \A t \in 1..Len(tokens) : tokens'[t] = tokens[t]
          /\ tokens'[Len(tokens) + 1] = NewToken(Len(sessions) + 1, 0, FALSE)
<1>1. NewSession \in SessionRecords /\ ~NewSession.revoked
  BY DEF NewSession, SessionRecords
<1> DEFINE n == NewToken(Len(sessions) + 1, 0, FALSE)
<1>2. n \in TokenRecords
  BY TokenFacts DEF NewToken, TokenRecords
<1>3. sessions' = Append(sessions, NewSession) /\ tokens' = Append(tokens, n)
  BY DEF CreateSession
<1> HIDE DEF n
<1>4. sessions \in Seq(SessionRecords) /\ tokens \in Seq(TokenRecords)
  BY DEF Typed, TokensTyped
<1>5. /\ sessions' \in Seq(SessionRecords) /\ Len(sessions') = Len(sessions) + 1
      /\ \A s \in 1..Len(sessions) : sessions'[s] = sessions[s]
      /\ sessions'[Len(sessions) + 1] = NewSession
  BY <1>1, <1>3, <1>4, AppendFacts
<1>6. /\ tokens' \in Seq(TokenRecords) /\ Len(tokens') = Len(tokens) + 1
      /\ \A t \in 1..Len(tokens) : tokens'[t] = tokens[t]
      /\ tokens'[Len(tokens) + 1] = n
  BY <1>2, <1>3, <1>4, AppendFacts
<1> QED
  BY <1>1, <1>5, <1>6 DEF n

\* A token is consumed and followed by another one of its session.
Followed(k) ==
   LET n == Len(tokens) + 1 IN
   /\ tokens' \in Seq(TokenRecords) /\ Len(tokens') = n
   /\ \A t \in 1..Len(tokens) : t # k => tokens'[t] = tokens[t]
   /\ tokens'[k].session = tokens[k].session /\ tokens'[k].parent = tokens[k].parent
   /\ tokens'[k].consumed /\ tokens'[k].revoked = tokens[k].revoked
   /\ tokens'[k].orphan = tokens[k].orphan
   /\ tokens'[n].session = tokens[k].session /\ tokens'[n].parent = k
   /\ ~tokens'[n].consumed /\ ~tokens'[n].revoked
   /\ tokens'[n].orphan = sessions[SessionOf(k)].revoked

LEMMA RotateEffect ==
   ASSUME Typed, NEW r \in Requests, RotateToken(r)
   PROVE  request[r].token \in 1..Len(tokens) /\ Followed(request[r].token)
<1>1. PICK k \in 1..Len(tokens) : k = request[r].token
  BY RequestRecord, TokenFacts DEF RotateToken, At, RequestFits, RequestRecords
<1>2. PICK z \in TokenRecords : z = tokens[k]
  BY TokenFacts
<1> DEFINE y == [z EXCEPT !.consumed = TRUE]
           n == Successor(k)
<1>3. /\ y \in TokenRecords /\ y.consumed /\ y.session = z.session /\ y.parent = z.parent
      /\ y.revoked = z.revoked /\ y.orphan = z.orphan
  BY <1>2 DEF TokenRecords
<1>4. PICK x \in SessionRecords : x = sessions[SessionOf(k)]
  BY TokenFacts
<1>5. n = NewToken(z.session, k, x.revoked)
  BY <1>2, <1>4 DEF Successor, SessionOf
<1>6. /\ n \in TokenRecords /\ n.session = z.session /\ n.parent = k
      /\ ~n.consumed /\ ~n.revoked /\ n.orphan = x.revoked
  BY <1>2, <1>4, <1>5, TokenFacts DEF NewToken, TokenRecords, SessionRecords
<1>7. tokens' = Append([tokens EXCEPT ![k] = y], n)
  BY <1>1, <1>2, TokenFacts DEF RotateToken
<1> HIDE DEF y, n
<1> DEFINE s == [tokens EXCEPT ![k] = y]
<1>8. /\ s \in Seq(TokenRecords) /\ Len(s) = Len(tokens)
      /\ \A i \in 1..Len(tokens) : i # k => s[i] = tokens[i]
      /\ s[k] = y
  BY <1>3, ReplaceFacts DEF Typed, TokensTyped
<1>9. tokens' = Append(s, n)
  BY <1>7
<1> HIDE DEF s
<1>10. /\ tokens' \in Seq(TokenRecords) /\ Len(tokens') = Len(tokens) + 1
       /\ \A i \in 1..Len(tokens) : tokens'[i] = s[i]
       /\ tokens'[Len(tokens) + 1] = n
  BY <1>6, <1>8, <1>9, AppendFacts
<1> QED
  BY <1>1, <1>2, <1>3, <1>4, <1>6, <1>8, <1>10 DEF Followed

-----------------------------------------------------------------------------
(* What a step does to a challenge. *)

LEMMA ChallengeFacts ==
   ASSUME Typed
   PROVE  /\ Len(challenges) \in Nat /\ DOMAIN challenges = 1..Len(challenges)
          /\ \A c \in 1..Len(challenges) : challenges[c] \in ChallengeRecords
          /\ \A r \in Requests : request[r].pc \in OnChallenge =>
                request[r].challenge \in 1..Len(challenges)
BY SeqFacts, RequestRecord DEF Typed, ChallengesTyped, RequestFits

\* One row is rewritten.
Rewrites(c, x) ==
   /\ c \in 1..Len(challenges)
   /\ x \in ChallengeRecords /\ challenges'[c] = x
   /\ challenges' \in Seq(ChallengeRecords) /\ Len(challenges') = Len(challenges)
   /\ \A o \in 1..Len(challenges) : o # c => challenges'[o] = challenges[o]

LEMMA RewriteFacts ==
   ASSUME Typed, NEW c \in 1..Len(challenges), NEW x \in ChallengeRecords,
          challenges' = [challenges EXCEPT ![c] = x]
   PROVE  Rewrites(c, x)
BY ReplaceFacts DEF Typed, ChallengesTyped, Rewrites

LEMMA SetStatusEffect ==
   ASSUME Typed, NEW r \in Requests, request[r].pc \in OnChallenge,
          NEW st \in {"verified", "expired"}, SetStatus(r, st)
   PROVE  \E x : /\ Rewrites(request[r].challenge, x) /\ x.status = st
                 /\ LET row == challenges[request[r].challenge] IN
                       /\ x.attempts = row.attempts /\ x.late = row.late /\ x.failed = row.failed
                       /\ x.overlapped = row.overlapped /\ x.approved = row.approved
<1>1. PICK c \in 1..Len(challenges) : c = request[r].challenge
  BY ChallengeFacts
<1>2. PICK row \in ChallengeRecords : row = challenges[c]
  BY ChallengeFacts
<1> DEFINE x == [row EXCEPT !.status = st]
<1>3. challenges' = [challenges EXCEPT ![c] = x]
  BY <1>1, <1>2, ChallengeFacts DEF SetStatus
<1>4. /\ x \in ChallengeRecords /\ x.status = st
      /\ x.attempts = row.attempts /\ x.late = row.late /\ x.failed = row.failed
      /\ x.overlapped = row.overlapped /\ x.approved = row.approved
  BY <1>2 DEF ChallengeRecords
<1> HIDE DEF x
<1>5. Rewrites(c, x)
  BY <1>3, <1>4, RewriteFacts
<1> QED
  BY <1>1, <1>2, <1>4, <1>5

LEMMA ApprovedEffect ==
   ASSUME Typed, NEW r \in Requests, CodeApproved(r)
   PROVE  \E x : /\ Rewrites(request[r].challenge, x) /\ x.approved
                 /\ LET row == challenges[request[r].challenge] IN
                       /\ x.attempts = row.attempts /\ x.late = row.late /\ x.failed = row.failed
                       /\ x.overlapped = row.overlapped /\ x.status = row.status
<1>1. PICK c \in 1..Len(challenges) : c = request[r].challenge
  BY ChallengeFacts DEF CodeApproved, At, OnChallenge
<1>2. PICK row \in ChallengeRecords : row = challenges[c]
  BY ChallengeFacts
<1> DEFINE x == [row EXCEPT !.approved = TRUE]
<1>3. challenges' = [challenges EXCEPT ![c] = x]
  BY <1>1, <1>2, ChallengeFacts DEF CodeApproved
<1>4. /\ x \in ChallengeRecords /\ x.status = row.status
      /\ x.attempts = row.attempts /\ x.late = row.late /\ x.failed = row.failed
      /\ x.overlapped = row.overlapped /\ x.approved
  BY <1>2 DEF ChallengeRecords
<1> HIDE DEF x
<1>5. Rewrites(c, x)
  BY <1>3, <1>4, RewriteFacts
<1> QED
  BY <1>1, <1>2, <1>4, <1>5

LEMMA DeniedEffect ==
   ASSUME Typed, NEW r \in Requests, CodeDenied(r)
   PROVE  \E x : /\ Rewrites(request[r].challenge, x)
                 /\ LET row == challenges[request[r].challenge] IN
                       /\ x.attempts = row.attempts /\ x.late = row.late
                       /\ x.failed = row.failed + 1 /\ x.approved = row.approved
                       /\ x.overlapped = row.overlapped /\ x.status = row.status
<1>1. PICK c \in 1..Len(challenges) : c = request[r].challenge
  BY ChallengeFacts DEF CodeDenied, At, OnChallenge
<1>2. PICK row \in ChallengeRecords : row = challenges[c]
  BY ChallengeFacts
<1>3. PICK n \in Nat : n = row.failed + 1
  BY <1>2 DEF ChallengeRecords
<1> DEFINE x == [row EXCEPT !.failed = n]
<1>4. challenges' = [challenges EXCEPT ![c] = x]
  BY <1>1, <1>2, <1>3, ChallengeFacts DEF CodeDenied
<1>5. /\ x \in ChallengeRecords /\ x.status = row.status
      /\ x.attempts = row.attempts /\ x.late = row.late /\ x.failed = n
      /\ x.overlapped = row.overlapped /\ x.approved = row.approved
  BY <1>2, <1>3 DEF ChallengeRecords
<1> HIDE DEF x
<1>6. Rewrites(c, x)
  BY <1>4, <1>5, RewriteFacts
<1> QED
  BY <1>1, <1>2, <1>3, <1>5, <1>6

LEMMA CountedEffect ==
   ASSUME Typed, NEW r \in Requests, IncrementAttempts(r)
   PROVE  \E x : /\ Rewrites(request[r].challenge, x)
                 /\ LET row == challenges[request[r].challenge]
                        n == request[r].attempts
                    IN /\ x.attempts = n + 1 /\ x.late = row.late /\ x.failed = row.failed
                       /\ x.approved = row.approved
                       /\ x.overlapped = (row.overlapped \/ row.attempts # n)
                       /\ x.status = IF n + 1 >= MaxAttempts THEN "locked" ELSE row.status
<1>1. PICK c \in 1..Len(challenges) : c = request[r].challenge
  BY ChallengeFacts DEF IncrementAttempts, At, OnChallenge
<1>2. PICK row \in ChallengeRecords : row = challenges[c]
  BY ChallengeFacts
<1>3. PICK n \in Nat : n = request[r].attempts
  BY RequestRecord DEF RequestRecords
<1>4. PICK m \in Nat : m = n + 1
  BY <1>3
<1>5. PICK o \in BOOLEAN : o = (row.overlapped \/ row.attempts # n)
  OBVIOUS
<1> DEFINE st == IF n + 1 >= MaxAttempts THEN "locked" ELSE row.status
           x == [row EXCEPT !.attempts = m, !.status = st, !.overlapped = o]
<1>6. st \in {"pending", "verified", "expired", "locked"}
  BY <1>2 DEF ChallengeRecords
<1>7. challenges' = [challenges EXCEPT ![c] = x]
  BY <1>1, <1>2, <1>3, <1>4, <1>5, ChallengeFacts DEF IncrementAttempts, Counted
<1>8. st = IF n + 1 >= MaxAttempts THEN "locked" ELSE row.status
  OBVIOUS
<1> HIDE DEF st
<1>9. /\ x \in ChallengeRecords /\ x.status = st
      /\ x.attempts = m /\ x.late = row.late /\ x.failed = row.failed
      /\ x.overlapped = o /\ x.approved = row.approved
  BY <1>2, <1>4, <1>5, <1>6 DEF ChallengeRecords
<1> HIDE DEF x
<1>10. Rewrites(c, x)
  BY <1>7, <1>9, RewriteFacts
<1> QED
  BY <1>1, <1>2, <1>3, <1>4, <1>5, <1>8, <1>9, <1>10

LEMMA LateEffect ==
   ASSUME Typed, NEW c \in 1..MaxChallenges, ChallengeExpires(c)
   PROVE  \E x : /\ Rewrites(c, x) /\ x.late
                 /\ LET row == challenges[c] IN
                       /\ x.attempts = row.attempts /\ x.failed = row.failed
                       /\ x.approved = row.approved
                       /\ x.overlapped = row.overlapped /\ x.status = row.status
<1>1. c \in 1..Len(challenges)
  BY ChallengeFacts DEF ChallengeExpires
<1>2. PICK row \in ChallengeRecords : row = challenges[c]
  BY <1>1, ChallengeFacts
<1> DEFINE x == [row EXCEPT !.late = TRUE]
<1>3. challenges' = [challenges EXCEPT ![c] = x]
  BY <1>1, <1>2, ChallengeFacts DEF ChallengeExpires
<1>4. /\ x \in ChallengeRecords /\ x.status = row.status
      /\ x.attempts = row.attempts /\ x.late /\ x.failed = row.failed
      /\ x.overlapped = row.overlapped /\ x.approved = row.approved
  BY <1>2 DEF ChallengeRecords
<1> HIDE DEF x
<1>5. Rewrites(c, x)
  BY <1>1, <1>3, <1>4, RewriteFacts
<1> QED
  BY <1>1, <1>2, <1>4, <1>5

LEMMA NewChallengeEffect ==
   ASSUME Typed, NEW r \in Requests, CreateChallenge(r)
   PROVE  /\ challenges' \in Seq(ChallengeRecords) /\ Len(challenges') = Len(challenges) + 1
          /\ \A c \in 1..Len(challenges) : challenges'[c] = challenges[c]
          /\ challenges'[Len(challenges) + 1] = NewChallenge
<1>1. NewChallenge \in ChallengeRecords
  BY DEF NewChallenge, ChallengeRecords
<1>2. challenges \in Seq(ChallengeRecords)
  BY DEF Typed, ChallengesTyped
<1>3. challenges' = Append(challenges, NewChallenge)
  BY DEF CreateChallenge
<1> QED
  BY <1>1, <1>2, <1>3, AppendFacts
-----------------------------------------------------------------------------
(* The types are kept. *)

Grows ==
   /\ Len(challenges') \in Nat /\ Len(challenges) <= Len(challenges')
   /\ Len(sessions') \in Nat /\ Len(sessions) <= Len(sessions')
   /\ Len(tokens') \in Nat /\ Len(tokens) <= Len(tokens')

LEMMA FitsStill ==
   ASSUME Typed, NEW r \in Requests, Grows
   PROVE  \A x : x = request[r] => RequestFits(x)'
<1>1. PICK x \in RequestRecords : x = request[r]
  BY RequestRecord
<1>2. RequestFits(x)
  BY <1>1, RequestRecord
<1>3. /\ Len(challenges) \in Nat /\ Len(sessions) \in Nat /\ Len(tokens) \in Nat
      /\ x.token \in Nat /\ x.child \in Nat
  BY <1>1, ChallengeFacts, TokenFacts DEF RequestRecords
<1>4. RequestFits(x)'
  BY <1>2, <1>3 DEF RequestFits, Grows
<1> QED
  BY <1>1, <1>4

LEMMA RequestsStayTyped ==
   ASSUME Typed, NEW r \in Requests, NEW t, Becomes(r, t), RequestFits(t)', Grows
   PROVE  RequestsTyped'
<1>1. /\ request' \in [Requests -> RequestRecords]
      /\ request'[r] = t
      /\ \A q \in Requests : q # r => request'[q] = request[q]
  BY Replaced
<1>2. ASSUME NEW q \in Requests PROVE RequestFits(request[q])'
  <2>1. CASE q = r
    BY <1>1, <2>1 DEF RequestFits
  <2>2. CASE q # r
    <3>1. PICK x : x = request[q]
      OBVIOUS
    <3>2. RequestFits(x)' /\ request'[q] = x
      BY <1>1, <2>2, <3>1, FitsStill
    <3> QED
      BY <3>2 DEF RequestFits
  <2> QED
    BY <2>1, <2>2
<1> QED
  BY <1>1, <1>2 DEF RequestsTyped

LEMMA GrowsWhenSame ==
   ASSUME Typed, UNCHANGED <<sessions, tokens>>,
          Len(challenges') \in Nat, Len(challenges) <= Len(challenges')
   PROVE  Grows
BY TokenFacts DEF Grows

\* A step that rewrites no row but a challenge's and leaves the rest alone.
LEMMA ChallengeStepTyped ==
   ASSUME Typed, NEW r \in Requests, NEW t, Becomes(r, t),
          UNCHANGED <<account, sessions, tokens, held>>,
          challenges' \in Seq(ChallengeRecords), Len(challenges) <= Len(challenges'),
          PastTyped', RequestFits(t)'
   PROVE  Typed'
<1>1. Grows
  <2>1. Len(challenges') \in Nat
    BY SeqFacts
  <2> QED
    BY <2>1, GrowsWhenSame
<1>2. RequestsTyped'
  BY <1>1, RequestsStayTyped
<1> QED
  BY <1>2 DEF Typed, AccountTyped, ChallengesTyped, TokensTyped, TokensFit

LEMMA PastUntouched ==
   ASSUME Typed, UNCHANGED <<past, sessions, tokens>> PROVE PastTyped'
BY DEF Typed, PastTyped

\* A step that only moves its request.
LEMMA MoveTyped ==
   ASSUME Typed, NEW r \in Requests, NEW t, Becomes(r, t),
          UNCHANGED <<account, challenges, sessions, tokens, held, past>>, RequestFits(t)
   PROVE  Typed'
<1>1. RequestFits(t)'
  BY DEF RequestFits
<1>2. challenges' \in Seq(ChallengeRecords) /\ Len(challenges) <= Len(challenges')
  BY ChallengeFacts DEF Typed, ChallengesTyped
<1> QED
  BY <1>1, <1>2, PastUntouched, ChallengeStepTyped

\* A request that moves on to pc fits when it did and pc asks for nothing new.
LEMMA MovedFits ==
   ASSUME Typed, NEW r \in Requests, NEW t, Moves(r, t),
          \/ t.pc \in {"challenge", "session", "over", "answered", "lost"}
          \/ t.pc \in OnChallenge /\ request[r].pc \in OnChallenge
   PROVE  RequestFits(t) /\ Becomes(r, t)
BY RequestRecord DEF Moves, RequestFits, OnChallenge

-----------------------------------------------------------------------------
(* What a step adds to the past. *)

LEMMA RefreshEffect ==
   ASSUME Typed, NEW r \in Requests, BeginRefresh(r)
   PROVE  /\ held \in 1..Len(tokens) /\ UNCHANGED <<account, challenges, held>>
          /\ past' \in PastRecords
          /\ past'.approvals = past.approvals /\ past'.opened = past.opened
          /\ past'.asked = past.asked /\ past'.presented = past.presented \cup {held}
          /\ past'.again = past.again \cup ({held} \cap past.presented)
          /\ \/ /\ Spent(held) /\ Revoked(SessionOf(held))
                /\ past'.ended = past.ended \cup {SessionOf(held)}
                /\ \E t : Moves(r, t) /\ t.pc = "over"
             \/ /\ ~Spent(held) /\ UNCHANGED <<sessions, tokens>> /\ past'.ended = past.ended
                /\ \E t : /\ Becomes(r, t) /\ t.token = held /\ t.child = request[r].child
                          /\ t.challenge = request[r].challenge
                          /\ \/ sessions[SessionOf(held)].revoked /\ t.pc = "over"
                             \/ ~sessions[SessionOf(held)].revoked /\ t.pc = "rotate"
<1>1. held \in 1..Len(tokens) /\ held \in Nat /\ UNCHANGED <<account, challenges, held>>
  BY TokenFacts DEF BeginRefresh
<1>2. PICK s \in 1..Len(sessions) : s = SessionOf(held)
  BY <1>1, TokenFacts
<1>3. PICK p \in PastRecords : p = past
  BY DEF Typed, PastTyped
<1>4. s \in Nat
  BY <1>2, TokenFacts
<1> DEFINE q == [p EXCEPT !.presented = @ \cup {held}, !.again = @ \cup ({held} \cap p.presented)]
<1>5. /\ q \in PastRecords /\ q.approvals = p.approvals /\ q.opened = p.opened
      /\ q.asked = p.asked /\ q.presented = p.presented \cup {held}
      /\ q.again = p.again \cup ({held} \cap p.presented) /\ q.ended = p.ended
  BY <1>1, <1>3 DEF PastRecords
<1>6. CASE Spent(held)
  <2>1. RevokeSession(s) /\ past' = [q EXCEPT !.ended = @ \cup {s}] /\ Goto(r, "over")
    BY <1>2, <1>3, <1>6 DEF BeginRefresh, SessionOf
  <2> HIDE DEF q
  <2>2. /\ past' \in PastRecords /\ past'.approvals = q.approvals /\ past'.opened = q.opened
        /\ past'.asked = q.asked /\ past'.presented = q.presented
        /\ past'.again = q.again /\ past'.ended = q.ended \cup {s}
    BY <1>4, <1>5, <2>1 DEF PastRecords
  <2>3. Revoked(s)
    BY <2>1, RevokeEffect
  <2>4. "over" \in Steps
    BY DEF Steps
  <2>5. \E t : Moves(r, t) /\ t.pc = "over"
    BY <2>1, <2>4, GotoEffect
  <2> QED
    BY <1>1, <1>2, <1>3, <1>5, <1>6, <2>2, <2>3, <2>5
<1>7. CASE ~Spent(held)
  <2> DEFINE pc == IF sessions[s].revoked THEN "over" ELSE "rotate"
  <2>1. /\ past' = q /\ UNCHANGED <<sessions, tokens>>
        /\ request' = [request EXCEPT ![r].pc = pc, ![r].session = s, ![r].token = held]
    BY <1>2, <1>3, <1>7 DEF BeginRefresh, SessionOf
  <2>2. pc \in Steps
    BY DEF Steps
  <2>3. pc = IF sessions[s].revoked THEN "over" ELSE "rotate"
    OBVIOUS
  <2> HIDE DEF pc, q
  <2>7. PICK k \in Nat : k = held
    BY <1>1
  <2>8. Takes(r, pc, s, k)
    BY <2>1, <2>7 DEF Typed, RequestsTyped, Takes
  <2>4. PICK t : /\ Becomes(r, t) /\ t.pc = pc /\ t.session = s /\ t.token = k
                 /\ t.challenge = request[r].challenge /\ t.child = request[r].child
    BY <1>4, <2>2, <2>7, <2>8, HoldEffect
  <2>5. (sessions[s].revoked /\ t.pc = "over") \/ (~sessions[s].revoked /\ t.pc = "rotate")
    BY <2>3, <2>4, <2>7
  <2> QED
    BY <1>1, <1>2, <1>3, <1>5, <1>7, <2>1, <2>4, <2>5, <2>7
<1> QED
  BY <1>6, <1>7

LEMMA EndEffect ==
   ASSUME Typed, NEW s \in 1..Len(sessions), EndsSession(s)
   PROVE  /\ Revoked(s)
          /\ past' \in PastRecords
          /\ past'.approvals = past.approvals /\ past'.opened = past.opened
          /\ past'.asked = past.asked \cup {s} /\ past'.ended = past.ended \cup {s}
          /\ past'.presented = past.presented /\ past'.again = past.again
<1>1. PICK p \in PastRecords : p = past
  BY DEF Typed, PastTyped
<1>2. s \in Nat
  BY TokenFacts
<1>3. past' = [p EXCEPT !.asked = @ \cup {s}, !.ended = @ \cup {s}]
  BY <1>1 DEF EndsSession
<1>4. /\ past' \in PastRecords
      /\ past'.approvals = p.approvals /\ past'.opened = p.opened
      /\ past'.asked = p.asked \cup {s} /\ past'.ended = p.ended \cup {s}
      /\ past'.presented = p.presented /\ past'.again = p.again
  BY <1>1, <1>2, <1>3 DEF PastRecords
<1> QED
  BY <1>1, <1>4, RevokeEffect DEF EndsSession

LEMMA CountEffect ==
   ASSUME Typed
   PROVE  /\ past' = [past EXCEPT !.approvals = @ + 1] =>
                /\ past' \in PastRecords /\ past'.approvals = past.approvals + 1
                /\ past'.opened = past.opened /\ past'.asked = past.asked
                /\ past'.ended = past.ended /\ past'.presented = past.presented
                /\ past'.again = past.again
          /\ past' = [past EXCEPT !.opened = @ + 1] =>
                /\ past' \in PastRecords /\ past'.opened = past.opened + 1
                /\ past'.approvals = past.approvals /\ past'.asked = past.asked
                /\ past'.ended = past.ended /\ past'.presented = past.presented
                /\ past'.again = past.again
<1>1. PICK p \in PastRecords : p = past
  BY DEF Typed, PastTyped
<1>2. past' = [p EXCEPT !.approvals = @ + 1] =>
                /\ past' \in PastRecords /\ past'.approvals = p.approvals + 1
                /\ past'.opened = p.opened /\ past'.asked = p.asked
                /\ past'.ended = p.ended /\ past'.presented = p.presented
                /\ past'.again = p.again
  BY <1>1 DEF PastRecords
<1>3. past' = [p EXCEPT !.opened = @ + 1] =>
                /\ past' \in PastRecords /\ past'.opened = p.opened + 1
                /\ past'.approvals = p.approvals /\ past'.asked = p.asked
                /\ past'.ended = p.ended /\ past'.presented = p.presented
                /\ past'.again = p.again
  BY <1>1 DEF PastRecords
<1> QED
  BY <1>1, <1>2, <1>3

\* A revoked session keeps its place, and its tokens theirs.
LEMMA RevokedTyped ==
   ASSUME Typed, NEW s \in 1..Len(sessions), Revoked(s)
   PROVE  /\ sessions' \in Seq(SessionRecords) /\ tokens' \in Seq(TokenRecords)
          /\ TokensFit'
<1>1. TokensFit'
  BY TokenFacts DEF Revoked, TokensFit, SessionOf
<1> QED
  BY <1>1 DEF Revoked

LEMMA GrowsWhenRevoked ==
   ASSUME Typed, NEW s \in 1..Len(sessions), Revoked(s), UNCHANGED challenges
   PROVE  Grows
BY TokenFacts, ChallengeFacts DEF Revoked, Grows

\* The steps of a login.
LEMMA CodeStepTyped ==
   ASSUME Typed, NEW r \in Requests,
          \/ RequestOtp(r) \/ CreateChallenge(r) \/ VerifyOtp(r) \/ ExpireChallenge(r)
          \/ CodeApproved(r) \/ CodeDenied(r) \/ CheckFails(r) \/ LoadChallenge(r)
          \/ IncrementAttempts(r) \/ MarkVerified(r)
   PROVE  Typed'
<1> USE DEF OnChallenge
<1>0. UNCHANGED <<account, sessions, tokens, held>>
  BY DEF RequestOtp, CreateChallenge, VerifyOtp, ExpireChallenge, CodeApproved, CodeDenied,
     CheckFails, LoadChallenge, IncrementAttempts, MarkVerified
\* A request that rewrites the row it holds and moves on.
<1>1. ASSUME NEW x, Rewrites(request[r].challenge, x), UNCHANGED past \/ PastTyped',
             NEW t, Becomes(r, t), RequestFits(t)
      PROVE  Typed'
  <2>1. RequestFits(t)'
    BY <1>0, <1>1 DEF RequestFits, Rewrites
  <2>2. challenges' \in Seq(ChallengeRecords) /\ Len(challenges) <= Len(challenges')
    BY <1>1, ChallengeFacts DEF Rewrites
  <2> QED
    BY <1>0, <1>1, <2>1, <2>2, PastUntouched, ChallengeStepTyped
<1>2. CASE RequestOtp(r)
  <2>1. Goto(r, "challenge") /\ "challenge" \in Steps
    BY <1>2 DEF RequestOtp, Steps
  <2>2. PICK t : Moves(r, t) /\ t.pc = "challenge"
    BY <2>1, GotoEffect
  <2>3. RequestFits(t) /\ Becomes(r, t)
    BY <2>2, MovedFits
  <2> QED
    BY <1>0, <1>2, <2>3, MoveTyped DEF RequestOtp
<1>3. CASE CreateChallenge(r)
  <2>1. Goto(r, "over") /\ "over" \in Steps
    BY <1>3 DEF CreateChallenge, Steps
  <2>2. PICK t : Moves(r, t) /\ t.pc = "over"
    BY <2>1, GotoEffect
  <2>3. RequestFits(t) /\ Becomes(r, t)
    BY <2>2, MovedFits
  <2>4. challenges' \in Seq(ChallengeRecords) /\ Len(challenges') = Len(challenges) + 1
    BY <1>3, NewChallengeEffect
  <2>5. RequestFits(t)'
    BY <1>0, <2>2, <2>3 DEF RequestFits
  <2>6. UNCHANGED past
    BY <1>3 DEF CreateChallenge
  <2> QED
    BY <1>0, <2>3, <2>4, <2>5, <2>6, PastUntouched, ChallengeFacts, ChallengeStepTyped
<1>4. CASE VerifyOtp(r)
  <2>1. PICK t : /\ Becomes(r, t)
                 /\ t.token = request[r].token /\ t.child = request[r].child
                 /\ \/ t.pc = "over" /\ t.challenge = request[r].challenge
                    \/ /\ t.challenge \in 1..Len(challenges)
                       /\ \/ t.pc = "check"
                          \/ t.pc = "expire" /\ challenges[t.challenge].late
    BY <1>4, VerifyEffect
  <2>2. RequestFits(t)
    BY <2>1, RequestRecord DEF RequestFits
  <2> QED
    BY <1>0, <1>4, <2>1, <2>2, MoveTyped DEF VerifyOtp
<1>5. CASE ExpireChallenge(r)
  <2>1. /\ Goto(r, "over") /\ "over" \in Steps /\ SetStatus(r, "expired") /\ UNCHANGED past
        /\ request[r].pc \in OnChallenge
    BY <1>5 DEF ExpireChallenge, Steps, At
  <2>2. PICK t : Moves(r, t) /\ t.pc = "over"
    BY <2>1, GotoEffect
  <2>3. RequestFits(t) /\ Becomes(r, t)
    BY <2>2, MovedFits
  <2>4. PICK x : Rewrites(request[r].challenge, x)
    BY <2>1, SetStatusEffect
  <2> QED
    BY <1>1, <2>1, <2>3, <2>4
<1>6. CASE CodeApproved(r)
  <2> DEFINE pc == IF account.kind = "unregistered" THEN "over" ELSE "mark"
  <2>1. Goto(r, pc) /\ request[r].pc = "check" /\ past' = [past EXCEPT !.approvals = @ + 1]
    BY <1>6 DEF CodeApproved, At
  <2>2. pc \in {"over", "mark"} /\ pc \in Steps
    BY DEF Steps
  <2> HIDE DEF pc
  <2>3. PICK t : Moves(r, t) /\ t.pc = pc
    BY <2>1, <2>2, GotoEffect
  <2>4. RequestFits(t) /\ Becomes(r, t)
    BY <2>1, <2>2, <2>3, MovedFits
  <2>5. PICK x : Rewrites(request[r].challenge, x)
    BY <1>6, ApprovedEffect
  <2>6. PastTyped'
    BY <1>0, <2>1, CountEffect DEF Typed, PastTyped
  <2> QED
    BY <1>1, <2>4, <2>5, <2>6
<1>7. CASE CodeDenied(r)
  <2>1. Goto(r, "load") /\ "load" \in Steps /\ UNCHANGED past /\ request[r].pc = "check"
    BY <1>7 DEF CodeDenied, Steps, At
  <2>2. PICK t : Moves(r, t) /\ t.pc = "load"
    BY <2>1, GotoEffect
  <2>3. RequestFits(t) /\ Becomes(r, t)
    BY <2>1, <2>2, MovedFits
  <2>4. PICK x : Rewrites(request[r].challenge, x)
    BY <1>7, DeniedEffect
  <2> QED
    BY <1>1, <2>1, <2>3, <2>4
<1>8. CASE CheckFails(r)
  <2>1. Goto(r, "over") /\ "over" \in Steps
    BY <1>8 DEF CheckFails, Steps
  <2>2. PICK t : Moves(r, t) /\ t.pc = "over"
    BY <2>1, GotoEffect
  <2>3. RequestFits(t) /\ Becomes(r, t)
    BY <2>2, MovedFits
  <2> QED
    BY <1>0, <1>8, <2>3, MoveTyped DEF CheckFails
<1>9. CASE LoadChallenge(r) /\ challenges[request[r].challenge].late
  <2>1. /\ Goto(r, "over") /\ "over" \in Steps /\ SetStatus(r, "expired") /\ UNCHANGED past
        /\ request[r].pc \in OnChallenge
    BY <1>9 DEF LoadChallenge, Steps, At
  <2>2. PICK t : Moves(r, t) /\ t.pc = "over"
    BY <2>1, GotoEffect
  <2>3. RequestFits(t) /\ Becomes(r, t)
    BY <2>2, MovedFits
  <2>4. PICK x : Rewrites(request[r].challenge, x)
    BY <2>1, SetStatusEffect
  <2> QED
    BY <1>1, <2>1, <2>3, <2>4
<1>10. CASE LoadChallenge(r) /\ ~challenges[request[r].challenge].late
  <2>1. PICK t : /\ Becomes(r, t) /\ t.pc = "count"
                 /\ t.challenge = request[r].challenge
                 /\ t.token = request[r].token /\ t.child = request[r].child
    BY <1>10, LoadEffect
  <2>2. RequestFits(t)
    BY <1>10, <2>1, RequestRecord DEF RequestFits, LoadChallenge, At
  <2> QED
    BY <1>0, <1>10, <2>1, <2>2, MoveTyped DEF LoadChallenge
<1>11. CASE IncrementAttempts(r)
  <2>1. Goto(r, "over") /\ "over" \in Steps /\ UNCHANGED past
    BY <1>11 DEF IncrementAttempts, Steps
  <2>2. PICK t : Moves(r, t) /\ t.pc = "over"
    BY <2>1, GotoEffect
  <2>3. RequestFits(t) /\ Becomes(r, t)
    BY <2>2, MovedFits
  <2>4. PICK x : Rewrites(request[r].challenge, x)
    BY <1>11, CountedEffect
  <2> QED
    BY <1>1, <2>1, <2>3, <2>4
<1>12. CASE MarkVerified(r)
  <2>1. /\ Goto(r, "session") /\ "session" \in Steps /\ SetStatus(r, "verified") /\ UNCHANGED past
        /\ request[r].pc \in OnChallenge
    BY <1>12 DEF MarkVerified, Steps, At
  <2>2. PICK t : Moves(r, t) /\ t.pc = "session"
    BY <2>1, GotoEffect
  <2>3. RequestFits(t) /\ Becomes(r, t)
    BY <2>2, MovedFits
  <2>4. PICK x : Rewrites(request[r].challenge, x)
    BY <2>1, SetStatusEffect
  <2> QED
    BY <1>1, <2>1, <2>3, <2>4
<1> QED
  BY <1>2, <1>3, <1>4, <1>5, <1>6, <1>7, <1>8, <1>9, <1>10, <1>11, <1>12

\* A client's request that moves to pc, after its session, or not.
LEMMA LoginStep ==
   ASSUME Typed, NEW r \in Requests, Login(r) \/ Lose(r) \/ Stamp(r)
   PROVE  \E t : /\ Moves(r, t)
                 /\ \/ t.pc = "session" /\ Login(r) /\ account.kind = "web"
                    \/ t.pc = "lost" /\ Lose(r)
                    \/ t.pc = "over" /\ (Login(r) \/ Stamp(r))
<1>1. CASE Login(r) /\ account.active
  <2>1. Goto(r, "session") /\ "session" \in Steps /\ account.kind = "web"
    BY <1>1 DEF Login, Steps
  <2>2. PICK t : Moves(r, t) /\ t.pc = "session"
    BY <2>1, GotoEffect
  <2> QED
    BY <1>1, <2>1, <2>2
<1>2. CASE Login(r) /\ ~account.active
  <2>1. Goto(r, "over") /\ "over" \in Steps
    BY <1>2 DEF Login, Steps
  <2>2. PICK t : Moves(r, t) /\ t.pc = "over"
    BY <2>1, GotoEffect
  <2> QED
    BY <1>2, <2>2
<1>3. CASE Lose(r)
  <2>1. Goto(r, "lost") /\ "lost" \in Steps
    BY <1>3 DEF Lose, Steps
  <2>2. PICK t : Moves(r, t) /\ t.pc = "lost"
    BY <2>1, GotoEffect
  <2> QED
    BY <1>3, <2>2
<1>4. CASE Stamp(r)
  <2>1. Goto(r, "over") /\ "over" \in Steps
    BY <1>4 DEF Stamp, Steps
  <2>2. PICK t : Moves(r, t) /\ t.pc = "over"
    BY <2>1, GotoEffect
  <2> QED
    BY <1>4, <2>2
<1> QED
  BY <1>1, <1>2, <1>3, <1>4

\* Nothing but the time of the last use is stamped.
LEMMA StampEffect ==
   ASSUME Typed, NEW r \in Requests, Stamp(r)
   PROVE  UNCHANGED <<account, challenges, sessions, tokens, held, past>>
<1>1. sessions' = [sessions EXCEPT ![request[r].session] = sessions[request[r].session]]
  BY DEF Stamp, Stamped
<1>2. sessions' = sessions
  BY <1>1, TokenFacts DEF Typed, TokensTyped
<1> QED
  BY <1>2 DEF Stamp

LEMMA ValidateStep ==
   ASSUME Typed, NEW r \in Requests, Validate(r)
   PROVE  \E t : /\ Becomes(r, t) /\ t.challenge = request[r].challenge
                 /\ t.token = request[r].token /\ t.child = request[r].child
                 /\ t.session \in 1..Len(sessions) /\ t.pc \in {"over", "stamp"}
<1>1. PICK s \in 1..Len(sessions) : s = SessionOf(held)
  BY TokenFacts DEF Validate
<1> DEFINE pc == IF sessions[s].revoked THEN "over" ELSE "stamp"
<1>2. Reads(r, pc, s)
  BY <1>1 DEF Validate, SessionOf, Reads, Typed, RequestsTyped
<1>3. pc \in Steps /\ s \in Nat /\ pc \in {"over", "stamp"}
  BY <1>1, TokenFacts DEF Steps
<1> HIDE DEF pc
<1>4. \E t : /\ Becomes(r, t) /\ t.pc = pc /\ t.session = s
             /\ t.challenge = request[r].challenge
             /\ t.token = request[r].token /\ t.child = request[r].child
  BY <1>2, <1>3, ValidateEffect
<1> QED
  BY <1>1, <1>3, <1>4

LEMMA CreateStep ==
   ASSUME Typed, NEW r \in Requests, CreateSession(r)
   PROVE  \E t : /\ Becomes(r, t) /\ t.pc = "answer" /\ t.child = Len(tokens) + 1
                 /\ t.challenge = request[r].challenge /\ t.token = request[r].token
<1>1. PICK k \in Nat : k = Len(tokens) + 1
  BY TokenFacts
<1>2. Brings(r, k)
  BY <1>1 DEF CreateSession, Brings, Typed, RequestsTyped
<1> QED
  BY <1>1, <1>2, ChildEffect

LEMMA RotateStep ==
   ASSUME Typed, NEW r \in Requests, RotateToken(r)
   PROVE  \E t : /\ Becomes(r, t) /\ t.pc = "answer" /\ t.child = Len(tokens) + 1
                 /\ t.challenge = request[r].challenge /\ t.token = request[r].token
<1>1. PICK k \in Nat : k = Len(tokens) + 1
  BY TokenFacts
<1>2. Brings(r, k)
  BY <1>1 DEF RotateToken, Brings, Typed, RequestsTyped
<1> QED
  BY <1>1, <1>2, ChildEffect

\* The answer arrives and the client keeps its token, or it is a refusal.
LEMMA AnswerEffect ==
   ASSUME Typed, NEW r \in Requests, Answer(r)
   PROVE  /\ UNCHANGED <<account, challenges, sessions, tokens, past>>
          /\ request[r].pc = "answer" /\ request[r].child \in 1..Len(tokens)
          /\ \E t : /\ Moves(r, t)
                    /\ \/ t.pc = "over" /\ UNCHANGED held
                       \/ t.pc = "answered" /\ held' = request[r].child
<1>1. request[r].pc = "answer" /\ UNCHANGED <<account, challenges, sessions, tokens, past>>
  BY DEF Answer, At
<1>2. request[r].child \in 1..Len(tokens)
  BY <1>1, RequestRecord, TokenFacts DEF RequestRecords, RequestFits
<1>3. CASE RefusedTooLate(r)
  <2>1. Goto(r, "over") /\ "over" \in Steps /\ UNCHANGED held
    BY <1>3 DEF Answer, Steps
  <2>2. PICK t : Moves(r, t) /\ t.pc = "over"
    BY <2>1, GotoEffect
  <2> QED
    BY <1>1, <1>2, <2>1, <2>2
<1>4. CASE ~RefusedTooLate(r)
  <2>1. Goto(r, "answered") /\ "answered" \in Steps /\ held' = request[r].child
    BY <1>4 DEF Answer, Steps
  <2>2. PICK t : Moves(r, t) /\ t.pc = "answered"
    BY <2>1, GotoEffect
  <2> QED
    BY <1>1, <1>2, <2>1, <2>2
<1> QED
  BY <1>3, <1>4

\* A session is ended on request, or was ended already.
LEMMA LogoutEffect ==
   ASSUME Typed, NEW r \in Requests, RevokeDriverSession(r) \/ Logout(r)
   PROVE  /\ UNCHANGED <<account, challenges>> /\ held' \in {held, 0}
          /\ \E t : Moves(r, t) /\ t.pc = "over"
          /\ \/ UNCHANGED <<sessions, tokens, past>>
             \/ \E s \in 1..Len(sessions) : EndsSession(s)
<1>1. Goto(r, "over") /\ "over" \in Steps
  BY DEF RevokeDriverSession, Logout, Steps
<1>2. \E t : Moves(r, t) /\ t.pc = "over"
  BY <1>1, GotoEffect
<1>3. PICK s \in 1..Len(sessions) : s = tokens[held].session
  BY TokenFacts DEF RevokeDriverSession, Logout, SessionOf
<1>4. UNCHANGED <<sessions, tokens, past>> \/ EndsSession(s)
  BY <1>3 DEF RevokeDriverSession, Logout
<1>5. UNCHANGED <<account, challenges>> /\ held' \in {held, 0}
  BY DEF RevokeDriverSession, Logout
<1> QED
  BY <1>2, <1>3, <1>4, <1>5

LEMMA SessionStepTyped ==
   ASSUME Typed, NEW r \in Requests,
          \/ Login(r) \/ CreateSession(r) \/ BeginRefresh(r) \/ RotateToken(r) \/ Answer(r)
          \/ RevokeDriverSession(r) \/ Logout(r) \/ Validate(r) \/ Stamp(r) \/ Lose(r)
   PROVE  Typed'
<1> USE DEF OnChallenge
<1>1. CASE Login(r) \/ Lose(r) \/ Stamp(r)
  <2>1. PICK t : Moves(r, t) /\ t.pc \in {"session", "lost", "over"}
    BY <1>1, LoginStep
  <2>2. RequestFits(t) /\ Becomes(r, t)
    BY <2>1, MovedFits
  <2>3. UNCHANGED <<account, challenges, sessions, tokens, held, past>>
    BY <1>1, StampEffect DEF Login, Lose
  <2> QED
    BY <2>2, <2>3, MoveTyped
<1>2. CASE Validate(r)
  <2>1. PICK t : /\ Becomes(r, t) /\ t.challenge = request[r].challenge
                 /\ t.token = request[r].token /\ t.child = request[r].child
                 /\ t.session \in 1..Len(sessions) /\ t.pc \in {"over", "stamp"}
    BY <1>2, ValidateStep
  <2>2. RequestFits(t)
    BY <2>1, RequestRecord DEF RequestFits
  <2> QED
    BY <1>2, <2>1, <2>2, MoveTyped DEF Validate
<1>3. CASE CreateSession(r)
  <2>1. /\ sessions' \in Seq(SessionRecords) /\ Len(sessions') = Len(sessions) + 1
        /\ tokens' \in Seq(TokenRecords) /\ Len(tokens') = Len(tokens) + 1
        /\ \A t \in 1..Len(tokens) : tokens'[t] = tokens[t]
        /\ tokens'[Len(tokens) + 1] = NewToken(Len(sessions) + 1, 0, FALSE)
    BY <1>3, CreateEffect
  <2>2. PICK t : /\ Becomes(r, t) /\ t.pc = "answer" /\ t.child = Len(tokens) + 1
                 /\ t.challenge = request[r].challenge /\ t.token = request[r].token
    BY <1>3, CreateStep
  <2>3. UNCHANGED <<account, challenges, held>> /\ past' = [past EXCEPT !.opened = @ + 1]
    BY <1>3 DEF CreateSession
  <2>4. Grows
    BY <2>1, <2>3, TokenFacts, ChallengeFacts DEF Grows
  <2>5. request[r].token \in Nat
    BY RequestRecord DEF RequestRecords
  <2>6. RequestFits(t)'
    BY <2>1, <2>2, <2>5, RequestRecord, TokenFacts DEF RequestFits
  <2>7. RequestsTyped'
    BY <2>2, <2>4, <2>6, RequestsStayTyped
  <2>8. TokensFit'
    <3> SUFFICES ASSUME NEW u \in 1..(Len(tokens) + 1)
                 PROVE  /\ tokens'[u].session \in 1..(Len(sessions) + 1)
                        /\ tokens'[u].parent < u
      BY <2>1 DEF TokensFit
    <3>1. CASE u \in 1..Len(tokens)
      BY <2>1, <3>1, TokenFacts DEF SessionOf
    <3>2. CASE u = Len(tokens) + 1
      BY <2>1, <3>2, TokenFacts DEF NewToken
    <3>3. Len(tokens) \in Nat
      BY TokenFacts
    <3>4. u \in 1..Len(tokens) \/ u = Len(tokens) + 1
      BY <3>3
    <3> QED
      BY <3>1, <3>2, <3>4
  <2>9. TokensTyped'
    BY <2>1, <2>3, <2>8, TokenFacts DEF TokensTyped, Typed
  <2>10. PastTyped'
    BY <2>1, <2>3, CountEffect, TokenFacts DEF PastTyped, Typed
  <2> QED
    BY <2>3, <2>7, <2>9, <2>10 DEF Typed, AccountTyped, ChallengesTyped
<1>4. CASE RotateToken(r)
  <2>1. PICK k \in 1..Len(tokens) : k = request[r].token /\ Followed(k)
    BY <1>4, RotateEffect
  <2>2. PICK t : /\ Becomes(r, t) /\ t.pc = "answer" /\ t.child = Len(tokens) + 1
                 /\ t.challenge = request[r].challenge /\ t.token = request[r].token
    BY <1>4, RotateStep
  <2>3. UNCHANGED <<account, challenges, sessions, held, past>>
    BY <1>4 DEF RotateToken
  <2>4. tokens' \in Seq(TokenRecords) /\ Len(tokens') = Len(tokens) + 1
    BY <2>1 DEF Followed
  <2>5. Grows
    BY <2>3, <2>4, TokenFacts, ChallengeFacts DEF Grows
  <2>6. RequestFits(t)'
    BY <2>1, <2>2, <2>4, TokenFacts DEF RequestFits
  <2>7. RequestsTyped'
    BY <2>2, <2>5, <2>6, RequestsStayTyped
  <2>8. TokensFit'
    <3> SUFFICES ASSUME NEW u \in 1..(Len(tokens) + 1)
                 PROVE  tokens'[u].session \in 1..Len(sessions) /\ tokens'[u].parent < u
      BY <2>3, <2>4 DEF TokensFit
    <3>1. CASE u \in 1..Len(tokens)
      BY <2>1, <3>1, TokenFacts DEF SessionOf, Followed
    <3>2. CASE u = Len(tokens) + 1
      BY <2>1, <3>2, TokenFacts DEF SessionOf, Followed
    <3>3. Len(tokens) \in Nat
      BY TokenFacts
    <3>4. u \in 1..Len(tokens) \/ u = Len(tokens) + 1
      BY <3>3
    <3> QED
      BY <3>1, <3>2, <3>4
  <2>9. TokensTyped'
    BY <2>3, <2>4, <2>8, TokenFacts DEF TokensTyped, Typed
  <2>10. PastTyped'
    BY <2>3, <2>4, TokenFacts DEF PastTyped, Typed
  <2> QED
    BY <2>3, <2>7, <2>9, <2>10 DEF Typed, AccountTyped, ChallengesTyped
<1>5. CASE Answer(r)
  <2>1. UNCHANGED <<account, challenges, sessions, tokens, past>> /\ request[r].child \in 1..Len(tokens)
    BY <1>5, AnswerEffect
  <2>2. PICK t : /\ Moves(r, t)
                 /\ \/ t.pc = "over" /\ UNCHANGED held
                    \/ t.pc = "answered" /\ held' = request[r].child
    BY <1>5, AnswerEffect
  <2>3. RequestFits(t) /\ Becomes(r, t)
    BY <2>2, MovedFits
  <2>4. RequestFits(t)' /\ Grows
    BY <2>1, <2>3, TokenFacts, ChallengeFacts DEF RequestFits, Grows
  <2>5. RequestsTyped'
    BY <2>3, <2>4, RequestsStayTyped
  <2>6. TokensTyped'
    BY <2>1, <2>2, TokenFacts DEF TokensTyped, Typed, TokensFit
  <2> QED
    BY <2>1, <2>5, <2>6 DEF Typed, AccountTyped, ChallengesTyped, PastTyped
<1>6. ASSUME NEW s \in 1..Len(sessions), Revoked(s), UNCHANGED <<account, challenges>>,
             held' \in {held, 0}, NEW t, Becomes(r, t), RequestFits(t),
             past' \in PastRecords, past'.ended = past.ended \cup {s},
             past'.again \subseteq past.again \cup {held}, held \in 1..Len(tokens)
      PROVE  Typed'
  <2>1. Grows
    BY <1>6, GrowsWhenRevoked
  <2>2. Len(sessions') = Len(sessions) /\ Len(tokens') = Len(tokens)
    BY <1>6 DEF Revoked
  <2>3. RequestFits(t)'
    BY <1>6, <2>2 DEF RequestFits
  <2>4. RequestsTyped'
    BY <1>6, <2>1, <2>3, RequestsStayTyped
  <2>5. TokensTyped'
    BY <1>6, <2>2, RevokedTyped, TokenFacts DEF TokensTyped, Typed
  <2>6. PastTyped'
    BY <1>6, <2>2 DEF PastTyped, Typed
  <2> QED
    BY <1>6, <2>4, <2>5, <2>6 DEF Typed, AccountTyped, ChallengesTyped
<1>7. CASE BeginRefresh(r)
  <2>1. /\ held \in 1..Len(tokens) /\ UNCHANGED <<account, challenges, held>>
        /\ past' \in PastRecords /\ past'.again = past.again \cup ({held} \cap past.presented)
    BY <1>7, RefreshEffect
  <2>2. CASE Spent(held)
    <3>1. Revoked(SessionOf(held)) /\ past'.ended = past.ended \cup {SessionOf(held)}
          /\ \E t : Moves(r, t) /\ t.pc = "over"
      BY <1>7, <2>2, RefreshEffect
    <3>2. PICK t : Moves(r, t) /\ t.pc = "over"
      BY <3>1
    <3>3. PICK s \in 1..Len(sessions) : s = SessionOf(held)
      BY <2>1, TokenFacts
    <3>4. RequestFits(t) /\ Becomes(r, t)
      BY <3>2, MovedFits
    <3> QED
      BY <1>6, <2>1, <3>1, <3>3, <3>4
  <2>3. CASE ~Spent(held)
    <3>1. UNCHANGED <<sessions, tokens>> /\ past'.ended = past.ended
      BY <1>7, <2>3, RefreshEffect
    <3>2. PICK t : /\ Becomes(r, t) /\ t.token = held /\ t.child = request[r].child
                   /\ t.pc \in {"over", "rotate"}
      BY <1>7, <2>3, RefreshEffect
    <3>3. RequestFits(t)
      BY <2>1, <3>2, RequestRecord, TokenFacts DEF RequestFits
    <3>4. RequestFits(t)' /\ Grows
      BY <2>1, <3>1, <3>3, TokenFacts, ChallengeFacts DEF RequestFits, Grows
    <3>5. RequestsTyped'
      BY <3>2, <3>4, RequestsStayTyped
    <3>6. PastTyped'
      BY <2>1, <3>1 DEF PastTyped, Typed
    <3> QED
      BY <2>1, <3>1, <3>5, <3>6 DEF Typed, AccountTyped, ChallengesTyped, TokensTyped, TokensFit
  <2> QED
    BY <2>2, <2>3
<1>8. CASE RevokeDriverSession(r) \/ Logout(r)
  <2>1. UNCHANGED <<account, challenges>> /\ held' \in {held, 0}
    BY <1>8, LogoutEffect
  <2>2. PICK t : Moves(r, t) /\ t.pc = "over"
    BY <1>8, LogoutEffect
  <2>3. RequestFits(t) /\ Becomes(r, t)
    BY <2>2, MovedFits
  <2>4. CASE UNCHANGED <<sessions, tokens, past>>
    <3>1. RequestFits(t)' /\ Grows
      BY <2>1, <2>3, <2>4, TokenFacts, ChallengeFacts DEF RequestFits, Grows
    <3>2. RequestsTyped'
      BY <2>3, <3>1, RequestsStayTyped
    <3>3. TokensTyped'
      BY <2>1, <2>4, TokenFacts DEF TokensTyped, Typed, TokensFit
    <3> QED
      BY <2>1, <2>4, <3>2, <3>3 DEF Typed, AccountTyped, ChallengesTyped, PastTyped
  <2>5. ASSUME NEW s \in 1..Len(sessions), EndsSession(s) PROVE Typed'
    <3>1. /\ Revoked(s) /\ past' \in PastRecords /\ past'.ended = past.ended \cup {s}
          /\ past'.again = past.again
      BY <2>5, EndEffect
    <3>2. held \in 1..Len(tokens)
      BY <1>8, TokenFacts DEF RevokeDriverSession, Logout
    <3> QED
      BY <1>6, <2>1, <2>3, <3>1, <3>2
  <2> QED
    BY <1>8, <2>4, <2>5, LogoutEffect
<1> QED
  BY <1>1, <1>2, <1>3, <1>4, <1>5, <1>7, <1>8

LEMMA NextTyped == Typed /\ [Next]_vars => Typed'
<1> SUFFICES ASSUME Typed, [Next]_vars PROVE Typed'
  OBVIOUS
<1>1. ASSUME UNCHANGED <<sessions, tokens, held, request, past>>,
             Len(challenges') = Len(challenges), AccountTyped', ChallengesTyped'
      PROVE  Typed'
  BY <1>1 DEF Typed, TokensTyped, TokensFit, RequestsTyped, RequestFits, PastTyped
<1>2. CASE SetActive
  <2>1. AccountTyped'
    BY <1>2 DEF SetActive, Typed, AccountTyped
  <2> QED
    BY <1>1, <1>2, <2>1 DEF SetActive, Typed, ChallengesTyped
<1>3. ASSUME NEW c \in 1..MaxChallenges, ChallengeExpires(c) PROVE Typed'
  <2>1. PICK x : Rewrites(c, x)
    BY <1>3, LateEffect
  <2> QED
    BY <1>1, <1>3, <2>1 DEF ChallengeExpires, Rewrites, Typed, AccountTyped, ChallengesTyped
<1>4. CASE UNCHANGED vars
  BY <1>4 DEF vars, Typed, AccountTyped, ChallengesTyped, TokensTyped, TokensFit,
     RequestsTyped, RequestFits, PastTyped
<1> QED
  BY <1>2, <1>3, <1>4, CodeStepTyped, SessionStepTyped DEF Next

LEMMA InitTyped == Init => Typed
<1> SUFFICES ASSUME Init PROVE Typed
  OBVIOUS
<1>1. RequestsTyped
  <2>1. Idle \in RequestRecords
    BY DEF Idle, RequestRecords
  <2>2. Len(tokens) \in Nat
    BY DEF Init
  <2>3. RequestFits(Idle)
    BY <2>2 DEF Idle, RequestFits, OnChallenge
  <2> QED
    BY <2>1, <2>3 DEF Init, RequestsTyped
<1>2. TokensTyped
  <2>1. CASE held = 0 /\ sessions = <<>> /\ tokens = <<>>
    BY <2>1 DEF TokensTyped, TokensFit
  <2>2. CASE held = 1 /\ sessions = <<NewSession>> /\ tokens = <<NewToken(1, 0, FALSE)>>
    BY <2>2 DEF TokensTyped, TokensFit, NewSession, NewToken, SessionRecords, TokenRecords
  <2> QED
    BY <2>1, <2>2 DEF Init
<1>3. PastTyped
  BY DEF Init, PastTyped, PastRecords
<1> QED
  BY <1>1, <1>2, <1>3 DEF Init, Typed, AccountTyped, ChallengesTyped

\* The parts give the type invariant of the specification.
LEMMA TypedMeansTypeOK == Typed => TypeOK
<1> SUFFICES ASSUME Typed PROVE TypeOK
  OBVIOUS
<1>1. \A c \in DOMAIN challenges :
         challenges[c].status \in {"pending", "verified", "expired", "locked"}
  BY ChallengeFacts DEF ChallengeRecords
<1>2. \A t \in DOMAIN tokens : tokens[t].session \in DOMAIN sessions
  BY TokenFacts DEF SessionOf
<1> QED
  BY <1>1, <1>2 DEF TypeOK, Typed, AccountTyped, TokensTyped

-----------------------------------------------------------------------------
(* Steps that leave the request's tokens alone. *)

Leaves(r, t) ==
   /\ Becomes(r, t) /\ t.token = request[r].token /\ t.child = request[r].child
   /\ t.pc \notin {"rotate", "answer"}
   /\ request[r].pc \in {"answer", "over", "lost"} => t.pc = "lost"

LEMMA GotoLeaves ==
   ASSUME Typed, NEW r \in Requests, NEW pc \in Steps \ {"rotate", "answer"}, Goto(r, pc),
          request[r].pc \in {"answer", "over", "lost"} => pc = "lost"
   PROVE  \E t : Leaves(r, t)
<1>1. PICK t : Moves(r, t) /\ t.pc = pc
  BY GotoEffect
<1> QED
  BY <1>1 DEF Leaves, Moves

Turns(r) == \/ RequestOtp(r) \/ VerifyOtp(r) \/ Login(r) \/ Validate(r)
            \/ RevokeDriverSession(r) \/ Logout(r)
GoesOn(r) == \/ CreateChallenge(r) \/ ExpireChallenge(r) \/ CodeApproved(r) \/ CodeDenied(r)
             \/ CheckFails(r) \/ LoadChallenge(r) \/ IncrementAttempts(r) \/ MarkVerified(r)
             \/ Stamp(r)

LEMMA TurnsLeave ==
   ASSUME Typed, NEW r \in Requests, Turns(r)
   PROVE  \E t : Leaves(r, t)
<1>1. request[r].pc = "idle"
  BY DEF Turns, RequestOtp, VerifyOtp, Login, Validate, RevokeDriverSession, Logout, Turn, At
<1>2. CASE VerifyOtp(r)
  <2>1. PICK t : /\ Becomes(r, t)
                 /\ t.token = request[r].token /\ t.child = request[r].child
                 /\ t.pc \in {"over", "check", "expire"}
    BY <1>2, VerifyEffect
  <2> QED
    BY <1>1, <2>1 DEF Leaves
<1>3. CASE Validate(r)
  <2>1. PICK t : /\ Becomes(r, t)
                 /\ t.token = request[r].token /\ t.child = request[r].child
                 /\ t.pc \in {"over", "stamp"}
    BY <1>3, ValidateStep
  <2> QED
    BY <1>1, <2>1 DEF Leaves
<1>4. CASE RequestOtp(r) \/ Login(r) \/ RevokeDriverSession(r) \/ Logout(r)
  <2>1. PICK pc \in {"challenge", "session", "over"} : Goto(r, pc)
    BY <1>4 DEF RequestOtp, Login, RevokeDriverSession, Logout
  <2>2. pc \in Steps \ {"rotate", "answer"}
    BY DEF Steps
  <2> QED
    BY <1>1, <2>1, <2>2, GotoLeaves
<1> QED
  BY <1>2, <1>3, <1>4 DEF Turns

LEMMA GoesOnLeaves ==
   ASSUME Typed, NEW r \in Requests, GoesOn(r) \/ Lose(r)
   PROVE  \E t : Leaves(r, t)
<1>1. CASE Lose(r)
  <2>1. Goto(r, "lost") /\ "lost" \in Steps \ {"rotate", "answer"}
    BY <1>1 DEF Lose, Steps
  <2> QED
    BY <2>1, GotoLeaves
<1>2. CASE GoesOn(r)
  <2>1. request[r].pc \notin {"answer", "over", "lost"}
    BY <1>2 DEF GoesOn, CreateChallenge, ExpireChallenge, CodeApproved, CodeDenied, CheckFails,
       LoadChallenge, IncrementAttempts, MarkVerified, Stamp, At
  <2>2. CASE LoadChallenge(r) /\ ~challenges[request[r].challenge].late
    <3>1. PICK t : /\ Becomes(r, t) /\ t.pc = "count"
                   /\ t.token = request[r].token /\ t.child = request[r].child
      BY <2>2, LoadEffect
    <3> QED
      BY <2>1, <3>1 DEF Leaves
  <2>3. CASE ~(LoadChallenge(r) /\ ~challenges[request[r].challenge].late)
    <3>1. PICK pc \in {"over", "mark", "load", "session"} : Goto(r, pc)
      BY <1>2, <2>3 DEF GoesOn, CreateChallenge, ExpireChallenge, CodeApproved, CodeDenied,
         CheckFails, LoadChallenge, IncrementAttempts, MarkVerified, Stamp
    <3>2. pc \in Steps \ {"rotate", "answer"}
      BY DEF Steps
    <3> QED
      BY <2>1, <3>1, <3>2, GotoLeaves
  <2> QED
    BY <2>2, <2>3
<1> QED
  BY <1>1, <1>2

-----------------------------------------------------------------------------
(* Ended sessions stay ended. *)

\* What was presented or asked for before is known still.
Remembers ==
   /\ past.asked \subseteq past'.asked /\ past.again \subseteq past'.again
   /\ past.presented \subseteq past'.presented

LEMMA EndMoves ==
   ASSUME Typed, EndInv, NEW r \in Requests, NEW t, Becomes(r, t),
          UNCHANGED <<sessions, tokens>>, Remembers, past'.ended = past.ended,
          t.pc = "rotate" => t.token \in past'.presented /\ ~tokens[t.token].orphan
   PROVE  EndInv'
<1>1. EndedAreRevoked' /\ OrphansLeadNowhere'
  BY DEF EndInv, EndedAreRevoked, OrphansLeadNowhere, SessionOf
<1>2. RevokedForAReason' /\ SpentIsKnown'
  BY DEF EndInv, RevokedForAReason, SpentIsKnown, SessionOf, Blamed, Remembers
<1>3. RotationIsKnown'
  <2> SUFFICES ASSUME NEW q \in Requests, request'[q].pc = "rotate"
               PROVE  request'[q].token \in past'.presented /\ ~tokens[request'[q].token].orphan
    BY DEF RotationIsKnown
  <2>1. CASE q = r
    BY <2>1, Replaced
  <2>2. CASE q # r
    BY <2>2, Replaced DEF EndInv, RotationIsKnown, Remembers
  <2> QED
    BY <2>1, <2>2
<1> QED
  BY <1>1, <1>2, <1>3 DEF EndInv

\* A session is revoked, for a reason.
LEMMA EndRevokes ==
   ASSUME Typed, EndInv, NEW r \in Requests, NEW t, Becomes(r, t), t.pc # "rotate",
          NEW s \in 1..Len(sessions), Revoked(s), Remembers,
          past'.ended = past.ended \cup {s},
          s \in past'.asked \/ \E k \in past'.again : SessionOf(k) = s /\ k \in 1..Len(tokens)
   PROVE  EndInv'
<1>1. /\ Len(sessions') = Len(sessions) /\ Len(tokens') = Len(tokens)
      /\ past.again \subseteq 1..Len(tokens) /\ past.ended \subseteq 1..Len(sessions)
  BY DEF Revoked, Typed, PastTyped
<1>2. \A k \in 1..Len(tokens) :
         /\ SessionOf(k)' = SessionOf(k) /\ SessionOf(k) \in 1..Len(sessions)
         /\ tokens'[k].consumed = tokens[k].consumed /\ tokens'[k].orphan = tokens[k].orphan
         /\ tokens'[k].parent = tokens[k].parent
         /\ tokens'[k].revoked => tokens[k].revoked \/ SessionOf(k) = s
  BY TokenFacts DEF Revoked, SessionOf
<1>3. \A o \in 1..Len(sessions) : sessions'[o].revoked <=> (sessions[o].revoked \/ o = s)
  BY DEF Revoked
<1>4. EndedAreRevoked'
  BY <1>1, <1>3 DEF EndInv, EndedAreRevoked
<1>5. RevokedForAReason'
  <2> SUFFICES ASSUME NEW o \in 1..Len(sessions), sessions'[o].revoked PROVE Blamed(o)'
    BY <1>1 DEF RevokedForAReason
  <2>1. CASE o = s
    BY <1>2, <2>1 DEF Blamed
  <2>2. CASE o # s
    <3>1. Blamed(o)
      BY <1>3, <2>2 DEF EndInv, RevokedForAReason
    <3> QED
      BY <1>1, <1>2, <3>1 DEF Blamed, Remembers
  <2> QED
    BY <2>1, <2>2
<1>6. SpentIsKnown'
  BY <1>1, <1>2, <1>3 DEF EndInv, SpentIsKnown, Remembers
<1>7. RotationIsKnown'
  <2> SUFFICES ASSUME NEW q \in Requests, request'[q].pc = "rotate"
               PROVE  request'[q].token \in past'.presented /\ ~tokens'[request'[q].token].orphan
    BY DEF RotationIsKnown
  <2>1. q # r /\ request'[q] = request[q]
    BY Replaced
  <2>2. request[q].token \in 1..Len(tokens)
    BY <2>1, RequestRecord, TokenFacts DEF RequestFits, RequestRecords
  <2> QED
    BY <1>2, <2>1, <2>2 DEF EndInv, RotationIsKnown, Remembers
<1>8. OrphansLeadNowhere'
  <2> SUFFICES ASSUME NEW k \in 1..Len(tokens), tokens'[k].orphan
               PROVE  /\ sessions'[SessionOf(k)'].revoked
                      /\ \A u \in 1..Len(tokens) : tokens'[u].parent # k
    BY <1>1 DEF OrphansLeadNowhere
  <2>1. sessions[SessionOf(k)].revoked /\ \A u \in 1..Len(tokens) : tokens[u].parent # k
    BY <1>2 DEF EndInv, OrphansLeadNowhere
  <2> QED
    BY <1>2, <1>3, <2>1
<1> QED
  BY <1>4, <1>5, <1>6, <1>7, <1>8 DEF EndInv

\* A session is added with its first token.
LEMMA EndCreates ==
   ASSUME Typed, EndInv, NEW r \in Requests, CreateSession(r)
   PROVE  EndInv'
<1>1. PICK n \in Nat : n = Len(tokens) + 1
  BY TokenFacts
<1>2. PICK m \in Nat : m = Len(sessions) + 1
  BY TokenFacts
<1>3. /\ Len(sessions') = m /\ Len(tokens') = n
      /\ \A s \in 1..Len(sessions) : sessions'[s] = sessions[s]
      /\ ~sessions'[m].revoked
      /\ \A k \in 1..Len(tokens) : tokens'[k] = tokens[k]
      /\ tokens'[n] = NewToken(m, 0, FALSE)
  BY <1>1, <1>2, CreateEffect
<1>4. /\ tokens'[n].session = m /\ tokens'[n].parent = 0
      /\ ~tokens'[n].consumed /\ ~tokens'[n].revoked /\ ~tokens'[n].orphan
  BY <1>3 DEF NewToken
<1>5. /\ \A k : k \in 1..n <=> k \in 1..Len(tokens) \/ k = n
      /\ \A s : s \in 1..m <=> s \in 1..Len(sessions) \/ s = m
  BY <1>1, <1>2, TokenFacts
<1>6. UNCHANGED past.ended /\ Remembers /\ past'.presented = past.presented
  <2>1. past' = [past EXCEPT !.opened = @ + 1]
    BY DEF CreateSession
  <2> QED
    BY <2>1, CountEffect DEF Remembers
<1>7. past.again \subseteq 1..Len(tokens) /\ past.ended \subseteq 1..Len(sessions)
  BY DEF Typed, PastTyped
<1>8. \A k \in 1..Len(tokens) : SessionOf(k)' = SessionOf(k) /\ SessionOf(k) \in 1..Len(sessions)
  BY <1>3, TokenFacts DEF SessionOf
<1>9. EndedAreRevoked'
  BY <1>3, <1>6, <1>7 DEF EndInv, EndedAreRevoked
<1>10. RevokedForAReason'
  <2> SUFFICES ASSUME NEW o \in 1..m, sessions'[o].revoked PROVE Blamed(o)'
    BY <1>3 DEF RevokedForAReason
  <2>1. o \in 1..Len(sessions) /\ sessions[o].revoked
    BY <1>3, <1>5
  <2>2. Blamed(o)
    BY <2>1 DEF EndInv, RevokedForAReason
  <2> QED
    BY <1>6, <1>7, <1>8, <2>2 DEF Blamed, Remembers
<1>11. SpentIsKnown'
  <2> SUFFICES ASSUME NEW k \in 1..n
               PROVE  /\ tokens'[k].consumed => k \in past'.presented
                      /\ tokens'[k].revoked => sessions'[SessionOf(k)'].revoked
    BY <1>3 DEF SpentIsKnown
  <2>1. CASE k \in 1..Len(tokens)
    BY <1>3, <1>6, <1>8, <2>1 DEF EndInv, SpentIsKnown
  <2>2. CASE k = n
    BY <1>4, <2>2
  <2> QED
    BY <1>5, <2>1, <2>2
<1>12. RotationIsKnown'
  <2> SUFFICES ASSUME NEW q \in Requests, request'[q].pc = "rotate"
               PROVE  request'[q].token \in past'.presented /\ ~tokens'[request'[q].token].orphan
    BY DEF RotationIsKnown
  <2>1. PICK t : Becomes(r, t) /\ t.pc = "answer"
    BY CreateStep
  <2>2. q # r /\ request'[q] = request[q]
    BY <2>1, Replaced
  <2>3. request[q].token \in 1..Len(tokens)
    BY <2>2, RequestRecord, TokenFacts DEF RequestFits, RequestRecords
  <2> QED
    BY <1>3, <1>6, <2>2, <2>3 DEF EndInv, RotationIsKnown
<1>13. OrphansLeadNowhere'
  <2> SUFFICES ASSUME NEW k \in 1..n, tokens'[k].orphan
               PROVE  /\ sessions'[SessionOf(k)'].revoked
                      /\ \A u \in 1..n : tokens'[u].parent # k
    BY <1>3 DEF OrphansLeadNowhere
  <2>1. k \in 1..Len(tokens) /\ tokens[k].orphan
    BY <1>3, <1>4, <1>5
  <2>2. sessions[SessionOf(k)].revoked /\ \A u \in 1..Len(tokens) : tokens[u].parent # k
    BY <2>1 DEF EndInv, OrphansLeadNowhere
  <2>3. \A u \in 1..Len(tokens) : tokens'[u].parent # k
    BY <1>3, <2>2
  <2>4. tokens'[n].parent # k
    BY <1>4, <2>1, TokenFacts
  <2> QED
    BY <1>3, <1>5, <1>8, <2>1, <2>2, <2>3, <2>4
<1> QED
  BY <1>9, <1>10, <1>11, <1>12, <1>13 DEF EndInv

\* A token that was presented, and is no orphan, gets a successor.  The successor
\* is an orphan when their session was revoked meanwhile.
LEMMA EndRotates ==
   ASSUME Typed, EndInv, NEW r \in Requests, RotateToken(r)
   PROVE  EndInv'
<1>1. PICK k \in 1..Len(tokens) : k = request[r].token /\ Followed(k)
  BY RotateEffect
<1>2. k \in past.presented /\ ~tokens[k].orphan
  BY <1>1 DEF EndInv, RotationIsKnown, RotateToken, At
<1>3. UNCHANGED <<sessions, past>>
  BY DEF RotateToken
<1>4. PICK n \in Nat : n = Len(tokens) + 1
  BY TokenFacts
<1>5. /\ Len(tokens') = n
      /\ \A u \in 1..Len(tokens) :
            /\ SessionOf(u)' = SessionOf(u) /\ tokens'[u].parent = tokens[u].parent
            /\ tokens'[u].consumed => tokens[u].consumed \/ u = k
            /\ tokens'[u].revoked = tokens[u].revoked /\ tokens'[u].orphan = tokens[u].orphan
      /\ SessionOf(n)' = SessionOf(k) /\ tokens'[n].parent = k
      /\ ~tokens'[n].consumed /\ ~tokens'[n].revoked
      /\ tokens'[n].orphan = sessions[SessionOf(k)].revoked
  BY <1>1, <1>4 DEF Followed, SessionOf
<1>6. \A u : u \in 1..n <=> u \in 1..Len(tokens) \/ u = n
  BY <1>4, TokenFacts
<1>7. EndedAreRevoked'
  BY <1>3 DEF EndInv, EndedAreRevoked
<1>8. RevokedForAReason'
  <2> SUFFICES ASSUME NEW o \in 1..Len(sessions), sessions[o].revoked PROVE Blamed(o)'
    BY <1>3 DEF RevokedForAReason
  <2>1. Blamed(o) /\ past.again \subseteq 1..Len(tokens)
    BY DEF EndInv, RevokedForAReason, Typed, PastTyped
  <2> QED
    BY <1>3, <1>5, <2>1 DEF Blamed
<1>9. SpentIsKnown'
  <2> SUFFICES ASSUME NEW u \in 1..n
               PROVE  /\ tokens'[u].consumed => u \in past.presented
                      /\ tokens'[u].revoked => sessions[SessionOf(u)'].revoked
    BY <1>3, <1>5 DEF SpentIsKnown
  <2>1. CASE u \in 1..Len(tokens)
    BY <1>2, <1>5, <2>1 DEF EndInv, SpentIsKnown
  <2>2. CASE u = n
    BY <1>5, <2>2
  <2> QED
    BY <1>6, <2>1, <2>2
<1>10. RotationIsKnown'
  <2> SUFFICES ASSUME NEW q \in Requests, request'[q].pc = "rotate"
               PROVE  request'[q].token \in past.presented /\ ~tokens'[request'[q].token].orphan
    BY <1>3 DEF RotationIsKnown
  <2>1. PICK t : Becomes(r, t) /\ t.pc = "answer"
    BY RotateStep
  <2>2. q # r /\ request'[q] = request[q]
    BY <2>1, Replaced
  <2>3. request[q].token \in 1..Len(tokens)
    BY <2>2, RequestRecord, TokenFacts DEF RequestFits, RequestRecords
  <2> QED
    BY <1>5, <2>2, <2>3 DEF EndInv, RotationIsKnown
<1>11. OrphansLeadNowhere'
  <2> SUFFICES ASSUME NEW u \in 1..n, tokens'[u].orphan
               PROVE  /\ sessions[SessionOf(u)'].revoked
                      /\ \A v \in 1..n : tokens'[v].parent # u
    BY <1>3, <1>5 DEF OrphansLeadNowhere
  <2>1. CASE u \in 1..Len(tokens)
    <3>1. tokens[u].orphan /\ u # k
      BY <1>2, <1>5, <2>1
    <3>2. sessions[SessionOf(u)].revoked /\ \A v \in 1..Len(tokens) : tokens[v].parent # u
      BY <2>1, <3>1 DEF EndInv, OrphansLeadNowhere
    <3> QED
      BY <1>5, <1>6, <2>1, <3>1, <3>2
  <2>2. CASE u = n
    <3>1. \A v \in 1..Len(tokens) : tokens'[v].parent # n
      BY <1>4, <1>5, TokenFacts DEF TokenRecords
    <3>2. tokens'[n].parent # n
      BY <1>4, <1>5, TokenFacts
    <3> QED
      BY <1>5, <1>6, <2>2, <3>1, <3>2
  <2> QED
    BY <1>6, <2>1, <2>2
<1> QED
  BY <1>7, <1>8, <1>9, <1>10, <1>11 DEF EndInv

LEMMA NextEnd == Typed /\ EndInv /\ [Next]_vars => EndInv'
<1> SUFFICES ASSUME Typed, EndInv, [Next]_vars PROVE EndInv'
  OBVIOUS
<1>1. ASSUME NEW r \in Requests, RequestOtp(r) \/ VerifyOtp(r) \/ Login(r) \/ Validate(r)
      PROVE  EndInv'
  <2>1. PICK t : Becomes(r, t) /\ t.pc # "rotate"
    BY <1>1, TurnsLeave DEF Turns, Leaves
  <2>2. UNCHANGED <<sessions, tokens, past>>
    BY <1>1 DEF RequestOtp, VerifyOtp, Login, Validate
  <2> QED
    BY <2>1, <2>2, EndMoves DEF Remembers
<1>2. ASSUME NEW r \in Requests, GoesOn(r) \/ Lose(r)
      PROVE  EndInv'
  <2>1. PICK t : Becomes(r, t) /\ t.pc # "rotate"
    BY <1>2, GoesOnLeaves DEF Leaves
  <2>2. UNCHANGED <<sessions, tokens>>
    BY <1>2, StampEffect DEF GoesOn, CreateChallenge, ExpireChallenge, CodeApproved, CodeDenied,
       CheckFails, LoadChallenge, IncrementAttempts, MarkVerified, Lose
  <2>3. past' = past \/ past' = [past EXCEPT !.approvals = @ + 1]
    BY <1>2 DEF GoesOn, CreateChallenge, ExpireChallenge, CodeApproved, CodeDenied,
       CheckFails, LoadChallenge, IncrementAttempts, MarkVerified, Stamp, Lose
  <2>4. Remembers /\ past'.ended = past.ended
    BY <2>3, CountEffect DEF Remembers
  <2> QED
    BY <2>1, <2>2, <2>4, EndMoves
<1>3. ASSUME NEW r \in Requests, Answer(r) PROVE EndInv'
  <2>1. PICK t : Becomes(r, t) /\ t.pc # "rotate"
    BY <1>3, AnswerEffect DEF Moves
  <2>2. UNCHANGED <<sessions, tokens, past>>
    BY <1>3 DEF Answer
  <2> QED
    BY <2>1, <2>2, EndMoves DEF Remembers
<1>4. ASSUME NEW r \in Requests, BeginRefresh(r) PROVE EndInv'
  <2>1. /\ held \in 1..Len(tokens) /\ Remembers
        /\ past'.presented = past.presented \cup {held}
        /\ past'.again = past.again \cup ({held} \cap past.presented)
    BY <1>4, RefreshEffect DEF Remembers
  <2>2. CASE Spent(held)
    <3>1. PICK s \in 1..Len(sessions) : s = SessionOf(held)
      BY <2>1, TokenFacts
    <3>2. Revoked(s) /\ past'.ended = past.ended \cup {s}
      BY <1>4, <2>2, <3>1, RefreshEffect
    <3>3. PICK t : Becomes(r, t) /\ t.pc # "rotate"
      BY <1>4, <2>2, RefreshEffect DEF Moves
    <3>4. CASE tokens[held].consumed
      <4>1. held \in past'.again
        BY <2>1, <3>4 DEF EndInv, SpentIsKnown
      <4> QED
        BY <2>1, <3>1, <3>2, <3>3, <4>1, EndRevokes
    <3>5. CASE tokens[held].revoked
      <4>1. Blamed(s)
        BY <2>1, <3>1, <3>5 DEF EndInv, SpentIsKnown, RevokedForAReason
      <4>2. s \in past'.asked \/ \E k \in past'.again : SessionOf(k) = s /\ k \in 1..Len(tokens)
        BY <2>1, <4>1 DEF Blamed, Remembers, Typed, PastTyped
      <4> QED
        BY <2>1, <3>2, <3>3, <4>2, EndRevokes
    <3> QED
      BY <2>2, <3>4, <3>5 DEF Spent
  <2>3. CASE ~Spent(held)
    <3>1. UNCHANGED <<sessions, tokens>> /\ past'.ended = past.ended
      BY <1>4, <2>3, RefreshEffect
    <3>2. PICK t : /\ Becomes(r, t) /\ t.token = held
                   /\ t.pc = "rotate" => ~sessions[SessionOf(held)].revoked
      BY <1>4, <2>3, RefreshEffect
    <3>3. t.pc = "rotate" => t.token \in past'.presented /\ ~tokens[t.token].orphan
      BY <2>1, <3>2 DEF EndInv, OrphansLeadNowhere
    <3> QED
      BY <2>1, <3>1, <3>2, <3>3, EndMoves
  <2> QED
    BY <2>2, <2>3
<1>5. ASSUME NEW r \in Requests, RevokeDriverSession(r) \/ Logout(r) PROVE EndInv'
  <2>1. PICK t : Becomes(r, t) /\ t.pc # "rotate"
    BY <1>5, TurnsLeave DEF Turns, Leaves
  <2>2. CASE UNCHANGED <<sessions, tokens, past>>
    BY <2>1, <2>2, EndMoves DEF Remembers
  <2>3. ASSUME NEW s \in 1..Len(sessions), EndsSession(s) PROVE EndInv'
    <3>1. Revoked(s) /\ Remembers /\ past'.ended = past.ended \cup {s} /\ s \in past'.asked
      BY <2>3, EndEffect DEF Remembers
    <3> QED
      BY <2>1, <3>1, EndRevokes
  <2> QED
    BY <1>5, <2>2, <2>3, LogoutEffect
<1>6. CASE UNCHANGED <<sessions, tokens, request, past>>
  BY <1>6 DEF EndInv, EndedAreRevoked, RevokedForAReason, SpentIsKnown, RotationIsKnown,
     OrphansLeadNowhere, Blamed, SessionOf
<1>7. CASE SetActive \/ (\E c \in 1..MaxChallenges : ChallengeExpires(c)) \/ UNCHANGED vars
  BY <1>6, <1>7 DEF SetActive, ChallengeExpires, vars
<1> QED
  BY <1>1, <1>2, <1>3, <1>4, <1>5, <1>7, EndCreates, EndRotates DEF Next, GoesOn

LEMMA InitEnd == Init => EndInv
<1> SUFFICES ASSUME Init PROVE EndInv
  OBVIOUS
<1>1. EndedAreRevoked /\ RotationIsKnown
  BY DEF Init, EndedAreRevoked, RotationIsKnown, Idle
<1>2. CASE held = 0 /\ sessions = <<>> /\ tokens = <<>>
  BY <1>1, <1>2 DEF EndInv, RevokedForAReason, SpentIsKnown, OrphansLeadNowhere
<1>3. CASE held = 1 /\ sessions = <<NewSession>> /\ tokens = <<NewToken(1, 0, FALSE)>>
  BY <1>1, <1>3 DEF EndInv, RevokedForAReason, SpentIsKnown, OrphansLeadNowhere, NewSession, NewToken
<1> QED
  BY <1>2, <1>3 DEF Init

LEMMA EndHolds == Spec => [](Typed /\ EndInv)
BY InitTyped, InitEnd, NextTyped, NextEnd, PTL DEF Spec

LEMMA EndMeans == Typed /\ EndInv => EndedForGood
<1> SUFFICES ASSUME Typed, EndInv PROVE EndedForGood
  OBVIOUS
<1>1. \A s \in DOMAIN sessions : sessions[s].revoked =>
         s \in past.asked \/ \E t \in past.again : tokens[t].session = s
  BY TokenFacts DEF EndInv, RevokedForAReason, Blamed, SessionOf
<1>2. \A t \in DOMAIN tokens : tokens[t].orphan => Children(t) = {}
  BY TokenFacts DEF EndInv, OrphansLeadNowhere, Children
<1> QED
  BY <1>1, <1>2, TypedMeansTypeOK DEF EndedForGood, EndInv, EndedAreRevoked

\* A session that a logout, or a spent token presented again, has ended stays
\* revoked (revoke_session and rotate_refresh_token of security/session.py), no
\* session is revoked without one of the two, and the token that a refresh under
\* way adds to a revoked session is followed by none.
THEOREM SessionsEndForGood == Spec => []EndedForGood
BY EndHolds, EndMeans, PTL

-----------------------------------------------------------------------------
(* The client can go on. *)

\* No token is added, consumed or moved.
TokensAlike ==
   /\ Len(tokens') = Len(tokens)
   /\ \A t \in 1..Len(tokens) :
         /\ SessionOf(t)' = SessionOf(t) /\ tokens'[t].parent = tokens[t].parent
         /\ tokens'[t].consumed = tokens[t].consumed

LEMMA AlikeWhenSame == UNCHANGED tokens => TokensAlike
BY DEF TokensAlike, SessionOf

LEMMA AlikeWhenRevoked ==
   ASSUME NEW s, Revoked(s) PROVE TokensAlike
BY DEF TokensAlike, Revoked, SessionOf

LEMMA FamiliesStay ==
   ASSUME Typed, HoldInv, TokensAlike PROVE ForkedOrOneLeft' /\ ConsumedIsFollowed'
<1>1. \A s : Forked(s) => Forked(s)'
  BY DEF Forked, TokensAlike
<1>2. ForkedOrOneLeft'
  <2> SUFFICES ASSUME NEW t \in 1..Len(tokens), NEW u \in 1..Len(tokens),
                      SessionOf(t)' = SessionOf(u)', ~tokens'[t].consumed,
                      ~tokens'[u].consumed, t # u
               PROVE  Forked(SessionOf(t))'
    BY DEF ForkedOrOneLeft, TokensAlike
  <2>1. PICK s : s = SessionOf(t)
    OBVIOUS
  <2>2. Forked(s)
    BY <2>1 DEF HoldInv, ForkedOrOneLeft, TokensAlike
  <2>3. Forked(s)' /\ SessionOf(t)' = s
    BY <1>1, <2>1, <2>2 DEF TokensAlike
  <2> QED
    BY <2>3 DEF Forked
<1>3. ConsumedIsFollowed'
  BY DEF HoldInv, ConsumedIsFollowed, TokensAlike
<1> QED
  BY <1>2, <1>3

LEMMA HoldLeaves ==
   ASSUME Typed, HoldInv, NEW r \in Requests, NEW t, Leaves(r, t), TokensAlike,
          held' \in {held, 0}
   PROVE  HoldInv'
<1>1. /\ request'[r] = t
      /\ \A q \in Requests : q # r => request'[q] = request[q]
  BY Replaced DEF Leaves
<1>2. \A q \in Requests :
         /\ request'[q].token = request[q].token /\ request'[q].child = request[q].child
         /\ request'[q].pc = "answer" => request[q].pc = "answer" /\ q # r
         /\ request[q].pc \in {"answer", "over", "lost"} =>
               request'[q].pc \in {"answer", "over", "lost"}
  BY <1>1 DEF Leaves
<1>3. AnswersAreFresh'
  <2> SUFFICES ASSUME NEW q \in Requests, request'[q].pc = "answer"
               PROVE  /\ request'[q].child # held' /\ ~tokens'[request'[q].child].consumed
                      /\ \A p \in Requests :
                            /\ request'[p].token # request'[q].child
                            /\ request'[p].pc = "answer" /\ p # q =>
                                  request'[p].child # request'[q].child
    BY DEF AnswersAreFresh
  <2>1. request[q].pc = "answer"
    BY <1>2
  <2>2. request[q].child # 0 /\ request[q].child \in 1..Len(tokens)
    BY <2>1, RequestRecord, TokenFacts DEF RequestFits, RequestRecords
  <2>3. /\ request[q].child # held /\ ~tokens[request[q].child].consumed
        /\ \A p \in Requests :
              /\ request[p].token # request[q].child
              /\ request[p].pc = "answer" /\ p # q => request[p].child # request[q].child
    BY <2>1 DEF HoldInv, AnswersAreFresh
  <2>4. ~tokens'[request[q].child].consumed
    BY <2>2, <2>3 DEF TokensAlike
  <2> QED
    BY <1>2, <2>2, <2>3, <2>4
<1>4. HeldOrUnanswered'
  <2> SUFFICES ASSUME held' # 0, tokens'[held'].consumed PROVE Unanswered(held)'
    BY DEF HeldOrUnanswered
  <2>1. held' = held /\ tokens[held].consumed /\ held # 0
    BY TokenFacts DEF TokensAlike
  <2>2. Unanswered(held)
    BY <2>1 DEF HoldInv, HeldOrUnanswered
  <2> QED
    BY <1>2, <2>1, <2>2 DEF Unanswered
<1> QED
  BY <1>3, <1>4, FamiliesStay DEF HoldInv

\* The client's token is given in and is not consumed yet.
LEMMA HoldBegins ==
   ASSUME Typed, HoldInv, NEW r \in Requests, NEW t, Becomes(r, t), t.token = held,
          t.pc \in {"over", "rotate"}, ~Spent(held), UNCHANGED <<tokens, held>>
   PROVE  HoldInv'
<1>1. /\ request'[r] = t
      /\ \A q \in Requests : q # r => request'[q] = request[q]
  BY Replaced
<1>2. AnswersAreFresh'
  <2> SUFFICES ASSUME NEW q \in Requests, request'[q].pc = "answer"
               PROVE  /\ request'[q].child # held /\ ~tokens[request'[q].child].consumed
                      /\ \A p \in Requests :
                            /\ request'[p].token # request'[q].child
                            /\ request'[p].pc = "answer" /\ p # q =>
                                  request'[p].child # request'[q].child
    BY DEF AnswersAreFresh
  <2>1. q # r /\ request'[q] = request[q] /\ request[q].pc = "answer"
    BY <1>1
  <2>2. /\ request[q].child # held /\ ~tokens[request[q].child].consumed
        /\ \A p \in Requests :
              /\ request[p].token # request[q].child
              /\ request[p].pc = "answer" /\ p # q => request[p].child # request[q].child
    BY <2>1 DEF HoldInv, AnswersAreFresh
  <2>3. ASSUME NEW p \in Requests
        PROVE  /\ request'[p].token # request[q].child
               /\ request'[p].pc = "answer" /\ p # q => request'[p].child # request[q].child
    <3>1. CASE p = r
      BY <1>1, <2>2, <3>1
    <3>2. CASE p # r
      BY <1>1, <2>2, <3>2
    <3> QED
      BY <3>1, <3>2
  <2> QED
    BY <2>1, <2>2, <2>3
<1>3. HeldOrUnanswered'
  BY DEF HeldOrUnanswered, Spent
<1> QED
  BY <1>2, <1>3, AlikeWhenSame, FamiliesStay DEF HoldInv

LEMMA HoldAnswers ==
   ASSUME Typed, HoldInv, NEW r \in Requests, Answer(r) PROVE HoldInv'
<1>1. PICK t : /\ Moves(r, t)
               /\ \/ t.pc = "over" /\ UNCHANGED held
                  \/ t.pc = "answered" /\ held' = request[r].child
  BY AnswerEffect
<1>2. /\ UNCHANGED tokens /\ request[r].pc = "answer"
      /\ request[r].child \in 1..Len(tokens)
  BY AnswerEffect
<1>3. /\ request'[r] = t
      /\ \A q \in Requests : q # r => request'[q] = request[q]
  BY <1>1, Replaced DEF Moves
<1>4. \A q \in Requests :
         /\ request'[q].token = request[q].token /\ request'[q].child = request[q].child
         /\ request'[q].pc = "answer" => request[q].pc = "answer" /\ q # r
  BY <1>1, <1>3 DEF Moves
<1>5. \A q \in Requests : request[q].pc = "answer" =>
         /\ request[q].child # held /\ ~tokens[request[q].child].consumed
         /\ \A p \in Requests :
               /\ request[p].token # request[q].child
               /\ request[p].pc = "answer" /\ p # q => request[p].child # request[q].child
  BY DEF HoldInv, AnswersAreFresh
<1>6. AnswersAreFresh'
  <2> SUFFICES ASSUME NEW q \in Requests, request'[q].pc = "answer"
               PROVE  /\ request'[q].child # held' /\ ~tokens[request'[q].child].consumed
                      /\ \A p \in Requests :
                            /\ request'[p].token # request'[q].child
                            /\ request'[p].pc = "answer" /\ p # q =>
                                  request'[p].child # request'[q].child
    BY <1>2 DEF AnswersAreFresh
  <2>1. q # r /\ request[q].pc = "answer"
    BY <1>4
  <2>2. request[q].child # held'
    BY <1>1, <1>2, <1>5, <2>1
  <2> QED
    BY <1>4, <1>5, <2>1, <2>2
<1>7. HeldOrUnanswered'
  <2>1. CASE t.pc = "over" /\ UNCHANGED held
    <3> SUFFICES ASSUME held # 0, tokens[held].consumed PROVE Unanswered(held)'
      BY <1>2, <2>1 DEF HeldOrUnanswered
    <3>1. PICK q \in Requests : request[q].token = held /\ request[q].pc \in {"answer", "over", "lost"}
      BY DEF HoldInv, HeldOrUnanswered, Unanswered
    <3>2. request'[q].token = held /\ request'[q].pc \in {"answer", "over", "lost"}
      BY <1>3, <1>4, <2>1, <3>1
    <3> QED
      BY <2>1, <3>2 DEF Unanswered
  <2>2. CASE held' = request[r].child
    <3>1. ~tokens'[held'].consumed
      BY <1>2, <1>5, <2>2
    <3> QED
      BY <3>1 DEF HeldOrUnanswered
  <2> QED
    BY <1>1, <2>1, <2>2
<1> QED
  BY <1>2, <1>6, <1>7, AlikeWhenSame, FamiliesStay DEF HoldInv

\* A new token is on its way to the client, and the token of its request is the
\* only one that may have been consumed.
LEMMA NewTokenIsFresh ==
   ASSUME Typed, HoldInv, NEW r \in Requests, NEW t, Becomes(r, t), t.pc = "answer",
          t.token = request[r].token, request[r].pc \in {"session", "rotate"},
          UNCHANGED held, NEW n \in Nat, n = Len(tokens) + 1, t.child = n,
          ~tokens'[n].consumed,
          \A u \in 1..Len(tokens) : tokens'[u].consumed => tokens[u].consumed \/ u = t.token
   PROVE  AnswersAreFresh' /\ HeldOrUnanswered'
<1>1. /\ request'[r] = t
      /\ \A q \in Requests : q # r => request'[q] = request[q]
  BY Replaced
<1>2. /\ held < n /\ held \in Nat
      /\ \A q \in Requests : request[q].token < n /\ request[q].child < n
  BY RequestRecord, TokenFacts DEF RequestFits, RequestRecords, Typed, TokensTyped
<1>3. \A q \in Requests : request[q].pc = "answer" =>
         /\ request[q].child # held /\ ~tokens[request[q].child].consumed
         /\ \A p \in Requests :
               /\ request[p].token # request[q].child
               /\ request[p].pc = "answer" /\ p # q => request[p].child # request[q].child
  BY DEF HoldInv, AnswersAreFresh
<1>4. AnswersAreFresh'
  <2> SUFFICES ASSUME NEW q \in Requests, request'[q].pc = "answer"
               PROVE  /\ request'[q].child # held /\ ~tokens'[request'[q].child].consumed
                      /\ \A p \in Requests :
                            /\ request'[p].token # request'[q].child
                            /\ request'[p].pc = "answer" /\ p # q =>
                                  request'[p].child # request'[q].child
    BY DEF AnswersAreFresh
  <2>1. CASE q = r
    <3>1. request'[q].child = n
      BY <1>1, <2>1
    <3>2. ASSUME NEW p \in Requests
          PROVE  request'[p].token # n /\ (p # q => request'[p].child # n)
      <4>1. CASE p = r
        BY <1>1, <1>2, <2>1, <4>1
      <4>2. CASE p # r
        BY <1>1, <1>2, <4>2
      <4> QED
        BY <4>1, <4>2
    <3> QED
      BY <1>2, <3>1, <3>2
  <2>2. CASE q # r
    <3>1. request'[q] = request[q] /\ request[q].pc = "answer"
      BY <1>1, <2>2
    <3>2. request[q].child \in 1..Len(tokens) /\ request[q].child < n
      BY <1>2, <3>1, RequestRecord, TokenFacts DEF RequestFits, RequestRecords
    <3>3. ~tokens'[request[q].child].consumed
      BY <1>3, <3>1, <3>2
    <3>4. ASSUME NEW p \in Requests
          PROVE  /\ request'[p].token # request[q].child
                 /\ request'[p].pc = "answer" /\ p # q => request'[p].child # request[q].child
      <4>1. CASE p = r
        BY <1>1, <1>3, <3>1, <3>2, <4>1
      <4>2. CASE p # r
        BY <1>1, <1>3, <3>1, <4>2
      <4> QED
        BY <4>1, <4>2
    <3> QED
      BY <1>3, <3>1, <3>3, <3>4
  <2> QED
    BY <2>1, <2>2
<1>5. HeldOrUnanswered'
  <2> SUFFICES ASSUME held # 0, tokens'[held].consumed PROVE Unanswered(held)'
    BY DEF HeldOrUnanswered
  <2>1. held \in 1..Len(tokens)
    BY TokenFacts
  <2>2. CASE held = t.token
    BY <1>1, <2>2 DEF Unanswered
  <2>3. CASE tokens[held].consumed
    <3>1. PICK q \in Requests : request[q].token = held /\ request[q].pc \in {"answer", "over", "lost"}
      BY <2>3 DEF HoldInv, HeldOrUnanswered, Unanswered
    <3>2. request'[q] = request[q]
      BY <1>1, <3>1
    <3> QED
      BY <3>1, <3>2 DEF Unanswered
  <2> QED
    BY <2>1, <2>2, <2>3
<1> QED
  BY <1>4, <1>5

LEMMA HoldCreates ==
   ASSUME Typed, HoldInv, NEW r \in Requests, CreateSession(r) PROVE HoldInv'
<1>1. PICK n \in Nat : n = Len(tokens) + 1
  BY TokenFacts
<1>2. PICK m \in Nat : m = Len(sessions) + 1
  BY TokenFacts
<1>3. /\ Len(tokens') = n
      /\ \A u \in 1..Len(tokens) : tokens'[u] = tokens[u]
      /\ tokens'[n] = NewToken(m, 0, FALSE)
  BY <1>1, <1>2, CreateEffect
<1>4. tokens'[n].session = m /\ tokens'[n].parent = 0 /\ ~tokens'[n].consumed
  BY <1>3 DEF NewToken
<1>5. \A u : u \in 1..n <=> u \in 1..Len(tokens) \/ u = n
  BY <1>1, TokenFacts
<1>6. \A u \in 1..Len(tokens) : SessionOf(u)' = SessionOf(u) /\ SessionOf(u) # m
  BY <1>2, <1>3, TokenFacts DEF SessionOf
<1>7. AnswersAreFresh' /\ HeldOrUnanswered'
  <2>1. PICK t : Becomes(r, t) /\ t.pc = "answer" /\ t.child = n /\ t.token = request[r].token
    BY <1>1, CreateStep
  <2>2. request[r].pc = "session" /\ UNCHANGED held
    BY DEF CreateSession, At
  <2> QED
    BY <1>1, <1>3, <1>4, <2>1, <2>2, NewTokenIsFresh
<1>8. \A s : Forked(s) => Forked(s)'
  BY <1>3, <1>5, <1>6 DEF Forked
<1>9. ForkedOrOneLeft'
  <2> SUFFICES ASSUME NEW t \in 1..n, NEW u \in 1..n, NEW s, s = SessionOf(t)', s = SessionOf(u)',
                      ~tokens'[t].consumed, ~tokens'[u].consumed, t # u
               PROVE  Forked(s)'
    BY <1>3 DEF ForkedOrOneLeft, Forked
  <2>1. SessionOf(n)' = m
    BY <1>4 DEF SessionOf
  <2>2. t \in 1..Len(tokens) /\ u \in 1..Len(tokens)
    BY <1>5, <1>6, <2>1
  <2>3. SessionOf(t) = s /\ SessionOf(u) = s
    BY <1>6, <2>2
  <2>4. Forked(s)
    BY <1>3, <2>2, <2>3 DEF HoldInv, ForkedOrOneLeft
  <2> QED
    BY <1>8, <2>4
<1>10. ConsumedIsFollowed'
  <2> SUFFICES ASSUME NEW t \in 1..n, tokens'[t].consumed
               PROVE  \E u \in 1..n : tokens'[u].parent = t
    BY <1>3 DEF ConsumedIsFollowed
  <2>1. t \in 1..Len(tokens) /\ tokens[t].consumed
    BY <1>3, <1>4, <1>5
  <2>2. PICK u \in 1..Len(tokens) : tokens[u].parent = t
    BY <2>1 DEF HoldInv, ConsumedIsFollowed
  <2> QED
    BY <1>3, <1>5, <2>2
<1> QED
  BY <1>7, <1>9, <1>10 DEF HoldInv

\* A token that was consumed already gets a second successor: its session has
\* forked.  One that was not leaves its place to its successor.
LEMMA HoldRotates ==
   ASSUME Typed, HoldInv, NEW r \in Requests, RotateToken(r) PROVE HoldInv'
<1>1. PICK k \in 1..Len(tokens) : k = request[r].token /\ Followed(k)
  BY RotateEffect
<1>2. PICK n \in Nat : n = Len(tokens) + 1
  BY TokenFacts
<1>3. /\ Len(tokens') = n
      /\ \A u \in 1..Len(tokens) :
            /\ SessionOf(u)' = SessionOf(u) /\ tokens'[u].parent = tokens[u].parent
            /\ tokens'[u].consumed <=> tokens[u].consumed \/ u = k
      /\ SessionOf(n)' = SessionOf(k) /\ tokens'[n].parent = k
      /\ ~tokens'[n].consumed
  BY <1>1, <1>2 DEF Followed, SessionOf
<1>4. \A u : u \in 1..n <=> u \in 1..Len(tokens) \/ u = n
  BY <1>2, TokenFacts
<1>5. AnswersAreFresh' /\ HeldOrUnanswered'
  <2>1. PICK t : Becomes(r, t) /\ t.pc = "answer" /\ t.child = n /\ t.token = request[r].token
    BY <1>2, RotateStep
  <2>2. request[r].pc = "rotate" /\ UNCHANGED held
    BY DEF RotateToken, At
  <2> QED
    BY <1>1, <1>2, <1>3, <2>1, <2>2, NewTokenIsFresh
<1>6. \A s : Forked(s) => Forked(s)'
  BY <1>3, <1>4 DEF Forked
<1>7. tokens[k].consumed => Forked(SessionOf(k))'
  <2> SUFFICES ASSUME tokens[k].consumed PROVE Forked(SessionOf(k))'
    OBVIOUS
  <2>1. PICK u \in 1..Len(tokens) : tokens[u].parent = k
    BY DEF HoldInv, ConsumedIsFollowed
  <2>2. u # n /\ tokens'[u].parent = k /\ tokens'[n].parent = k /\ {k, u, n} \subseteq 1..n
    BY <1>2, <1>3, <1>4, <2>1, TokenFacts
  <2> QED
    BY <1>3, <2>2 DEF Forked
<1>8. ForkedOrOneLeft'
  <2> SUFFICES ASSUME NEW t \in 1..n, NEW u \in 1..n, NEW s, s = SessionOf(t)', s = SessionOf(u)',
                      ~tokens'[t].consumed, ~tokens'[u].consumed, t # u
               PROVE  Forked(s)'
    BY <1>3 DEF ForkedOrOneLeft, Forked
  <2>1. ASSUME NEW x \in 1..Len(tokens), NEW y \in 1..Len(tokens), x # y,
               SessionOf(x) = SessionOf(y), ~tokens[x].consumed, ~tokens[y].consumed
        PROVE  Forked(SessionOf(x))
    BY <2>1 DEF HoldInv, ForkedOrOneLeft
  <2>2. Forked(s)'
    <3>1. CASE t \in 1..Len(tokens) /\ u \in 1..Len(tokens)
      BY <1>3, <1>6, <2>1, <3>1
    <3>2. ASSUME NEW x \in 1..Len(tokens), SessionOf(x) = s, s = SessionOf(k), x # k,
                 ~tokens[x].consumed
          PROVE  Forked(s)'
      <4>1. CASE tokens[k].consumed
        BY <1>3, <1>7, <3>2, <4>1 DEF Forked
      <4>2. CASE ~tokens[k].consumed
        BY <1>6, <2>1, <3>2, <4>2
      <4> QED
        BY <4>1, <4>2
    <3>3. CASE t = n
      <4>1. u \in 1..Len(tokens) /\ SessionOf(u) = s /\ s = SessionOf(k) /\ u # k /\ ~tokens[u].consumed
        BY <1>3, <1>4, <3>3
      <4> QED
        BY <3>2, <4>1
    <3>4. CASE u = n
      <4>1. t \in 1..Len(tokens) /\ SessionOf(t) = s /\ s = SessionOf(k) /\ t # k /\ ~tokens[t].consumed
        BY <1>3, <1>4, <3>4
      <4> QED
        BY <3>2, <4>1
    <3> QED
      BY <1>4, <3>1, <3>3, <3>4
  <2> QED
    BY <2>2
<1>9. ConsumedIsFollowed'
  <2> SUFFICES ASSUME NEW t \in 1..n, tokens'[t].consumed
               PROVE  \E u \in 1..n : tokens'[u].parent = t
    BY <1>3 DEF ConsumedIsFollowed
  <2>1. CASE t = k
    BY <1>3, <1>4, <2>1
  <2>2. CASE t # k
    <3>1. t \in 1..Len(tokens) /\ tokens[t].consumed
      BY <1>3, <1>4, <2>2
    <3>2. PICK u \in 1..Len(tokens) : tokens[u].parent = t
      BY <3>1 DEF HoldInv, ConsumedIsFollowed
    <3> QED
      BY <1>3, <1>4, <3>2
  <2> QED
    BY <2>1, <2>2
<1> QED
  BY <1>5, <1>8, <1>9 DEF HoldInv

LEMMA NextHold == Typed /\ HoldInv /\ [Next]_vars => HoldInv'
<1> SUFFICES ASSUME Typed, HoldInv, [Next]_vars PROVE HoldInv'
  OBVIOUS
<1>1. ASSUME NEW r \in Requests, RequestOtp(r) \/ VerifyOtp(r) \/ Login(r) \/ Validate(r)
      PROVE  HoldInv'
  <2>1. PICK t : Leaves(r, t)
    BY <1>1, TurnsLeave DEF Turns
  <2>2. UNCHANGED <<tokens, held>>
    BY <1>1 DEF RequestOtp, VerifyOtp, Login, Validate
  <2> QED
    BY <2>1, <2>2, AlikeWhenSame, HoldLeaves
<1>2. ASSUME NEW r \in Requests, GoesOn(r) \/ Lose(r)
      PROVE  HoldInv'
  <2>1. PICK t : Leaves(r, t)
    BY <1>2, GoesOnLeaves
  <2>2. UNCHANGED <<tokens, held>>
    BY <1>2 DEF GoesOn, CreateChallenge, ExpireChallenge, CodeApproved, CodeDenied,
       CheckFails, LoadChallenge, IncrementAttempts, MarkVerified, Stamp, Lose
  <2> QED
    BY <2>1, <2>2, AlikeWhenSame, HoldLeaves
<1>3. ASSUME NEW r \in Requests, BeginRefresh(r) PROVE HoldInv'
  <2>1. held \in 1..Len(tokens) /\ UNCHANGED held
    BY <1>3, RefreshEffect
  <2>2. CASE Spent(held)
    <3>1. Revoked(SessionOf(held))
      BY <1>3, <2>2, RefreshEffect
    <3>2. PICK t : Moves(r, t) /\ t.pc = "over"
      BY <1>3, <2>2, RefreshEffect
    <3>3. request[r].pc = "idle"
      BY <1>3 DEF BeginRefresh, Turn, At
    <3>4. Leaves(r, t)
      BY <3>2, <3>3 DEF Leaves, Moves
    <3> QED
      BY <2>1, <3>1, <3>4, AlikeWhenRevoked, HoldLeaves
  <2>3. CASE ~Spent(held)
    <3>1. UNCHANGED <<tokens, held>>
      BY <1>3, <2>3, RefreshEffect
    <3>2. PICK t : Becomes(r, t) /\ t.token = held /\ t.pc \in {"over", "rotate"}
      BY <1>3, <2>3, RefreshEffect
    <3> QED
      BY <2>3, <3>1, <3>2, HoldBegins
  <2> QED
    BY <2>2, <2>3
<1>4. ASSUME NEW r \in Requests, RevokeDriverSession(r) \/ Logout(r) PROVE HoldInv'
  <2>1. PICK t : Leaves(r, t)
    BY <1>4, TurnsLeave DEF Turns
  <2>2. held' \in {held, 0}
    BY <1>4, LogoutEffect
  <2>3. CASE UNCHANGED <<sessions, tokens, past>>
    BY <2>1, <2>2, <2>3, AlikeWhenSame, HoldLeaves
  <2>4. ASSUME NEW s \in 1..Len(sessions), EndsSession(s) PROVE HoldInv'
    BY <2>1, <2>2, <2>4, EndEffect, AlikeWhenRevoked, HoldLeaves
  <2> QED
    BY <1>4, <2>3, <2>4, LogoutEffect
<1>5. CASE UNCHANGED <<tokens, held, request>>
  BY <1>5 DEF HoldInv, ForkedOrOneLeft, ConsumedIsFollowed, AnswersAreFresh, HeldOrUnanswered,
     Unanswered, Forked, SessionOf
<1>6. CASE SetActive \/ (\E c \in 1..MaxChallenges : ChallengeExpires(c)) \/ UNCHANGED vars
  BY <1>5, <1>6 DEF SetActive, ChallengeExpires, vars
<1> QED
  BY <1>1, <1>2, <1>3, <1>4, <1>6, HoldAnswers, HoldCreates, HoldRotates DEF Next, GoesOn

LEMMA InitHold == Init => HoldInv
<1> SUFFICES ASSUME Init PROVE HoldInv
  OBVIOUS
<1>1. AnswersAreFresh
  BY DEF Init, AnswersAreFresh, Idle
<1>2. CASE held = 0 /\ sessions = <<>> /\ tokens = <<>>
  BY <1>1, <1>2 DEF HoldInv, ForkedOrOneLeft, ConsumedIsFollowed, HeldOrUnanswered
<1>3. CASE held = 1 /\ sessions = <<NewSession>> /\ tokens = <<NewToken(1, 0, FALSE)>>
  BY <1>1, <1>3 DEF HoldInv, ForkedOrOneLeft, ConsumedIsFollowed, HeldOrUnanswered, NewToken
<1> QED
  BY <1>2, <1>3 DEF Init

LEMMA HoldHolds == Spec => [](Typed /\ EndInv /\ HoldInv)
BY InitTyped, InitEnd, InitHold, NextTyped, NextEnd, NextHold, PTL DEF Spec

LEMMA TokensAreFinite == Typed => IsFiniteSet(DOMAIN tokens)
BY TokenFacts, FS_Interval

LEMMA ForkedIsRaced ==
   ASSUME Typed, NEW s PROVE Forked(s) => Raced(s)
<1> SUFFICES ASSUME Forked(s) PROVE Raced(s)
  OBVIOUS
<1>1. PICK t, u, v \in 1..Len(tokens) :
         SessionOf(t) = s /\ u # v /\ tokens[u].parent = t /\ tokens[v].parent = t
  BY DEF Forked
<1>2. u \in Children(t) /\ v \in Children(t) /\ t \in DOMAIN tokens
  BY <1>1, TokenFacts DEF Children
<1>3. IsFiniteSet(Children(t))
  BY TokensAreFinite, FS_Subset DEF Children
<1>4. Cardinality(Children(t)) > 1
  BY <1>1, <1>2, <1>3, TwoMembers
<1> QED
  BY <1>1, <1>2, <1>4 DEF Raced, SessionOf

LEMMA HoldMeans == Typed /\ EndInv /\ HoldInv => HolderCanGoOn
<1> SUFFICES ASSUME Typed, EndInv, HoldInv PROVE HolderCanGoOn
  OBVIOUS
<1>1. ASSUME NEW s \in DOMAIN sessions, ~Raced(s)
      PROVE  Cardinality({t \in DOMAIN tokens : tokens[t].session = s /\ Usable(t)}) <= 1
  <2> DEFINE U == {t \in DOMAIN tokens : tokens[t].session = s /\ Usable(t)}
  <2>1. IsFiniteSet(U) /\ Cardinality(U) \in Nat
    BY TokensAreFinite, FS_Subset, FS_CardinalityType
  <2>2. \A a, b \in U : a = b
    <3> SUFFICES ASSUME NEW a \in U, NEW b \in U, a # b PROVE FALSE
      OBVIOUS
    <3>1. /\ a \in 1..Len(tokens) /\ SessionOf(a) = s /\ ~tokens[a].consumed
          /\ b \in 1..Len(tokens) /\ SessionOf(b) = s /\ ~tokens[b].consumed
      BY TokenFacts DEF Usable, Spent, SessionOf
    <3>2. Forked(s)
      BY <3>1 DEF HoldInv, ForkedOrOneLeft
    <3> QED
      BY <1>1, <3>2, ForkedIsRaced
  <2> HIDE DEF U
  <2>3. ~(Cardinality(U) > 1)
    BY <2>1, <2>2, TwoMembers
  <2>4. Cardinality(U) <= 1
    BY <2>1, <2>3
  <2> QED
    BY <2>4 DEF U
<1>2. ASSUME held # 0, ~sessions[tokens[held].session].revoked, ~Usable(held)
      PROVE  Unanswered(held)
  <2>1. held \in 1..Len(tokens)
    BY <1>2, TokenFacts
  <2>2. ~tokens[held].revoked
    BY <1>2, <2>1 DEF EndInv, SpentIsKnown, SessionOf
  <2>3. tokens[held].consumed
    BY <1>2, <2>2 DEF Usable, Spent
  <2> QED
    BY <1>2, <2>3 DEF HoldInv, HeldOrUnanswered
<1> QED
  BY <1>1, <1>2 DEF HolderCanGoOn, Unanswered

\* Of the tokens of a session, which rotate_refresh_token (security/session.py)
\* consumes and inserts two rows at a time without another look at either, one at
\* most can be used unless two refreshes of one token overlapped; and a client
\* whose session was not ended can go on with the token it keeps, or has a refresh
\* that was not answered.
THEOREM HoldersGoOn == Spec => []HolderCanGoOn
BY HoldHolds, HoldMeans, PTL

-----------------------------------------------------------------------------
(* Logins are earned. *)

Enters(x) == x.pc \in {"mark", "session"}
Counts(x, c) == x.challenge = c /\ x.pc \in {"load", "count"}

LEMMA EnteringCard ==
   ASSUME Typed, NEW r \in Requests, NEW t, Becomes(r, t)
   PROVE  /\ Cardinality(Entering) \in Nat /\ Cardinality(Entering') \in Nat
          /\ (Enters(t) <=> Enters(request[r])) => Entering' = Entering
          /\ Enters(t) /\ ~Enters(request[r]) =>
                Cardinality(Entering') = Cardinality(Entering) + 1
          /\ ~Enters(t) /\ Enters(request[r]) =>
                Cardinality(Entering') = Cardinality(Entering) - 1
<1>1. /\ request'[r] = t
      /\ \A q \in Requests : q # r => request'[q] = request[q]
  BY Replaced
<1>2. IsFiniteSet(Entering) /\ IsFiniteSet(Entering')
  BY RequestsAreFinite, FS_Subset DEF Entering
<1>3. (Enters(t) <=> Enters(request[r])) => Entering' = Entering
  BY <1>1 DEF Entering, Enters
<1>4. Enters(t) /\ ~Enters(request[r]) => r \notin Entering /\ Entering' = Entering \cup {r}
  BY <1>1 DEF Entering, Enters
<1>5. ~Enters(t) /\ Enters(request[r]) => r \in Entering /\ Entering' = Entering \ {r}
  BY <1>1 DEF Entering, Enters
<1> QED
  BY <1>2, <1>3, <1>4, <1>5, FS_CardinalityType, CardAddNew, CardLess

LEMMA CountingCard ==
   ASSUME Typed, NEW r \in Requests, NEW t, Becomes(r, t), NEW c
   PROVE  /\ Cardinality(Counting(c)) \in Nat /\ Cardinality(Counting(c)') \in Nat
          /\ (Counts(t, c) <=> Counts(request[r], c)) => Counting(c)' = Counting(c)
          /\ Counts(t, c) /\ ~Counts(request[r], c) =>
                Cardinality(Counting(c)') = Cardinality(Counting(c)) + 1
          /\ ~Counts(t, c) /\ Counts(request[r], c) =>
                Cardinality(Counting(c)') = Cardinality(Counting(c)) - 1
<1>1. /\ request'[r] = t
      /\ \A q \in Requests : q # r => request'[q] = request[q]
  BY Replaced
<1>2. IsFiniteSet(Counting(c)) /\ IsFiniteSet(Counting(c)')
  BY RequestsAreFinite, FS_Subset DEF Counting
<1>3. (Counts(t, c) <=> Counts(request[r], c)) => Counting(c)' = Counting(c)
  BY <1>1 DEF Counting, Counts
<1>4. Counts(t, c) /\ ~Counts(request[r], c) =>
         r \notin Counting(c) /\ Counting(c)' = Counting(c) \cup {r}
  BY <1>1 DEF Counting, Counts
<1>5. ~Counts(t, c) /\ Counts(request[r], c) =>
         r \in Counting(c) /\ Counting(c)' = Counting(c) \ {r}
  BY <1>1 DEF Counting, Counts
<1> QED
  BY <1>2, <1>3, <1>4, <1>5, FS_CardinalityType, CardAddNew, CardLess

LEMMA LostStaysLost ==
   ASSUME Typed, NEW r \in Requests, NEW t, Becomes(r, t), request[r].pc # "lost", NEW c, Lost(c)
   PROVE  Lost(c)'
<1>1. PICK q \in Requests : request[q].challenge = c /\ request[q].pc = "lost"
  BY DEF Lost
<1>2. request'[q] = request[q]
  BY <1>1, Replaced
<1> QED
  BY <1>1, <1>2 DEF Lost

\* All rows but one are left alone, and so is who counts on them.
LEMMA RowsKept ==
   ASSUME Typed, RowsAreCounted, NEW r \in Requests, NEW t, Becomes(r, t),
          request[r].pc # "lost", Len(challenges') = Len(challenges), NEW d,
          \A c \in 1..Len(challenges) : c # d =>
             challenges'[c] = challenges[c] /\ (Counts(t, c) <=> Counts(request[r], c)),
          d \in 1..Len(challenges) => RowIsCounted(d)'
   PROVE  RowsAreCounted'
<1> SUFFICES ASSUME NEW c \in 1..Len(challenges), c # d PROVE RowIsCounted(c)'
  BY DEF RowsAreCounted
<1>1. challenges'[c] = challenges[c] /\ Counting(c)' = Counting(c)
  BY CountingCard
<1>2. RowIsCounted(c)
  BY DEF RowsAreCounted
<1>3. Lost(c) => Lost(c)'
  BY LostStaysLost
<1> QED
  BY <1>1, <1>2, <1>3 DEF RowIsCounted

\* What is about to be written may be written still.
WriteIsEarned(x) ==
   LET row == challenges[x.challenge] IN
      /\ x.pc = "mark" => row.approved
      /\ x.pc = "expire" => row.late
      /\ x.pc = "count" => x.attempts + Cardinality(Counting(x.challenge)) <= row.failed

Kinder ==
   \A c \in 1..Len(challenges) :
      /\ challenges[c].approved => challenges'[c].approved
      /\ challenges[c].late => challenges'[c].late
      /\ challenges'[c].failed \in Nat
      /\ challenges[c].failed + Cardinality(Counting(c)') <=
            challenges'[c].failed + Cardinality(Counting(c))

LEMMA WritesKept ==
   ASSUME Typed, WritesAreEarned, NEW r \in Requests, NEW t, Becomes(r, t), Kinder,
          WriteIsEarned(t)'
   PROVE  WritesAreEarned'
<1>1. /\ request'[r] = t
      /\ \A q \in Requests : q # r => request'[q] = request[q]
  BY Replaced
<1>2. ASSUME NEW q \in Requests PROVE WriteIsEarned(request[q])'
  <2>1. CASE q = r
    BY <1>1, <2>1 DEF WriteIsEarned
  <2>2. CASE q # r /\ request[q].pc \notin {"mark", "expire", "count"}
    BY <1>1, <2>2 DEF WriteIsEarned
  <2>3. CASE q # r /\ request[q].pc \in {"mark", "expire", "count"}
    <3>1. PICK x \in RequestRecords : x = request[q]
      BY RequestRecord
    <3>2. PICK c \in 1..Len(challenges) : c = x.challenge
      BY <2>3, <3>1, ChallengeFacts DEF OnChallenge
    <3>3. request'[q] = x /\ WriteIsEarned(x)
      BY <1>1, <2>3, <3>1 DEF WritesAreEarned, WriteIsEarned
    <3>4. /\ Cardinality(Counting(c)) \in Nat /\ Cardinality(Counting(c)') \in Nat
          /\ challenges[c].failed \in Nat /\ x.attempts \in Nat
      BY <3>1, CountingCard, ChallengeFacts DEF ChallengeRecords, RequestRecords
    <3>5. /\ x.pc = "mark" => challenges'[c].approved
          /\ x.pc = "expire" => challenges'[c].late
      BY <3>2, <3>3 DEF WriteIsEarned, Kinder
    <3>6. x.pc = "count" => x.attempts + Cardinality(Counting(c)') <= challenges'[c].failed
      <4>1. x.pc = "count" => x.attempts + Cardinality(Counting(c)) <= challenges[c].failed
        BY <3>2, <3>3 DEF WriteIsEarned
      <4>2. /\ challenges'[c].failed \in Nat
            /\ challenges[c].failed + Cardinality(Counting(c)') <=
                  challenges'[c].failed + Cardinality(Counting(c))
        BY DEF Kinder
      <4> QED
        BY <3>4, <4>1, <4>2
    <3> QED
      BY <3>2, <3>3, <3>5, <3>6 DEF WriteIsEarned, Counting
  <2> QED
    BY <2>1, <2>2, <2>3
<1> QED
  BY <1>2 DEF WritesAreEarned, WriteIsEarned

\* Nobody is let in that was not in, unless with a password.
LEMMA EntryKept ==
   ASSUME Typed, OpenedAreApproved, StrangersStayOut, NEW r \in Requests, NEW t, Becomes(r, t),
          account'.kind = account.kind, past'.opened = past.opened,
          past'.approvals = past.approvals,
          sessions = <<>> => sessions' = <<>>,
          Enters(t) => Enters(request[r]) \/ account.kind = "web"
   PROVE  OpenedAreApproved' /\ StrangersStayOut'
<1>1. /\ Cardinality(Entering) \in Nat /\ Cardinality(Entering') \in Nat
      /\ past.opened \in Nat /\ past.approvals \in Nat
  BY EnteringCard DEF Typed, PastTyped, PastRecords
<1>2. account.kind # "web" => Cardinality(Entering') <= Cardinality(Entering)
  BY <1>1, EnteringCard
<1>3. account.kind = "unregistered" => Entering' = {}
  <2> SUFFICES ASSUME account.kind = "unregistered" PROVE Entering' = {}
    OBVIOUS
  <2>1. Entering = {} /\ ~Enters(request[r]) /\ ~Enters(t)
    BY DEF StrangersStayOut, Entering, Enters
  <2> QED
    BY <2>1, EnteringCard
<1> QED
  BY <1>1, <1>2, <1>3 DEF OpenedAreApproved, StrangersStayOut

\* A step that leaves every challenge alone, and nobody starts or stops counting.
Neutral(r, t) ==
   /\ Becomes(r, t) /\ request[r].pc # "lost"
   /\ \A c \in 1..Len(challenges) : Counts(t, c) <=> Counts(request[r], c)
   /\ Enters(t) => Enters(request[r]) \/ account.kind = "web"
   /\ t.pc # "mark"
   /\ t.pc = "expire" => challenges[t.challenge].late
   /\ t.pc = "count" => /\ t.challenge \in 1..Len(challenges)
                        /\ t.attempts = challenges[t.challenge].attempts

CountsStay == past'.opened = past.opened /\ past'.approvals = past.approvals

LEMMA LoginNeutral ==
   ASSUME Typed, LoginInv, NEW r \in Requests, NEW t, Neutral(r, t),
          account'.kind = account.kind, UNCHANGED challenges, CountsStay,
          sessions = <<>> => sessions' = <<>>
   PROVE  LoginInv'
<1>1. Becomes(r, t) /\ request[r].pc # "lost"
  BY DEF Neutral
<1>2. \A c \in 1..Len(challenges) : Counting(c)' = Counting(c)
  BY <1>1, CountingCard DEF Neutral
<1>3. RowsAreCounted'
  <2>1. 0 \notin 1..Len(challenges)
    BY ChallengeFacts
  <2>2. \A c \in 1..Len(challenges) :
           challenges'[c] = challenges[c] /\ (Counts(t, c) <=> Counts(request[r], c))
    BY DEF Neutral
  <2> QED
    BY <1>1, <2>1, <2>2, RowsKept DEF LoginInv
<1>4. WritesAreEarned'
  <2>1. Kinder
    BY <1>1, <1>2, CountingCard, ChallengeFacts DEF Kinder, ChallengeRecords
  <2>2. WriteIsEarned(t)'
    <3>1. CASE t.pc # "count"
      BY <3>1 DEF WriteIsEarned, Neutral
    <3>2. CASE t.pc = "count"
      <4>1. PICK c \in 1..Len(challenges) : c = t.challenge
        BY <3>2 DEF Neutral
      <4>2. t.attempts = challenges[c].attempts /\ RowIsCounted(c)
        BY <3>2, <4>1 DEF Neutral, LoginInv, RowsAreCounted
      <4>3. t.attempts + Cardinality(Counting(c)') <= challenges'[c].failed
        BY <1>2, <4>2 DEF RowIsCounted
      <4> QED
        BY <3>2, <4>1, <4>3 DEF WriteIsEarned, Counting
    <3> QED
      BY <3>1, <3>2
  <2> QED
    BY <1>1, <2>1, <2>2, WritesKept DEF LoginInv
<1>5. OpenedAreApproved' /\ StrangersStayOut'
  BY <1>1, EntryKept DEF Neutral, LoginInv, CountsStay
<1> QED
  BY <1>3, <1>4, <1>5 DEF LoginInv

LEMMA NeutralMove ==
   ASSUME Typed, NEW r \in Requests, NEW t, Becomes(r, t),
          request[r].pc \notin {"load", "count", "lost"},
          t.pc \in {"challenge", "check", "rotate", "answer", "stamp", "over", "answered"}
   PROVE  Neutral(r, t)
BY DEF Neutral, Counts, Enters

LEMMA NoSessionsStay ==
   ASSUME Typed, sessions' \in Seq(SessionRecords), Len(sessions') = Len(sessions)
   PROVE  sessions = <<>> => sessions' = <<>>
BY DEF Typed, TokensTyped

LEMMA LoginTurns ==
   ASSUME Typed, LoginInv, NEW r \in Requests,
          \/ RequestOtp(r) \/ VerifyOtp(r) \/ Login(r) \/ BeginRefresh(r)
          \/ RevokeDriverSession(r) \/ Logout(r) \/ Validate(r)
   PROVE  LoginInv'
<1>1. request[r].pc = "idle"
  BY DEF RequestOtp, VerifyOtp, Login, BeginRefresh, RevokeDriverSession, Logout, Validate, Turn, At
<1>2. CASE RequestOtp(r)
  <2>1. Goto(r, "challenge") /\ "challenge" \in Steps
    BY <1>2 DEF RequestOtp, Steps
  <2>2. PICK t : Becomes(r, t) /\ t.pc = "challenge"
    BY <2>1, GotoEffect DEF Moves
  <2> QED
    BY <1>1, <1>2, <2>2, NeutralMove, LoginNeutral DEF RequestOtp, CountsStay
<1>3. CASE VerifyOtp(r)
  <2>1. PICK t : /\ Becomes(r, t)
                 /\ t.pc \in {"over", "check"} \/ (t.pc = "expire" /\ challenges[t.challenge].late)
    BY <1>3, VerifyEffect
  <2>2. Neutral(r, t)
    BY <1>1, <2>1 DEF Neutral, Counts, Enters
  <2> QED
    BY <1>3, <2>2, LoginNeutral DEF VerifyOtp, CountsStay
<1>4. CASE Login(r)
  <2>1. PICK t : Becomes(r, t) /\ t.pc \in {"session", "over"}
    BY <1>1, <1>4, LoginStep DEF Moves, Lose
  <2>2. Neutral(r, t)
    BY <1>1, <1>4, <2>1 DEF Neutral, Counts, Enters, Login
  <2> QED
    BY <1>4, <2>2, LoginNeutral DEF Login, CountsStay
<1>5. CASE BeginRefresh(r)
  <2>1. UNCHANGED <<account, challenges>> /\ CountsStay
    BY <1>5, RefreshEffect DEF CountsStay
  <2>2. PICK t : Becomes(r, t) /\ t.pc \in {"over", "rotate"}
    BY <1>5, RefreshEffect DEF Moves
  <2>3. sessions = <<>> => sessions' = <<>>
    <3>1. CASE UNCHANGED sessions
      BY <3>1
    <3>2. CASE Revoked(SessionOf(held))
      BY <3>2, NoSessionsStay DEF Revoked
    <3> QED
      BY <1>5, <3>1, <3>2, RefreshEffect
  <2> QED
    BY <1>1, <2>1, <2>2, <2>3, NeutralMove, LoginNeutral
<1>6. CASE RevokeDriverSession(r) \/ Logout(r)
  <2>1. UNCHANGED <<account, challenges>>
    BY <1>6, LogoutEffect
  <2>2. PICK t : Becomes(r, t) /\ t.pc = "over"
    BY <1>6, LogoutEffect DEF Moves
  <2>3. CountsStay /\ (sessions = <<>> => sessions' = <<>>)
    <3>1. CASE UNCHANGED <<sessions, tokens, past>>
      BY <3>1 DEF CountsStay
    <3>2. ASSUME NEW s \in 1..Len(sessions), EndsSession(s)
          PROVE  CountsStay /\ (sessions = <<>> => sessions' = <<>>)
      BY <3>2, EndEffect, NoSessionsStay DEF Revoked, CountsStay
    <3> QED
      BY <1>6, <3>1, <3>2, LogoutEffect
  <2> QED
    BY <1>1, <2>1, <2>2, <2>3, NeutralMove, LoginNeutral
<1>7. CASE Validate(r)
  <2>1. PICK t : Becomes(r, t) /\ t.pc \in {"over", "stamp"}
    BY <1>7, ValidateStep
  <2> QED
    BY <1>1, <1>7, <2>1, NeutralMove, LoginNeutral DEF Validate, CountsStay
<1> QED
  BY <1>2, <1>3, <1>4, <1>5, <1>6, <1>7

LEMMA LoginGoesOn ==
   ASSUME Typed, LoginInv, NEW r \in Requests,
          \/ CheckFails(r) \/ RotateToken(r) \/ Answer(r) \/ Stamp(r)
          \/ LoadChallenge(r) /\ ~challenges[request[r].challenge].late
   PROVE  LoginInv'
<1>1. CASE CheckFails(r)
  <2>1. Goto(r, "over") /\ "over" \in Steps
    BY <1>1 DEF CheckFails, Steps
  <2>2. PICK t : Becomes(r, t) /\ t.pc = "over"
    BY <2>1, GotoEffect DEF Moves
  <2> QED
    BY <1>1, <2>2, NeutralMove, LoginNeutral DEF CheckFails, CountsStay, At
<1>2. CASE RotateToken(r)
  <2>1. PICK t : Becomes(r, t) /\ t.pc = "answer"
    BY <1>2, RotateStep
  <2> QED
    BY <1>2, <2>1, NeutralMove, LoginNeutral DEF RotateToken, CountsStay, At
<1>3. CASE Answer(r)
  <2>1. PICK t : Becomes(r, t) /\ t.pc \in {"over", "answered"}
    BY <1>3, AnswerEffect DEF Moves
  <2> QED
    BY <1>3, <2>1, NeutralMove, LoginNeutral DEF Answer, CountsStay, At
<1>4. CASE Stamp(r)
  <2>1. Goto(r, "over") /\ "over" \in Steps
    BY <1>4 DEF Stamp, Steps
  <2>2. PICK t : Becomes(r, t) /\ t.pc = "over"
    BY <2>1, GotoEffect DEF Moves
  <2>3. request[r].pc = "stamp" /\ UNCHANGED <<account, challenges, sessions, past>>
    BY <1>4, StampEffect DEF Stamp, At
  <2> QED
    BY <2>2, <2>3, NeutralMove, LoginNeutral DEF CountsStay
<1>5. CASE LoadChallenge(r) /\ ~challenges[request[r].challenge].late
  <2>1. PICK t : /\ Becomes(r, t) /\ t.pc = "count"
                 /\ t.challenge = request[r].challenge
                 /\ t.attempts = challenges[request[r].challenge].attempts
    BY <1>5, LoadEffect
  <2>2. request[r].pc = "load" /\ request[r].challenge \in 1..Len(challenges)
    BY <1>5, ChallengeFacts DEF LoadChallenge, At, OnChallenge
  <2>3. Neutral(r, t)
    BY <2>1, <2>2 DEF Neutral, Counts, Enters
  <2> QED
    BY <1>5, <2>3, LoginNeutral DEF LoadChallenge, CountsStay
<1> QED
  BY <1>1, <1>2, <1>3, <1>4, <1>5

\* The request's row is rewritten.
LEMMA LoginRewrites ==
   ASSUME Typed, LoginInv, NEW r \in Requests, NEW t, Becomes(r, t),
          request[r].pc \in OnChallenge, NEW c \in 1..Len(challenges), c = request[r].challenge,
          t.challenge = c, t.pc \in {"over", "load", "session", "mark"},
          NEW x, Rewrites(c, x), t.pc = "mark" => x.approved,
          challenges[c].approved => x.approved, challenges[c].late => x.late,
          challenges[c].failed + Cardinality(Counting(c)') <= x.failed + Cardinality(Counting(c)),
          RowIsCounted(c)', OpenedAreApproved', StrangersStayOut'
   PROVE  LoginInv'
<1>1. /\ Len(challenges') = Len(challenges) /\ challenges'[c] = x /\ x \in ChallengeRecords
      /\ \A o \in 1..Len(challenges) : o # c => challenges'[o] = challenges[o]
  BY DEF Rewrites
<1>2. \A o \in 1..Len(challenges) : o # c => (Counts(t, o) <=> Counts(request[r], o))
  BY DEF Counts
<1>3. request[r].pc # "lost"
  BY DEF OnChallenge
<1>4. RowsAreCounted'
  BY <1>1, <1>2, <1>3, RowsKept DEF LoginInv
<1>5. Kinder
  <2> SUFFICES ASSUME NEW o \in 1..Len(challenges)
               PROVE  /\ challenges[o].approved => challenges'[o].approved
                      /\ challenges[o].late => challenges'[o].late
                      /\ challenges'[o].failed \in Nat
                      /\ challenges[o].failed + Cardinality(Counting(o)') <=
                            challenges'[o].failed + Cardinality(Counting(o))
    BY DEF Kinder
  <2>1. CASE o = c
    BY <1>1, <2>1 DEF ChallengeRecords
  <2>2. CASE o # c
    <3>1. challenges'[o] = challenges[o] /\ Counting(o)' = Counting(o)
      BY <1>1, <1>2, <2>2, CountingCard
    <3> QED
      BY <3>1, CountingCard, ChallengeFacts DEF ChallengeRecords
  <2> QED
    BY <2>1, <2>2
<1>6. WriteIsEarned(t)'
  BY <1>1 DEF WriteIsEarned
<1>7. WritesAreEarned'
  BY <1>5, <1>6, WritesKept DEF LoginInv
<1> QED
  BY <1>4, <1>7 DEF LoginInv

\* The numbers a row is about.
LEMMA RowFacts ==
   ASSUME Typed, LoginInv, NEW r \in Requests, request[r].pc \in OnChallenge
   PROVE  /\ request[r].challenge \in 1..Len(challenges)
          /\ challenges[request[r].challenge] \in ChallengeRecords
          /\ RowIsCounted(request[r].challenge)
          /\ request[r].attempts \in Nat
          /\ MaxAttempts \in Nat \ {0}
BY ChallengeFacts, RequestRecord, SessionsAssumption DEF LoginInv, RowsAreCounted, RequestRecords

LEMMA LoginDenied ==
   ASSUME Typed, LoginInv, NEW r \in Requests, CodeDenied(r) PROVE LoginInv'
<1>1. request[r].pc = "check" /\ request[r].pc \in OnChallenge
  BY DEF CodeDenied, At, OnChallenge
<1>2. PICK c \in 1..Len(challenges) : c = request[r].challenge
  BY <1>1, RowFacts
<1>3. PICK row \in ChallengeRecords : row = challenges[c]
  BY <1>1, <1>2, RowFacts
<1>4. PICK x : /\ Rewrites(c, x)
               /\ x.attempts = row.attempts /\ x.late = row.late
               /\ x.failed = row.failed + 1 /\ x.approved = row.approved
               /\ x.overlapped = row.overlapped /\ x.status = row.status
  BY <1>2, <1>3, DeniedEffect
<1>5. PICK t : Moves(r, t) /\ t.pc = "load"
  <2>1. Goto(r, "load") /\ "load" \in Steps
    BY DEF CodeDenied, Steps
  <2> QED
    BY <2>1, GotoEffect
<1>6. Becomes(r, t) /\ t.challenge = c
  BY <1>2, <1>5 DEF Moves
<1>7. /\ Cardinality(Counting(c)) \in Nat
      /\ Cardinality(Counting(c)') = Cardinality(Counting(c)) + 1
  BY <1>1, <1>5, <1>6, CountingCard DEF Counts
<1>8. RowIsCounted(c)'
  <2>1. RowIsCounted(c) /\ (Lost(c) => Lost(c)')
    BY <1>1, <1>2, <1>6, RowFacts, LostStaysLost
  <2>2. challenges'[c] = x
    BY <1>4 DEF Rewrites
  <2> QED
    BY <1>3, <1>4, <1>7, <2>1, <2>2 DEF RowIsCounted, ChallengeRecords
<1>9. OpenedAreApproved' /\ StrangersStayOut'
  BY <1>5, <1>6, EntryKept DEF CodeDenied, LoginInv, Enters
<1>10. challenges[c].failed + Cardinality(Counting(c)') <= x.failed + Cardinality(Counting(c))
  BY <1>3, <1>4, <1>7 DEF ChallengeRecords
<1> QED
  BY <1>1, <1>2, <1>3, <1>4, <1>5, <1>6, <1>8, <1>9, <1>10, LoginRewrites

\* The provider approves the code: one approval more for one that enters.
LEMMA LoginApproved ==
   ASSUME Typed, LoginInv, NEW r \in Requests, CodeApproved(r) PROVE LoginInv'
<1>1. request[r].pc = "check" /\ request[r].pc \in OnChallenge
  BY DEF CodeApproved, At, OnChallenge
<1>2. PICK c \in 1..Len(challenges) : c = request[r].challenge
  BY <1>1, RowFacts
<1>3. PICK row \in ChallengeRecords : row = challenges[c]
  BY <1>1, <1>2, RowFacts
<1>4. PICK x : /\ Rewrites(c, x)
               /\ x.attempts = row.attempts /\ x.late = row.late
               /\ x.failed = row.failed /\ x.approved
               /\ x.overlapped = row.overlapped /\ x.status = row.status
  BY <1>2, <1>3, ApprovedEffect
<1>5. PICK t : Moves(r, t) /\ t.pc = (IF account.kind = "unregistered" THEN "over" ELSE "mark")
  <2> DEFINE pc == IF account.kind = "unregistered" THEN "over" ELSE "mark"
  <2>1. Goto(r, pc) /\ pc \in Steps
    BY DEF CodeApproved, Steps
  <2> HIDE DEF pc
  <2>2. PICK t : Moves(r, t) /\ t.pc = pc
    BY <2>1, GotoEffect
  <2> QED
    BY <2>2 DEF pc
<1>6. Becomes(r, t) /\ t.challenge = c /\ t.pc \in {"over", "mark"}
  BY <1>2, <1>5 DEF Moves
<1>7. Cardinality(Counting(c)) \in Nat /\ Counting(c)' = Counting(c)
  BY <1>1, <1>6, CountingCard DEF Counts
<1>8. RowIsCounted(c)'
  <2>1. RowIsCounted(c) /\ (Lost(c) => Lost(c)')
    BY <1>1, <1>2, <1>6, RowFacts, LostStaysLost
  <2>2. challenges'[c] = x
    BY <1>4 DEF Rewrites
  <2> QED
    BY <1>3, <1>4, <1>7, <2>1, <2>2 DEF RowIsCounted, ChallengeRecords
<1>9. OpenedAreApproved' /\ StrangersStayOut'
  <2>1. past'.approvals = past.approvals + 1 /\ past'.opened = past.opened
    BY CountEffect DEF CodeApproved
  <2>2. UNCHANGED <<account, sessions>>
    BY DEF CodeApproved
  <2>3. /\ past.opened \in Nat /\ past.approvals \in Nat
        /\ Cardinality(Entering) \in Nat /\ Cardinality(Entering') \in Nat
        /\ Cardinality(Entering') <= Cardinality(Entering) + 1
    BY <1>6, EnteringCard DEF Typed, PastTyped, PastRecords
  <2>4. OpenedAreApproved'
    BY <2>1, <2>2, <2>3 DEF LoginInv, OpenedAreApproved
  <2>5. account.kind = "unregistered" => Entering' = Entering
    BY <1>1, <1>5, <1>6, EnteringCard DEF Enters
  <2>6. StrangersStayOut'
    BY <2>2, <2>5 DEF LoginInv, StrangersStayOut
  <2> QED
    BY <2>4, <2>6
<1>10. challenges[c].failed + Cardinality(Counting(c)') <= x.failed + Cardinality(Counting(c))
  BY <1>3, <1>4, <1>7 DEF ChallengeRecords
<1> QED
  BY <1>1, <1>2, <1>3, <1>4, <1>6, <1>8, <1>9, <1>10, LoginRewrites

\* A count that was read is written, plus one.
LEMMA LoginCounted ==
   ASSUME Typed, LoginInv, NEW r \in Requests, IncrementAttempts(r) PROVE LoginInv'
<1>1. request[r].pc = "count" /\ request[r].pc \in OnChallenge
  BY DEF IncrementAttempts, At, OnChallenge
<1>2. PICK c \in 1..Len(challenges) : c = request[r].challenge
  BY <1>1, RowFacts
<1>3. PICK row \in ChallengeRecords : row = challenges[c]
  BY <1>1, <1>2, RowFacts
<1>4. PICK n \in Nat : n = request[r].attempts
  BY <1>1, RowFacts
<1>5. PICK x : /\ Rewrites(c, x)
               /\ x.attempts = n + 1 /\ x.late = row.late /\ x.failed = row.failed
               /\ x.approved = row.approved
               /\ x.overlapped = (row.overlapped \/ row.attempts # n)
               /\ x.status = IF n + 1 >= MaxAttempts THEN "locked" ELSE row.status
  BY <1>2, <1>3, <1>4, CountedEffect
<1>6. PICK t : Moves(r, t) /\ t.pc = "over"
  <2>1. Goto(r, "over") /\ "over" \in Steps
    BY DEF IncrementAttempts, Steps
  <2> QED
    BY <2>1, GotoEffect
<1>7. Becomes(r, t) /\ t.challenge = c
  BY <1>2, <1>6 DEF Moves
<1>8. /\ Cardinality(Counting(c)) \in Nat /\ Cardinality(Counting(c)') \in Nat
      /\ Cardinality(Counting(c)') = Cardinality(Counting(c)) - 1
  BY <1>1, <1>2, <1>6, <1>7, CountingCard DEF Counts
<1>9. RowIsCounted(c)'
  <2>1. RowIsCounted(c) /\ (Lost(c) => Lost(c)')
    BY <1>1, <1>2, <1>7, RowFacts, LostStaysLost
  <2>2. challenges'[c] = x
    BY <1>5 DEF Rewrites
  <2>3. n + Cardinality(Counting(c)) <= row.failed
    BY <1>1, <1>2, <1>3, <1>4 DEF LoginInv, WritesAreEarned
  <2>4. /\ row.attempts \in Nat /\ row.failed \in Nat /\ MaxAttempts \in Nat
        /\ row.overlapped \in BOOLEAN
    BY <1>1, <1>3, RowFacts DEF ChallengeRecords
  <2>5. x.status = "verified" => x.approved
    BY <1>3, <1>5, <2>1 DEF RowIsCounted
  <2>6. x.attempts + Cardinality(Counting(c)') <= x.failed
    BY <1>5, <1>8, <2>3, <2>4
  <2>7. x.attempts + Cardinality(Counting(c)') = x.failed \/ x.overlapped \/ x.late \/ Lost(c)'
    <3>1. CASE row.attempts # n
      BY <1>5, <3>1
    <3>2. CASE row.attempts = n
      <4>1. \/ row.attempts + Cardinality(Counting(c)) = row.failed
            \/ row.overlapped \/ row.late \/ Lost(c)
        BY <1>3, <2>1 DEF RowIsCounted
      <4>2. CASE row.attempts + Cardinality(Counting(c)) = row.failed
        BY <1>5, <1>8, <2>4, <3>2, <4>2
      <4>3. CASE row.overlapped \/ row.late \/ Lost(c)
        BY <1>5, <2>1, <4>3
      <4> QED
        BY <4>1, <4>2, <4>3
    <3> QED
      BY <3>1, <3>2
  <2>8. x.attempts >= MaxAttempts => x.status = "locked"
    BY <1>5, <2>4
  <2> QED
    BY <2>2, <2>5, <2>6, <2>7, <2>8 DEF RowIsCounted
<1>10. OpenedAreApproved' /\ StrangersStayOut'
  BY <1>6, <1>7, EntryKept DEF IncrementAttempts, LoginInv, Enters
<1>11. challenges[c].failed + Cardinality(Counting(c)') <= x.failed + Cardinality(Counting(c))
  BY <1>3, <1>5, <1>8 DEF ChallengeRecords
<1> QED
  BY <1>1, <1>2, <1>3, <1>5, <1>6, <1>7, <1>9, <1>10, <1>11, LoginRewrites

\* A challenge that is late expires, and one that was approved is verified.
LEMMA LoginStatus ==
   ASSUME Typed, LoginInv, NEW r \in Requests,
          \/ ExpireChallenge(r) \/ MarkVerified(r)
          \/ LoadChallenge(r) /\ challenges[request[r].challenge].late
   PROVE  LoginInv'
<1>1. request[r].pc \in OnChallenge
  BY DEF ExpireChallenge, MarkVerified, LoadChallenge, At, OnChallenge
<1>2. PICK c \in 1..Len(challenges) : c = request[r].challenge
  BY <1>1, RowFacts
<1>3. PICK row \in ChallengeRecords : row = challenges[c]
  BY <1>1, <1>2, RowFacts
<1>4. PICK pc \in {"over", "session"}, st \in {"verified", "expired"} :
         /\ Goto(r, pc) /\ SetStatus(r, st)
         /\ \/ pc = "over" /\ st = "expired" /\ row.late
            \/ pc = "session" /\ st = "verified" /\ row.approved /\ request[r].pc = "mark"
  <2>1. CASE MarkVerified(r)
    <3>1. Goto(r, "session") /\ SetStatus(r, "verified") /\ request[r].pc = "mark"
      BY <2>1 DEF MarkVerified, At
    <3>2. row.approved
      BY <1>2, <1>3, <3>1 DEF LoginInv, WritesAreEarned
    <3> QED
      BY <3>1, <3>2
  <2>2. CASE ExpireChallenge(r)
    <3>1. Goto(r, "over") /\ SetStatus(r, "expired") /\ request[r].pc = "expire"
      BY <2>2 DEF ExpireChallenge, At
    <3>2. row.late
      BY <1>2, <1>3, <3>1 DEF LoginInv, WritesAreEarned
    <3> QED
      BY <3>1, <3>2
  <2>3. CASE LoadChallenge(r) /\ challenges[request[r].challenge].late
    BY <1>2, <1>3, <2>3 DEF LoadChallenge
  <2> QED
    BY <2>1, <2>2, <2>3
<1>5. PICK x : /\ Rewrites(c, x) /\ x.status = st
               /\ x.attempts = row.attempts /\ x.late = row.late /\ x.failed = row.failed
               /\ x.overlapped = row.overlapped /\ x.approved = row.approved
  BY <1>1, <1>2, <1>3, <1>4, SetStatusEffect
<1>6. PICK t : Moves(r, t) /\ t.pc = pc
  <2>1. pc \in Steps
    BY DEF Steps
  <2> QED
    BY <1>4, <2>1, GotoEffect
<1>7. Becomes(r, t) /\ t.challenge = c /\ t.pc \in {"over", "session"}
  BY <1>2, <1>6 DEF Moves
<1>8. /\ Cardinality(Counting(c)) \in Nat /\ Cardinality(Counting(c)') \in Nat
      /\ Cardinality(Counting(c)') <= Cardinality(Counting(c))
  BY <1>7, CountingCard DEF Counts
<1>9. request[r].pc = "mark" => Counting(c)' = Counting(c)
  BY <1>7, CountingCard DEF Counts
<1>10. RowIsCounted(c)'
  <2>1. RowIsCounted(c) /\ (Lost(c) => Lost(c)')
    BY <1>1, <1>2, <1>7, RowFacts, LostStaysLost DEF OnChallenge
  <2>2. challenges'[c] = x
    BY <1>5 DEF Rewrites
  <2>3. x.attempts + Cardinality(Counting(c)') <= x.failed
    BY <1>3, <1>5, <1>8, <2>1 DEF RowIsCounted, ChallengeRecords
  <2>4. x.attempts + Cardinality(Counting(c)') = x.failed \/ x.overlapped \/ x.late \/ Lost(c)'
    BY <1>3, <1>4, <1>5, <1>9, <2>1 DEF RowIsCounted
  <2> QED
    BY <1>4, <1>5, <2>2, <2>3, <2>4 DEF RowIsCounted
<1>11. OpenedAreApproved' /\ StrangersStayOut'
  <2>1. Enters(t) => Enters(request[r])
    BY <1>4, <1>6 DEF Enters
  <2>2. UNCHANGED <<account, sessions, past>>
    BY DEF ExpireChallenge, MarkVerified, LoadChallenge
  <2> QED
    BY <1>7, <2>1, <2>2, EntryKept DEF LoginInv
<1>12. challenges[c].failed + Cardinality(Counting(c)') <= x.failed + Cardinality(Counting(c))
  BY <1>3, <1>5, <1>8 DEF ChallengeRecords
<1> QED
  BY <1>1, <1>2, <1>3, <1>5, <1>7, <1>10, <1>11, <1>12, LoginRewrites

\* A request is lost, and what it was counting with it.
LEMMA LoginLoses ==
   ASSUME Typed, LoginInv, NEW r \in Requests, Lose(r) PROVE LoginInv'
<1>1. PICK t : Moves(r, t) /\ t.pc = "lost"
  <2>1. Goto(r, "lost") /\ "lost" \in Steps
    BY DEF Lose, Steps
  <2> QED
    BY <2>1, GotoEffect
<1>2. /\ UNCHANGED <<account, challenges, sessions, past>>
      /\ Becomes(r, t) /\ t.challenge = request[r].challenge /\ request[r].pc # "lost"
  BY <1>1 DEF Lose, Moves
<1>3. \A c : /\ Cardinality(Counting(c)) \in Nat /\ Cardinality(Counting(c)') \in Nat
             /\ Cardinality(Counting(c)') <= Cardinality(Counting(c))
  BY <1>1, <1>2, CountingCard DEF Counts
<1>4. ASSUME NEW c \in 1..Len(challenges) PROVE RowIsCounted(c)'
  <2>1. RowIsCounted(c) /\ challenges[c] \in ChallengeRecords /\ (Lost(c) => Lost(c)')
    BY <1>2, ChallengeFacts, LostStaysLost DEF LoginInv, RowsAreCounted
  <2>2. CASE Counts(request[r], c)
    <3>1. Lost(c)'
      BY <1>1, <1>2, <2>2, Replaced DEF Lost, Counts
    <3> QED
      BY <1>2, <1>3, <2>1, <3>1 DEF RowIsCounted, ChallengeRecords
  <2>3. CASE ~Counts(request[r], c)
    <3>1. Counting(c)' = Counting(c)
      BY <1>1, <1>2, <2>3, CountingCard DEF Counts
    <3> QED
      BY <1>2, <2>1, <3>1 DEF RowIsCounted
  <2> QED
    BY <2>2, <2>3
<1>5. Kinder
  BY <1>2, <1>3, ChallengeFacts DEF Kinder, ChallengeRecords
<1>6. WriteIsEarned(t)'
  BY <1>1 DEF WriteIsEarned
<1>7. WritesAreEarned'
  BY <1>2, <1>5, <1>6, WritesKept DEF LoginInv
<1>8. OpenedAreApproved' /\ StrangersStayOut'
  BY <1>1, <1>2, EntryKept DEF LoginInv, Enters
<1> QED
  BY <1>2, <1>4, <1>7, <1>8 DEF LoginInv, RowsAreCounted

\* Nobody has entered a code for a challenge that is new.
LEMMA LoginChallenged ==
   ASSUME Typed, LoginInv, NEW r \in Requests, CreateChallenge(r) PROVE LoginInv'
<1>1. PICK n \in Nat : n = Len(challenges) + 1
  BY ChallengeFacts
<1>2. /\ Len(challenges') = n /\ challenges'[n] = NewChallenge
      /\ \A c \in 1..Len(challenges) : challenges'[c] = challenges[c]
  BY <1>1, NewChallengeEffect
<1>3. PICK t : Moves(r, t) /\ t.pc = "over"
  <2>1. Goto(r, "over") /\ "over" \in Steps
    BY DEF CreateChallenge, Steps
  <2> QED
    BY <2>1, GotoEffect
<1>4. /\ UNCHANGED <<account, sessions, past>> /\ Becomes(r, t) /\ request[r].pc = "challenge"
  BY <1>3 DEF CreateChallenge, Moves, At
<1>5. \A c : Cardinality(Counting(c)) \in Nat /\ Counting(c)' = Counting(c)
  BY <1>3, <1>4, CountingCard DEF Counts
<1>6. Counting(n) = {}
  BY <1>1, ChallengeFacts DEF Counting, OnChallenge
<1>7. RowsAreCounted'
  <2> SUFFICES ASSUME NEW c \in 1..n PROVE RowIsCounted(c)'
    BY <1>2 DEF RowsAreCounted
  <2>1. CASE c = n
    <3>1. Cardinality(Counting(c)') = 0 /\ MaxAttempts \in Nat \ {0}
      BY <1>5, <1>6, <2>1, FS_EmptySet, SessionsAssumption
    <3>2. challenges'[c] = NewChallenge
      BY <1>2, <2>1
    <3> QED
      BY <3>1, <3>2 DEF RowIsCounted, NewChallenge
  <2>2. CASE c # n
    <3>1. c \in 1..Len(challenges)
      BY <1>1, <2>2, ChallengeFacts
    <3>2. RowIsCounted(c) /\ challenges'[c] = challenges[c] /\ (Lost(c) => Lost(c)')
      BY <1>2, <1>4, <3>1, LostStaysLost DEF LoginInv, RowsAreCounted
    <3> QED
      BY <1>5, <3>2 DEF RowIsCounted
  <2> QED
    BY <2>1, <2>2
<1>8. Kinder
  BY <1>2, <1>5, ChallengeFacts DEF Kinder, ChallengeRecords
<1>9. WriteIsEarned(t)'
  BY <1>3 DEF WriteIsEarned
<1>10. WritesAreEarned'
  BY <1>4, <1>8, <1>9, WritesKept DEF LoginInv
<1>11. OpenedAreApproved' /\ StrangersStayOut'
  BY <1>3, <1>4, EntryKept DEF LoginInv, Enters
<1> QED
  BY <1>7, <1>10, <1>11 DEF LoginInv

\* One who entered opens a session.
LEMMA LoginCreates ==
   ASSUME Typed, LoginInv, NEW r \in Requests, CreateSession(r) PROVE LoginInv'
<1>1. PICK t : Becomes(r, t) /\ t.pc = "answer"
  BY CreateStep
<1>2. request[r].pc = "session" /\ UNCHANGED <<account, challenges>>
  BY DEF CreateSession, At
<1>3. \A c : Cardinality(Counting(c)) \in Nat /\ Counting(c)' = Counting(c)
  BY <1>1, <1>2, CountingCard DEF Counts
<1>4. RowsAreCounted'
  <2>1. 0 \notin 1..Len(challenges) /\ request[r].pc # "lost"
    BY <1>2, ChallengeFacts
  <2>2. \A c \in 1..Len(challenges) :
           challenges'[c] = challenges[c] /\ (Counts(t, c) <=> Counts(request[r], c))
    BY <1>1, <1>2 DEF Counts
  <2> QED
    BY <1>1, <1>2, <2>1, <2>2, RowsKept DEF LoginInv
<1>5. Kinder
  BY <1>2, <1>3, ChallengeFacts DEF Kinder, ChallengeRecords
<1>6. WriteIsEarned(t)'
  BY <1>1 DEF WriteIsEarned
<1>7. WritesAreEarned'
  BY <1>1, <1>5, <1>6, WritesKept DEF LoginInv
<1>8. OpenedAreApproved'
  <2>1. past'.opened = past.opened + 1 /\ past'.approvals = past.approvals
    BY CountEffect DEF CreateSession
  <2>2. /\ Cardinality(Entering) \in Nat /\ past.opened \in Nat /\ past.approvals \in Nat
        /\ Cardinality(Entering') = Cardinality(Entering) - 1
    BY <1>1, <1>2, EnteringCard DEF Enters, Typed, PastTyped, PastRecords
  <2> QED
    BY <1>2, <2>1, <2>2 DEF LoginInv, OpenedAreApproved
<1>9. StrangersStayOut'
  <2>1. r \in Entering
    BY <1>2 DEF Entering
  <2>2. account'.kind # "unregistered"
    BY <1>2, <2>1 DEF LoginInv, StrangersStayOut
  <2> QED
    BY <2>2 DEF StrangersStayOut
<1> QED
  BY <1>4, <1>7, <1>8, <1>9 DEF LoginInv

\* Time passes for a challenge.
LEMMA LoginLate ==
   ASSUME Typed, LoginInv, NEW d \in 1..MaxChallenges, ChallengeExpires(d) PROVE LoginInv'
<1>1. PICK x : /\ Rewrites(d, x) /\ x.late
               /\ LET row == challenges[d] IN
                     /\ x.attempts = row.attempts /\ x.failed = row.failed
                     /\ x.approved = row.approved
                     /\ x.overlapped = row.overlapped /\ x.status = row.status
  BY LateEffect
<1>2. /\ Len(challenges') = Len(challenges) /\ challenges'[d] = x
      /\ \A c \in 1..Len(challenges) : c # d => challenges'[c] = challenges[c]
  BY <1>1 DEF Rewrites
<1>3. UNCHANGED <<account, sessions, request, past>>
  BY DEF ChallengeExpires
<1>4. \A c \in 1..Len(challenges) :
         /\ challenges'[c].attempts = challenges[c].attempts
         /\ challenges'[c].failed = challenges[c].failed
         /\ challenges'[c].approved = challenges[c].approved
         /\ challenges'[c].overlapped = challenges[c].overlapped
         /\ challenges'[c].status = challenges[c].status
         /\ challenges[c].late => challenges'[c].late
  BY <1>1, <1>2
<1>5. RowsAreCounted'
  <2> SUFFICES ASSUME NEW c \in 1..Len(challenges) PROVE RowIsCounted(c)'
    BY <1>2 DEF RowsAreCounted
  <2>1. RowIsCounted(c) /\ Counting(c)' = Counting(c) /\ (Lost(c) => Lost(c)')
    BY <1>3 DEF LoginInv, RowsAreCounted, Counting, Lost
  <2> QED
    BY <1>4, <2>1 DEF RowIsCounted
<1>6. WritesAreEarned'
  <2> SUFFICES ASSUME NEW r \in Requests, request[r].pc \in {"mark", "expire", "count"}
               PROVE  WriteIsEarned(request[r])'
    BY <1>3 DEF WritesAreEarned, WriteIsEarned
  <2>1. WriteIsEarned(request[r]) /\ request[r].challenge \in 1..Len(challenges)
    BY ChallengeFacts DEF LoginInv, WritesAreEarned, WriteIsEarned, OnChallenge
  <2>2. Counting(request[r].challenge)' = Counting(request[r].challenge)
    BY <1>3 DEF Counting
  <2> QED
    BY <1>3, <1>4, <2>1, <2>2 DEF WriteIsEarned, Counting
<1>7. OpenedAreApproved' /\ StrangersStayOut'
  BY <1>3 DEF LoginInv, OpenedAreApproved, StrangersStayOut, Entering
<1> QED
  BY <1>5, <1>6, <1>7 DEF LoginInv

LEMMA NextLogin == Typed /\ LoginInv /\ [Next]_vars => LoginInv'
<1> SUFFICES ASSUME Typed, LoginInv, [Next]_vars PROVE LoginInv'
  OBVIOUS
<1>1. CASE account'.kind = account.kind /\ UNCHANGED <<challenges, sessions, request, past>>
  <2>1. \A c : Counting(c)' = Counting(c) /\ (Lost(c)' <=> Lost(c))
    BY <1>1 DEF Counting, Lost
  <2>2. Entering' = Entering
    BY <1>1 DEF Entering
  <2>3. RowsAreCounted'
    BY <1>1, <2>1 DEF LoginInv, RowsAreCounted, RowIsCounted
  <2>4. WritesAreEarned'
    BY <1>1, <2>1 DEF LoginInv, WritesAreEarned, Counting
  <2> QED
    BY <1>1, <2>2, <2>3, <2>4 DEF LoginInv, OpenedAreApproved, StrangersStayOut
<1>2. CASE SetActive \/ UNCHANGED vars
  <2>1. account'.kind = account.kind
    BY <1>2 DEF SetActive, vars, Typed, AccountTyped
  <2> QED
    BY <1>1, <1>2, <2>1 DEF SetActive, vars
<1>3. ASSUME NEW r \in Requests, LoadChallenge(r) PROVE LoginInv'
  BY <1>3, LoginStatus, LoginGoesOn
<1> QED
  BY <1>2, <1>3, LoginTurns, LoginGoesOn, LoginDenied, LoginApproved, LoginCounted, LoginStatus,
     LoginLoses, LoginChallenged, LoginCreates, LoginLate DEF Next

LEMMA InitLogin == Init => LoginInv
<1> SUFFICES ASSUME Init PROVE LoginInv
  OBVIOUS
<1>1. Entering = {} /\ Cardinality(Entering) = 0
  BY FS_EmptySet DEF Init, Entering, Idle
<1>2. OpenedAreApproved
  BY <1>1 DEF Init, OpenedAreApproved
<1>3. StrangersStayOut
  BY <1>1 DEF Init, StrangersStayOut
<1>4. WritesAreEarned
  BY DEF Init, WritesAreEarned, Idle
<1>5. RowsAreCounted
  BY DEF Init, RowsAreCounted
<1> QED
  BY <1>2, <1>3, <1>4, <1>5 DEF LoginInv

LEMMA LoginHolds == Spec => [](Typed /\ LoginInv)
BY InitTyped, InitLogin, NextTyped, NextLogin, PTL DEF Spec

LEMMA LoginMeans == Typed /\ LoginInv => LoginIsEarned
<1> SUFFICES ASSUME Typed, LoginInv PROVE LoginIsEarned
  OBVIOUS
<1>1. account.kind # "web" => past.opened <= past.approvals
  <2>1. Cardinality(Entering) \in Nat /\ past.opened \in Nat /\ past.approvals \in Nat
    BY RequestsAreFinite, FS_Subset, FS_CardinalityType DEF Entering, Typed, PastTyped, PastRecords
  <2> QED
    BY <2>1 DEF LoginInv, OpenedAreApproved
<1>2. account.kind = "unregistered" => sessions = <<>>
  BY DEF LoginInv, StrangersStayOut
<1>3. ASSUME NEW c \in 1..Len(challenges)
      PROVE  LET row == challenges[c]
             IN /\ row.status = "verified" => row.approved
                /\ row.attempts <= row.failed
                /\ \/ row.attempts = row.failed \/ row.overlapped \/ row.late
                   \/ \E r \in Requests : request[r].challenge = c /\ request[r].pc \in {"load", "count", "lost"}
                /\ (row.attempts >= MaxAttempts /\ ~row.approved /\ ~row.late) => row.status = "locked"
  <2>1. RowIsCounted(c) /\ challenges[c] \in ChallengeRecords
    BY ChallengeFacts DEF LoginInv, RowsAreCounted
  <2>2. IsFiniteSet(Counting(c)) /\ Cardinality(Counting(c)) \in Nat
    BY RequestsAreFinite, FS_Subset, FS_CardinalityType DEF Counting
  <2>3. CASE \E r \in Requests : r \in Counting(c)
    BY <2>1, <2>2, <2>3 DEF RowIsCounted, ChallengeRecords, Counting
  <2>4. CASE ~\E r \in Requests : r \in Counting(c)
    <3>1. Counting(c) = {} /\ Cardinality(Counting(c)) = 0
      BY <2>4, FS_EmptySet DEF Counting
    <3> QED
      BY <2>1, <3>1 DEF RowIsCounted, ChallengeRecords, Lost
  <2> QED
    BY <2>3, <2>4
<1> QED
  BY <1>1, <1>2, <1>3, ChallengeFacts DEF LoginIsEarned

\* A driver has no more sessions than the provider has approved codes, a phone no
\* driver has opens none, a challenge is verified after an approval only, and the
\* failed attempts that increment_attempts (db/repo/drivers.py) counts fall short of
\* the codes that were denied only by those under way, lost, late, or counted at
\* the same time as another one; the limit locks the challenge.
THEOREM LoginsAreEarned == Spec => []LoginIsEarned
BY LoginHolds, LoginMeans, PTL

=============================================================================
