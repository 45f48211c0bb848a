------------------------ MODULE EvidenceCaptureProofs ------------------------
(***************************************************************************)
(* Proofs about the captures that the office or the driver begins for an   *)
(* incident: the telematics bundle, the driver's violation history and the *)
(* weather.  The specification of the first two, Spec of IncidentCaptures, *)
(* and that of the third, WeatherSpec of WeatherSnapshots, share no        *)
(* variable: nothing below is about the two at once.                       *)
(*                                                                         *)
(* The matcher comes first, for the history relies on what its fold leaves *)
(* of the driver's vehicles.  Then the bundle, by an invariant in three    *)
(* layers: what holds whatever fails, what holds while one run is under    *)
(* way, and what holds while nothing was broken off.  Then the history,    *)
(* whose invariant relates what is stored to what was pulled, and the      *)
(* office, whose handler both rely on.  The weather comes last.            *)
(***************************************************************************)
EXTENDS IncidentCaptures, WeatherSnapshots, FiniteSetTheorems, SequenceTheorems, WellFoundedInduction, TLAPS

-----------------------------------------------------------------------------
(* The matcher: what the fold over the driver's vehicles leaves.           *)

Admits(inspection, unit) == WithinWindow(inspection, unit) /\ VehicleMatch(inspection, unit) # "none"

Consider(inspection, best, unit) ==
   IF WithinWindow(inspection, unit) /\ VehicleMatch(inspection, unit) # "none" THEN Better(best, Match(inspection, unit)) ELSE best

Considered(inspection, seq, best) ==
   best = [s \in SUBSET DOMAIN seq |->
             IF s = {} THEN NoMatch
             ELSE Consider(inspection, best[s \ {Max(s)}], seq[Max(s)])]

LEMMA AttributeFolds ==
   ASSUME NEW inspection, NEW seq
   PROVE  Attribute(inspection, seq) = (CHOOSE best : Considered(inspection, seq, best))[DOMAIN seq]
BY DEF Attribute, FoldLeft, MapThenFoldSet, Considered, Consider

LEMMA LeastNatural ==
   ASSUME NEW T, T \subseteq Nat, T # {}
   PROVE  \E k \in T : \A j \in T : k =< j
<1>1. PICK k \in T : \A j \in T : ~(<<j, k>> \in OpToRel(<, Nat))
   BY NatLessThanWellFounded, WFMin
<1>2. \A j \in T : ~(j < k)
   <2>1. ASSUME NEW j \in T, j < k
         PROVE  FALSE
      <3>1. <<j, k>> \in OpToRel(<, Nat)
         BY <2>1 DEF OpToRel
      <3>2. QED
         BY <1>1, <2>1, <3>1
   <2>2. QED
      BY <2>1
<1>3. QED
   BY <1>2

LEMMA MaxFacts ==
   ASSUME NEW n \in Nat, NEW s, s \subseteq 1..n, s # {}
   PROVE  Max(s) \in s /\ \A x \in s : x =< Max(s)
<1> DEFINE T == {k \in Nat : s \subseteq 1..k}
<1>1. PICK k \in T : \A j \in T : k =< j
   BY LeastNatural
<1>2. k \in s
   <2>1. ASSUME k \notin s
         PROVE  FALSE
      <3>1. k \in Nat /\ s \subseteq 1..k
         BY <1>1
      <3>2. k # 0
         <4>1. 1..0 = {}
            OBVIOUS
         <4>2. QED
            BY <3>1, <4>1
      <3>3. k - 1 \in Nat
         BY <3>1, <3>2
      <3>4. s \subseteq 1..(k - 1)
         BY <2>1, <3>1
      <3>5. k - 1 \in T
         BY <3>3, <3>4
      <3>6. k =< k - 1
         BY <1>1, <3>5
      <3>7. QED
         BY <3>1, <3>6
   <2>2. QED
      BY <2>1
<1>3. \A x \in s : k >= x
   BY <1>1
<1>4. Max(s) \in s /\ \A x \in s : Max(s) >= x
   BY <1>2, <1>3 DEF Max
<1>5. QED
   BY <1>4

LEMMA MatchFacts ==
   ASSUME NEW inspection, NEW unit
   PROVE  /\ Match(inspection, unit) # NoMatch
          /\ Rank(Match(inspection, unit).confidence) \in 0..2
BY DEF Match, NoMatch, Rank, FinalConfidence

\* The first of the best among the vehicles at the places s.
RankAt(inspection, seq, at) == Rank(Match(inspection, seq[at]).confidence)
Able(inspection, seq, s) == {at \in s : Admits(inspection, seq[at])}
IsFirst(inspection, seq, able, at) ==
   /\ at \in able
   /\ \A other \in able : \/ RankAt(inspection, seq, other) < RankAt(inspection, seq, at)
                          \/ RankAt(inspection, seq, other) = RankAt(inspection, seq, at) /\ at =< other
FirstBest(inspection, seq, able) == CHOOSE at \in able : IsFirst(inspection, seq, able, at)
Best(inspection, seq, s) ==
   IF Able(inspection, seq, s) = {} THEN NoMatch
   ELSE Match(inspection, seq[FirstBest(inspection, seq, Able(inspection, seq, s))])

LEMMA FirstExists ==
   ASSUME NEW inspection, NEW seq, NEW able, able \subseteq Nat, able # {}
   PROVE  IsFirst(inspection, seq, able, FirstBest(inspection, seq, able))
<1> DEFINE T(r) == {at \in able : RankAt(inspection, seq, at) = r}
<1>1. \A at \in able : RankAt(inspection, seq, at) \in 0..2
   BY MatchFacts DEF RankAt
<1>2. PICK r \in 0..2 : T(r) # {} /\ \A at \in able : RankAt(inspection, seq, at) =< r
   <2>1. CASE T(2) # {}
      BY <1>1, <2>1
   <2>2. CASE T(2) = {} /\ T(1) # {}
      BY <1>1, <2>2
   <2>3. CASE T(2) = {} /\ T(1) = {}
      <3>1. \A at \in able : RankAt(inspection, seq, at) = 0
         BY <1>1, <2>3
      <3>2. \A at \in able : at \in T(0)
         BY <3>1
      <3>3. T(0) # {}
         BY <3>2
      <3>4. \A at \in able : RankAt(inspection, seq, at) =< 0
         BY <3>1
      <3>5. 0 \in 0..2
         OBVIOUS
      <3>6. QED
         BY <3>3, <3>4, <3>5
   <2>4. QED
      BY <2>1, <2>2, <2>3
<1>3. PICK k \in T(r) : \A j \in T(r) : k =< j
   BY <1>2, LeastNatural
<1>4. IsFirst(inspection, seq, able, k)
   BY <1>1, <1>2, <1>3 DEF IsFirst
<1>5. QED
   BY <1>3, <1>4 DEF FirstBest

LEMMA FirstUnique ==
   ASSUME NEW inspection, NEW seq, NEW able, able \subseteq Nat, NEW i, NEW j,
          IsFirst(inspection, seq, able, i), IsFirst(inspection, seq, able, j)
   PROVE  i = j
<1>1. i \in able /\ j \in able /\ i \in Nat /\ j \in Nat
   BY DEF IsFirst
<1>2. RankAt(inspection, seq, i) \in 0..2 /\ RankAt(inspection, seq, j) \in 0..2
   BY MatchFacts DEF RankAt
<1>3. QED
   BY <1>1, <1>2 DEF IsFirst

\* The explicit choice solves the equation of the fold.
LEMMA BestConsiders ==
   ASSUME NEW inspection, NEW n \in Nat, NEW seq, DOMAIN seq = 1..n
   PROVE  Considered(inspection, seq, [s \in SUBSET DOMAIN seq |-> Best(inspection, seq, s)])
<1> DEFINE A(s) == Able(inspection, seq, s)
           R(at) == RankAt(inspection, seq, at)
           F(s) == FirstBest(inspection, seq, A(s))
<1>1. ASSUME NEW s \in SUBSET DOMAIN seq, s # {}
      PROVE  Best(inspection, seq, s) = Consider(inspection, Best(inspection, seq, s \ {Max(s)}), seq[Max(s)])
   <2>1. PICK m \in 1..n : m = Max(s) /\ m \in s /\ \A x \in s : x =< m
      BY <1>1, MaxFacts
   <2>2. PICK rest \in SUBSET DOMAIN seq : rest = s \ {m}
      BY <1>1
   <2>3. A(s) \subseteq Nat /\ A(rest) \subseteq Nat /\ \A x \in rest : x \in Nat /\ x < m
      BY <1>1, <2>1, <2>2 DEF Able
   <2>4. CASE ~Admits(inspection, seq[m])
      <3>1. A(s) = A(rest)
         BY <2>1, <2>2, <2>4 DEF Able
      <3>2. Best(inspection, seq, s) = Best(inspection, seq, rest)
         BY <3>1 DEF Best
      <3>3. QED
         BY <2>1, <2>2, <2>4, <3>2 DEF Consider, Admits
   <2>5. CASE Admits(inspection, seq[m])
      <3>1. A(s) = A(rest) \cup {m} /\ m \notin A(rest)
         BY <2>1, <2>2, <2>5 DEF Able
      <3>2. Best(inspection, seq, s) = Match(inspection, seq[F(s)])
         BY <3>1 DEF Best
      <3>3. IsFirst(inspection, seq, A(s), F(s))
         BY <2>3, <3>1, FirstExists
      <3>4. Consider(inspection, Best(inspection, seq, rest), seq[m])
               = Better(Best(inspection, seq, rest), Match(inspection, seq[m]))
         BY <2>5 DEF Consider, Admits
      <3>5. CASE A(rest) = {}
         <4>1. F(s) = m
            BY <3>1, <3>3, <3>5 DEF IsFirst
         <4>2. Best(inspection, seq, rest) = NoMatch
            BY <3>5 DEF Best
         <4>3. QED
            BY <2>1, <2>2, <3>2, <3>4, <4>1, <4>2 DEF Better
      <3>6. CASE A(rest) # {}
         <4>1. IsFirst(inspection, seq, A(rest), F(rest))
            BY <2>3, <3>6, FirstExists
         <4>2. Best(inspection, seq, rest) = Match(inspection, seq[F(rest)])
            BY <3>6 DEF Best
         <4>3. Best(inspection, seq, rest) # NoMatch
            BY <4>2, MatchFacts
         <4>4. F(rest) \in A(rest) /\ F(rest) \in Nat /\ F(rest) < m
            BY <2>3, <4>1 DEF IsFirst, Able
         <4>5. \A at \in A(s) : R(at) \in 0..2
            BY MatchFacts DEF RankAt
         <4>6. CASE R(m) > R(F(rest))
            <5>1. IsFirst(inspection, seq, A(s), m)
               BY <3>1, <4>1, <4>4, <4>5, <4>6 DEF IsFirst
            <5>2. F(s) = m
               BY <2>3, <3>3, <5>1, FirstUnique
            <5>3. Better(Best(inspection, seq, rest), Match(inspection, seq[m])) = Match(inspection, seq[m])
               BY <4>2, <4>6 DEF Better, RankAt
            <5>4. QED
               BY <2>1, <2>2, <3>2, <3>4, <5>2, <5>3
         <4>7. CASE ~(R(m) > R(F(rest)))
            <5>1. IsFirst(inspection, seq, A(s), F(rest))
               BY <3>1, <4>1, <4>4, <4>5, <4>7 DEF IsFirst
            <5>2. F(s) = F(rest)
               BY <2>3, <3>3, <5>1, FirstUnique
            <5>3. Better(Best(inspection, seq, rest), Match(inspection, seq[m])) = Best(inspection, seq, rest)
               BY <4>2, <4>3, <4>7 DEF Better, RankAt
            <5>4. QED
               BY <2>1, <2>2, <3>2, <3>4, <4>2, <5>2, <5>3
         <4>8. QED
            BY <4>6, <4>7
      <3>7. QED
         BY <3>5, <3>6
   <2>6. QED
      BY <2>4, <2>5
<1>2. Best(inspection, seq, {}) = NoMatch
   BY DEF Best, Able
<1>3. \A s \in SUBSET DOMAIN seq : s \ {Max(s)} \in SUBSET DOMAIN seq
   OBVIOUS
<1>4. PICK best : best = [s \in SUBSET DOMAIN seq |-> Best(inspection, seq, s)]
   OBVIOUS
<1>5. \A s \in SUBSET DOMAIN seq : best[s] = Best(inspection, seq, s)
   BY <1>4
<1>6. \A s \in SUBSET DOMAIN seq :
         Best(inspection, seq, s) = IF s = {} THEN NoMatch
                                    ELSE Consider(inspection, best[s \ {Max(s)}], seq[Max(s)])
   BY <1>1, <1>2, <1>3, <1>5
<1>7. best = [s \in SUBSET DOMAIN seq |-> IF s = {} THEN NoMatch
                                          ELSE Consider(inspection, best[s \ {Max(s)}], seq[Max(s)])]
   BY <1>4, <1>6
<1>8. QED
   BY <1>4, <1>7 DEF Considered

\* Any solution of the equation is, for every set of places, the match of an able
\* vehicle there that none of them exceeds.
Chosen(inspection, seq, s, match) ==
   IF Able(inspection, seq, s) = {} THEN match = NoMatch
   ELSE /\ \E at \in Able(inspection, seq, s) : match = Match(inspection, seq[at])
        /\ \A at \in Able(inspection, seq, s) : RankAt(inspection, seq, at) =< Rank(match.confidence)

LEMMA ChosenStep ==
   ASSUME NEW inspection, NEW seq, NEW rest, NEW m, NEW match, Chosen(inspection, seq, rest, match)
   PROVE  Chosen(inspection, seq, rest \cup {m}, Consider(inspection, match, seq[m]))
<1> DEFINE A(s) == Able(inspection, seq, s)
           all == rest \cup {m}
           next == Match(inspection, seq[m])
<1>1. CASE ~Admits(inspection, seq[m])
   <2>1. A(all) = A(rest)
      BY <1>1 DEF Able
   <2>2. Consider(inspection, match, seq[m]) = match
      BY <1>1 DEF Consider, Admits
   <2>3. QED
      BY <2>1, <2>2 DEF Chosen
<1>2. CASE Admits(inspection, seq[m])
   <2>1. A(all) = A(rest) \cup {m}
      BY <1>2 DEF Able
   <2>2. Consider(inspection, match, seq[m]) = Better(match, next)
      BY <1>2 DEF Consider, Admits
   <2>3. \A at \in A(all) : RankAt(inspection, seq, at) \in 0..2
      BY MatchFacts DEF RankAt
   <2>4. CASE A(rest) = {}
      <3>1. match = NoMatch
         BY <2>4 DEF Chosen
      <3>2. Better(match, next) = next
         BY <3>1 DEF Better
      <3>3. A(all) = {m}
         BY <2>1, <2>4
      <3>4. RankAt(inspection, seq, m) = Rank(next.confidence)
         BY DEF RankAt
      <3>5. RankAt(inspection, seq, m) =< Rank(next.confidence)
         BY <2>3, <3>3, <3>4
      <3>6. QED
         BY <2>2, <3>2, <3>3, <3>5 DEF Chosen
   <2>5. CASE A(rest) # {}
      <3>1. /\ \E at \in A(rest) : match = Match(inspection, seq[at])
            /\ \A at \in A(rest) : RankAt(inspection, seq, at) =< Rank(match.confidence)
         BY <2>5 DEF Chosen
      <3>2. match # NoMatch
         BY <3>1, MatchFacts
      <3>3. Rank(match.confidence) \in 0..2
         BY <3>1, MatchFacts
      <3>4. RankAt(inspection, seq, m) = Rank(next.confidence) /\ Rank(next.confidence) \in 0..2
         BY MatchFacts DEF RankAt
      <3>5. CASE Rank(next.confidence) > Rank(match.confidence)
         <4>1. Better(match, next) = next
            BY <3>5 DEF Better
         <4>2. \A at \in A(all) : RankAt(inspection, seq, at) =< Rank(next.confidence)
            BY <2>1, <2>3, <3>1, <3>3, <3>4, <3>5
         <4>3. QED
            BY <2>1, <2>2, <4>1, <4>2 DEF Chosen
      <3>6. CASE ~(Rank(next.confidence) > Rank(match.confidence))
         <4>1. Better(match, next) = match
            BY <3>2, <3>6 DEF Better
         <4>2. \A at \in A(all) : RankAt(inspection, seq, at) =< Rank(match.confidence)
            BY <2>1, <2>3, <3>1, <3>3, <3>4, <3>6
         <4>3. QED
            BY <2>1, <2>2, <3>1, <4>1, <4>2 DEF Chosen
      <3>7. QED
         BY <3>5, <3>6
   <2>6. QED
      BY <2>4, <2>5
<1>3. QED
   BY <1>1, <1>2

LEMMA SolutionChooses ==
   ASSUME NEW inspection, NEW n \in Nat, NEW seq, DOMAIN seq = 1..n,
          NEW best, Considered(inspection, seq, best)
   PROVE  \A s \in SUBSET DOMAIN seq : Chosen(inspection, seq, s, best[s])
<1> DEFINE Fails(s) == ~Chosen(inspection, seq, s, best[s])
           T == {k \in Nat : \E s \in SUBSET DOMAIN seq : s \subseteq 1..k /\ Fails(s)}
<1>1. \A s \in SUBSET DOMAIN seq :
         best[s] = IF s = {} THEN NoMatch ELSE Consider(inspection, best[s \ {Max(s)}], seq[Max(s)])
   BY DEF Considered
<1>2. ASSUME NEW bad \in SUBSET DOMAIN seq, Fails(bad)
      PROVE  FALSE
   <2>1. n \in T
      BY <1>2
   <2>2. PICK k \in T : \A j \in T : k =< j
      BY <2>1, LeastNatural
   <2>3. PICK s \in SUBSET DOMAIN seq : s \subseteq 1..k /\ Fails(s)
      BY <2>2
   <2>4. CASE s = {}
      <3>1. best[s] = NoMatch
         BY <1>1, <2>4
      <3>2. QED
         BY <2>3, <2>4, <3>1 DEF Chosen, Able
   <2>5. CASE s # {}
      <3>1. PICK m \in 1..k : m = Max(s) /\ m \in s /\ \A x \in s : x =< m
         BY <2>2, <2>3, <2>5, MaxFacts
      <3>2. PICK rest \in SUBSET DOMAIN seq : rest = s \ {m}
         OBVIOUS
      <3>3. rest \subseteq 1..(m - 1) /\ m - 1 \in Nat /\ m - 1 < k
         BY <2>2, <2>3, <3>1, <3>2
      <3>4. ~Fails(rest)
         BY <2>2, <3>3
      <3>5. best[s] = Consider(inspection, best[rest], seq[m])
         BY <1>1, <2>5, <3>1, <3>2
      <3>6. Chosen(inspection, seq, rest \cup {m}, Consider(inspection, best[rest], seq[m]))
         BY <3>4, ChosenStep
      <3>7. rest \cup {m} = s
         BY <3>1, <3>2
      <3>8. QED
         BY <2>3, <3>5, <3>6, <3>7
   <2>6. QED
      BY <2>4, <2>5
<1>3. QED
   BY <1>2

\* The matcher of services/fmcsa_attribution.py, for every inspection and any
\* number of vehicles in any order: nothing when no vehicle is able to explain the
\* inspection, else the match of one that no other exceeds in confidence.
THEOREM AttributionIsBest ==
   ASSUME NEW inspection, NEW n \in Nat, NEW seq, DOMAIN seq = 1..n
   PROVE  Chosen(inspection, seq, DOMAIN seq, Attribute(inspection, seq))
<1>1. Considered(inspection, seq, CHOOSE best : Considered(inspection, seq, best))
   BY BestConsiders
<1>2. PICK best : best = (CHOOSE b : Considered(inspection, seq, b)) /\ Considered(inspection, seq, best)
   BY <1>1
<1>3. Chosen(inspection, seq, DOMAIN seq, best[DOMAIN seq])
   BY <1>2, SolutionChooses
<1>4. QED
   BY <1>2, <1>3, AttributeFolds
-----------------------------------------------------------------------------
(* The bundle: types.                                                      *)

Shapes == [sets : Nat \ {0}, formats : Nat \ {0}, faults : Nat, any : BOOLEAN]

NoReq == <<NoOperation, 1, 1>>
Pcs == {"none", "queued", "over", "dead"} \cup Running
RunRecords ==
   [pc : Pcs, try : Nat, retries : 0..MaxRetries, carried : Operations \cup {NoOperation},
    op : Operations \cup {NoOperation}, set : Sets, rendering : Renderings,
    req : Requests \cup {NoReq}, answer : Answers \cup {None}]
EventRecords ==
   [kind : {"hashed", "unavailable", "succeeded", "failed"}, set : 0..shape.sets,
    rendering : 0..shape.formats, answer : Answers \cup {None}]
RequestRecords ==
   [status : {"none", "open", "in_progress", "fulfilled", "failed"}, op : Operations \cup {NoOperation}]

WithRequest == InDataset \cup {"fail", "document"}
WithAnswer == {"put", "announce", "save"}

\* A run within a dataset works on a request of the dataset and for an operation;
\* one that documents a gap may have no request yet.
RunFits(x) ==
   /\ x.try =< faults
   /\ x.pc \in InDataset => x.req # NoReq
   /\ x.pc \in WithRequest /\ x.req # NoReq => x.req[2] = x.set
   /\ x.pc \in {"queued", "open", "request"} => x.req = NoReq
   /\ x.pc \in Running \ {"open"} => x.op \in Operations
   /\ x.pc \in {"none", "queued", "open"} => x.set = 1
   /\ x.pc \in WithAnswer => x.answer \in Answers

RunsTyped == run \in [Messages -> RunRecords] /\ \A m \in Messages : RunFits(run[m])
OperationsTyped == operation \in [Operations -> {"none", "queued", "running", "succeeded", "failed"}]
RequestsTyped == request \in [Requests -> RequestRecords]
ArtifactsTyped ==
   /\ row \in [Sets -> [Renderings -> Answers \cup {None}]]
   /\ object \in [Sets -> [Renderings -> Answers \cup {None}]]
   /\ gap \subseteq Sets

\* The retry publishes its message last, and once.
OperatorTyped ==
   /\ operator \in [pc : {"idle", "move", "publish", "over"}, chosen : SUBSET Requests]
   /\ operator.pc # "over" => run["retry"].pc = "none"

LogTyped ==
   /\ log \subseteq EventRecords /\ mapped \in BOOLEAN
   /\ overlapped \in BOOLEAN /\ skipped \subseteq Messages

BundleTyped ==
   /\ shape \in Shapes /\ faults \in 0..shape.faults
   /\ RunsTyped /\ OperationsTyped /\ RequestsTyped /\ ArtifactsTyped /\ OperatorTyped /\ LogTyped
-----------------------------------------------------------------------------
(* What holds whatever fails and whoever runs.                             *)

\* The datasets the run is through with.
Done(x, d) == d < x.set \/ x.pc \in {"succeed", "finalize"}

AnyRun(x) ==
   x.pc \in Running =>
      /\ \A d \in Sets : Done(x, d) => Whole(d) \/ d \in gap
      /\ x.pc \in WithAnswer => \A j \in Renderings : j < x.rendering => row[x.set][j] # None
      /\ x.pc = "fulfil" => Whole(x.set)
      /\ x.pc = "document" => Unavailable(x.set) \in log
      /\ x.pc = "finalize" => Succeeded \in log

AnyInv == /\ \A m \in Messages : AnyRun(run[m])
          /\ BundleIsDocumented /\ RequestsAnswerTruly
-----------------------------------------------------------------------------
(* What holds while one run at most is under way.                          *)

Busy == {m \in Messages : run[m].pc \in Running}

LoneRun(x) ==
   /\ x.pc \in WithAnswer => row[x.set][x.rendering] = None
   /\ x.pc \in WithAnswer \ {"put"} => object[x.set][x.rendering] = x.answer

LoneInv ==
   ~overlapped =>
      /\ \A m, n \in Messages : m \in Busy /\ n \in Busy => m = n
      /\ \A m \in Messages : LoneRun(run[m])
      /\ \A d \in Sets : \A k \in Renderings : row[d][k] # None => object[d][k] = row[d][k]
-----------------------------------------------------------------------------
(* What holds while, besides, nothing was broken off.                      *)

Undisturbed == ~overlapped /\ faults = 0

Blank(d, k) == row[d][k] = None /\ Hashes(d, k) = {}

QuietRun(x) ==
   x.pc \in Running =>
      /\ x.pc # "finalize" => Succeeded \notin log
      /\ \A d \in Sets : \A k \in Renderings :
            d > x.set \/ (d = x.set /\ x.pc \in {"open", "request", "fetch"})
               \/ (d = x.set /\ x.pc \in WithAnswer /\ k > x.rendering) => Blank(d, k)
      /\ x.pc \in WithAnswer =>
            /\ \A k \in Renderings : k < x.rendering => row[x.set][k] = x.answer
            /\ Hashes(x.set, x.rendering) =
                  IF x.pc = "save" THEN {Event("hashed", x.set, x.rendering, x.answer)} ELSE {}

InOnePiece(d) ==
   \A k \in Renderings : row[d][k] # None =>
      /\ Hashes(d, k) = {Event("hashed", d, k, row[d][k])}
      /\ \A j \in Renderings : row[d][j] \in {None, row[d][k]}

QuietInv ==
   Undisturbed =>
      /\ \A m \in Messages : QuietRun(run[m])
      /\ Busy = {} /\ Succeeded \notin log => \A d \in Sets : \A k \in Renderings : Blank(d, k)
      /\ \A d \in Sets : Unavailable(d) \in log \/ InOnePiece(d)
-----------------------------------------------------------------------------
(* What holds before the office has published the bundle's message.        *)

Unbegun == {"create", "operation", "link", "publish"}

OfficeTyped ==
   /\ office \in Unbegun \cup {"history", "send", "attempt", "over"}
   /\ office \in Unbegun => run["first"].pc = "none"

BundleInv == BundleTyped /\ AnyInv /\ LoneInv /\ QuietInv /\ OfficeTyped
-----------------------------------------------------------------------------
(* Names, and what the shape fixes.                                        *)

LEMMA ShapeFacts ==
   ASSUME shape \in Shapes
   PROVE  /\ shape.sets \in Nat /\ shape.formats \in Nat /\ shape.faults \in Nat
          /\ Sets = 1..shape.sets /\ Renderings = 1..shape.formats
          /\ 1 \in Sets /\ 1 \in Renderings
          /\ Operations = Messages \X (0..shape.faults)
BY DEF Shapes, Sets, Renderings, Operations

LEMMA BundleNames ==
   /\ NoOperation \notin Operations /\ NoReq \notin Requests
   /\ None \notin Answers /\ MaxRetries \in Nat
   /\ Messages = {"first", "retry"}
   /\ \A q \in Requests : q[1] \in Operations /\ q[2] \in Sets /\ q[3] \in {1, 2}
<1>1. None \notin Answers /\ MaxRetries \in Nat
   BY TelematicsAssumption
<1>2. NoOperation \notin Operations
   BY DEF NoOperation, Operations, Messages
<1>3. \A q \in Requests : q[1] \in Operations /\ q[2] \in Sets /\ q[3] \in {1, 2}
   BY DEF Requests
<1>4. NoReq \notin Requests
   BY <1>2 DEF NoReq, Requests
<1>5. QED
   BY <1>1, <1>2, <1>3, <1>4 DEF Messages

LEMMA BundleOperations ==
   ASSUME shape \in Shapes
   PROVE  First \in Operations /\ Retry \in Operations /\ \A m \in Messages : \A t \in 0..shape.faults : <<m, t>> \in Operations
BY ShapeFacts DEF First, Retry, Messages

LEMMA NewRequests ==
   ASSUME NEW o \in Operations, NEW d \in Sets, NEW n \in {1, 2}
   PROVE  <<o, d, n>> \in Requests
BY DEF Requests

LEMMA SameShape ==
   ASSUME UNCHANGED shape
   PROVE  /\ Sets' = Sets /\ Renderings' = Renderings /\ Operations' = Operations /\ Requests' = Requests
          /\ RunRecords' = RunRecords /\ EventRecords' = EventRecords /\ RequestRecords' = RequestRecords
<1>1. Sets' = Sets /\ Renderings' = Renderings /\ Operations' = Operations
   BY DEF Sets, Renderings, Operations
<1>2. Requests' = Requests
   BY <1>1 DEF Requests
<1>3. QED
   BY <1>1, <1>2 DEF RunRecords, EventRecords, RequestRecords

LEMMA NoReqStays == NoReq' = NoReq
BY DEF NoReq, NoOperation

LEMMA RunFacts ==
   ASSUME BundleTyped, NEW m \in Messages
   PROVE  run[m] \in RunRecords /\ RunFits(run[m])
BY DEF BundleTyped, RunsTyped

LEMMA UnpublishedFacts ==
   ASSUME shape \in Shapes
   PROVE  /\ Unpublished \in RunRecords /\ Unpublished.try = 0 /\ Unpublished.retries = 0
          /\ Unpublished.op = NoOperation /\ Unpublished.carried = NoOperation
          /\ Unpublished.set = 1 /\ Unpublished.rendering = 1 /\ Unpublished.req = NoReq
          /\ Unpublished.answer = None /\ Unpublished.pc = "none"
<1>1. 1 \in Sets /\ 1 \in Renderings /\ 0 \in 0..MaxRetries
   BY ShapeFacts, BundleNames
<1>2. Unpublished = [pc |-> "none", try |-> 0, retries |-> 0, carried |-> NoOperation, op |-> NoOperation,
                     set |-> 1, rendering |-> 1, req |-> NoReq, answer |-> None]
   BY DEF Unpublished, NoReq
<1> HIDE DEF NoReq
<1>3. QED
   BY <1>1, <1>2 DEF RunRecords, Pcs
-----------------------------------------------------------------------------
(* What a step does to its run.                                            *)

Becomes(m, t) == t \in RunRecords /\ run' = [run EXCEPT ![m] = t]

LEMMA Replaced ==
   ASSUME BundleTyped, NEW m \in Messages, NEW t, Becomes(m, t)
   PROVE  /\ run' \in [Messages -> RunRecords]
          /\ run'[m] = t
          /\ \A n \in Messages : n # m => run'[n] = run[n]
BY DEF BundleTyped, RunsTyped, Becomes

\* It keeps its message and operation.
Keeps(m, t) ==
   /\ Becomes(m, t)
   /\ t.try = run[m].try /\ t.retries = run[m].retries /\ t.carried = run[m].carried
   /\ t.op = run[m].op

\* It moves on within its dataset.
Moves(m, t, pc) ==
   /\ Keeps(m, t) /\ t.pc = pc
   /\ t.set = run[m].set /\ t.rendering = run[m].rendering /\ t.req = run[m].req
   /\ t.answer = run[m].answer

\* It goes to the next dataset, or on to its end.
Advances(m, t) ==
   /\ Keeps(m, t)
   /\ t.pc = IF run[m].set = shape.sets THEN "succeed" ELSE "request"
   /\ t.set = IF run[m].set = shape.sets THEN run[m].set ELSE run[m].set + 1
   /\ t.req = NoReq

\* It goes to the first rendering from k on without a row, if there is one.
Renders(m, t, k, a) ==
   /\ Keeps(m, t) /\ t.set = run[m].set /\ t.req = run[m].req
   /\ \/ /\ t.pc = "fulfil"
         /\ \A j \in Renderings : j >= k => row[t.set][j] # None
      \/ /\ t.pc = "put" /\ t.answer = a /\ t.rendering >= k /\ row[t.set][t.rendering] = None
         /\ \A j \in Renderings : j >= k /\ j < t.rendering => row[t.set][j] # None

\* It forgets what it did.
Forgets(m, t, pc) ==
   /\ Becomes(m, t) /\ t.pc = pc /\ t.op = NoOperation
   /\ t.set = 1 /\ t.req = NoReq /\ t.answer = None

LEMMA GotoEffect ==
   ASSUME BundleTyped, NEW m \in Messages, NEW pc \in Pcs, Goto(m, pc)
   PROVE  \E t : Moves(m, t, pc)
<1>1. PICK x \in RunRecords : x = run[m]
   BY RunFacts
<1> DEFINE t == [x EXCEPT !.pc = pc]
<1>2. run' = [run EXCEPT ![m] = t]
   BY <1>1 DEF Goto, BundleTyped, RunsTyped
<1>3. /\ t \in RunRecords /\ t.pc = pc /\ t.try = x.try /\ t.retries = x.retries /\ t.carried = x.carried
      /\ t.op = x.op /\ t.set = x.set /\ t.rendering = x.rendering /\ t.req = x.req /\ t.answer = x.answer
   BY <1>1 DEF RunRecords
<1> HIDE DEF t
<1>4. QED
   BY <1>1, <1>2, <1>3 DEF Moves, Keeps, Becomes

LEMMA NextSetEffect ==
   ASSUME BundleTyped, NEW m \in Messages, NextSet(m)
   PROVE  \E t : Advances(m, t)
<1>1. PICK x \in RunRecords : x = run[m]
   BY RunFacts
<1>2. PICK s \in Sets : s = IF x.set = shape.sets THEN x.set ELSE x.set + 1
   BY ShapeFacts DEF BundleTyped, RunRecords
<1>3. PICK pc \in Pcs : pc = IF x.set = shape.sets THEN "succeed" ELSE "request"
   BY DEF Pcs, Running
<1> DEFINE t == [x EXCEPT !.pc = pc, !.set = s, !.rendering = 1, !.req = NoReq, !.answer = None]
<1>4. Unpublished.req = NoReq /\ 1 \in Renderings
   BY UnpublishedFacts, ShapeFacts DEF BundleTyped
<1>5. run' = [run EXCEPT ![m] = t]
   <2>1. run' = [run EXCEPT ![m].pc = pc, ![m].set = s, ![m].rendering = 1, ![m].req = NoReq, ![m].answer = None]
      BY <1>1, <1>2, <1>3, <1>4 DEF NextSet, Set
   <2> HIDE DEF NoReq
   <2>2. QED
      BY <1>1, <2>1 DEF BundleTyped, RunsTyped
<1> HIDE DEF NoReq
<1>6. /\ t \in RunRecords /\ t.pc = pc /\ t.try = x.try /\ t.retries = x.retries /\ t.carried = x.carried
      /\ t.op = x.op /\ t.set = s /\ t.req = NoReq
   BY <1>1, <1>4 DEF RunRecords
<1> HIDE DEF t
<1>7. QED
   BY <1>1, <1>2, <1>3, <1>5, <1>6 DEF Advances, Keeps, Becomes

LEMMA RenderEffect ==
   ASSUME BundleTyped, NEW m \in Messages, NEW k \in Nat, NEW a \in Answers, Render(m, k, a)
   PROVE  \E t : Renders(m, t, k, a)
<1>1. PICK x \in RunRecords : x = run[m]
   BY RunFacts
<1> DEFINE missing == {j \in Renderings : j >= k /\ row[Set(m)][j] = None}
           next == CHOOSE j \in missing : \A i \in missing : j =< i
<1>2. missing = {j \in Renderings : j >= k /\ row[x.set][j] = None}
   BY <1>1 DEF Set
<1>3. run' = [run EXCEPT ![m].answer = IF missing = {} THEN None ELSE a,
                         ![m].pc = IF missing = {} THEN "fulfil" ELSE "put",
                         ![m].rendering = IF missing = {} THEN 1 ELSE next]
   BY DEF Render
<1> HIDE DEF missing
<1>4. Renderings \subseteq Nat /\ 1 \in Renderings
   BY ShapeFacts DEF BundleTyped
<1>5. missing # {} => next \in missing /\ \A i \in missing : next =< i
   <2>1. missing \subseteq Nat
      BY <1>2, <1>4
   <2>2. QED
      BY <2>1, LeastNatural
<1> HIDE DEF next
<1>6. CASE missing = {}
   <2> DEFINE t == [x EXCEPT !.answer = None, !.pc = "fulfil", !.rendering = 1]
   <2>1. run' = [run EXCEPT ![m] = t]
      BY <1>1, <1>3, <1>6 DEF BundleTyped, RunsTyped
   <2>2. /\ t \in RunRecords /\ t.pc = "fulfil" /\ t.try = x.try /\ t.retries = x.retries
         /\ t.carried = x.carried /\ t.op = x.op /\ t.set = x.set /\ t.req = x.req
      BY <1>1, <1>4 DEF RunRecords, Pcs, Running, InDataset
   <2> HIDE DEF t
   <2>3. \A j \in Renderings : j >= k => row[x.set][j] # None
      BY <1>2, <1>6
   <2>4. QED
      BY <1>1, <2>1, <2>2, <2>3 DEF Renders, Keeps, Becomes
<1>7. CASE missing # {}
   <2>1. next \in missing /\ \A i \in missing : next =< i
      BY <1>5, <1>7
   <2>2. next \in Renderings /\ next \in Nat /\ next >= k /\ row[x.set][next] = None
      BY <1>2, <1>4, <2>1
   <2>3. \A j \in Renderings : j >= k /\ j < next => row[x.set][j] # None
      BY <1>2, <1>4, <2>1, <2>2
   <2> DEFINE t == [x EXCEPT !.answer = a, !.pc = "put", !.rendering = next]
   <2>4. run' = [run EXCEPT ![m] = t]
      BY <1>1, <1>3, <1>7 DEF BundleTyped, RunsTyped
   <2>5. /\ t \in RunRecords /\ t.pc = "put" /\ t.answer = a /\ t.rendering = next /\ t.try = x.try
         /\ t.retries = x.retries /\ t.carried = x.carried /\ t.op = x.op /\ t.set = x.set /\ t.req = x.req
      BY <1>1, <2>2 DEF RunRecords, Pcs, Running, InDataset
   <2> HIDE DEF t
   <2>6. QED
      BY <1>1, <2>2, <2>3, <2>4, <2>5 DEF Renders, Keeps, Becomes
<1>8. QED
   BY <1>6, <1>7

LEMMA EndEffect ==
   ASSUME BundleTyped, NEW m \in Messages, NEW pc \in Pcs, End(m, pc)
   PROVE  \E t : Forgets(m, t, pc) /\ t.try = 0
<1>1. PICK u \in RunRecords : u = Unpublished
   BY UnpublishedFacts DEF BundleTyped
<1> DEFINE t == [u EXCEPT !.pc = pc]
<1>2. run' = [run EXCEPT ![m] = t]
   BY <1>1 DEF End
<1>3. /\ t \in RunRecords /\ t.pc = pc /\ t.try = u.try /\ t.op = u.op
      /\ t.set = u.set /\ t.req = u.req /\ t.answer = u.answer
   BY <1>1 DEF RunRecords
<1> HIDE DEF t
<1>4. QED
   BY <1>1, <1>2, <1>3, UnpublishedFacts DEF Forgets, Becomes, BundleTyped

LEMMA RedeliverEffect ==
   ASSUME BundleTyped, NEW m \in Messages, NEW retries \in 0..MaxRetries, Redeliver(m, retries)
   PROVE  \E t : Forgets(m, t, "queued") /\ t.try = run[m].try + 1
<1>1. PICK u \in RunRecords : u = Unpublished
   BY UnpublishedFacts DEF BundleTyped
<1>2. PICK x \in RunRecords : x = run[m]
   BY RunFacts
<1>3. PICK k \in Nat : k = x.try + 1
   BY DEF RunRecords
<1>4. PICK c \in Operations \cup {NoOperation} : c = x.carried
   BY DEF RunRecords
<1> DEFINE t == [u EXCEPT !.pc = "queued", !.try = k, !.retries = retries, !.carried = c]
<1>5. run' = [run EXCEPT ![m] = t]
   BY <1>1, <1>2, <1>3, <1>4 DEF Redeliver
<1>6. /\ t \in RunRecords /\ t.pc = "queued" /\ t.try = k /\ t.op = u.op
      /\ t.set = u.set /\ t.req = u.req /\ t.answer = u.answer
   BY <1>1 DEF RunRecords, Pcs
<1> HIDE DEF t
<1>7. QED
   BY <1>1, <1>2, <1>3, <1>5, <1>6, UnpublishedFacts DEF Forgets, Becomes, BundleTyped

\* A message is published that is not under way.
LEMMA PublishEffect ==
   ASSUME BundleTyped, NEW m \in Messages, NEW o \in Operations,
          run' = [run EXCEPT ![m] = [Unpublished EXCEPT !.pc = "queued", !.carried = o]]
   PROVE  \E t : Forgets(m, t, "queued") /\ t.try = 0
<1>1. PICK u \in RunRecords : u = Unpublished
   BY UnpublishedFacts DEF BundleTyped
<1> DEFINE t == [u EXCEPT !.pc = "queued", !.carried = o]
<1>2. run' = [run EXCEPT ![m] = t]
   BY <1>1
<1>3. /\ t \in RunRecords /\ t.pc = "queued" /\ t.try = u.try /\ t.op = u.op
      /\ t.set = u.set /\ t.req = u.req /\ t.answer = u.answer
   BY <1>1 DEF RunRecords, Pcs
<1> HIDE DEF t
<1>4. QED
   BY <1>1, <1>2, <1>3, UnpublishedFacts DEF Forgets, Becomes, BundleTyped
-----------------------------------------------------------------------------
(* The types are kept.                                                     *)

Persists == UNCHANGED shape /\ faults' \in 0..shape.faults /\ faults =< faults'

LEMMA PersistsPlain ==
   ASSUME BundleTyped, UNCHANGED <<shape, faults>>
   PROVE  Persists
BY ShapeFacts DEF BundleTyped, Persists

LEMMA PersistsFault ==
   ASSUME BundleTyped, UNCHANGED shape, Fault
   PROVE  Persists /\ faults' = faults + 1 /\ faults' # 0
BY ShapeFacts DEF BundleTyped, Persists, Fault

LEMMA FitsStill ==
   ASSUME BundleTyped, Persists, NEW t \in RunRecords, RunFits(t)
   PROVE  RunFits(t)'
<1>1. t.try \in Nat /\ faults \in Nat /\ faults' \in Nat /\ faults =< faults'
   BY ShapeFacts DEF BundleTyped, Persists, RunRecords
<1>2. Requests' = Requests /\ Operations' = Operations
   BY SameShape DEF Persists
<1>3. QED
   BY <1>1, <1>2, NoReqStays DEF RunFits

\* Where a run that moves within its dataset may get to.
MovesWell(m, t, pc) ==
   /\ Moves(m, t, pc)
   /\ \/ run[m].pc = "queued" /\ pc = "open"
      \/ run[m].pc \in InDataset \cup {"request"} /\ pc = "fail"
      \/ run[m].pc = "put" /\ pc = "announce"
      \/ run[m].pc = "announce" /\ pc = "save"
      \/ run[m].pc = "fail" /\ pc = "document"
      \/ run[m].pc = "succeed" /\ pc = "finalize"

LEMMA MoveFits ==
   ASSUME BundleTyped, NEW m \in Messages, NEW t, NEW pc, MovesWell(m, t, pc), Persists
   PROVE  RunFits(t)'
<1>1. PICK x \in RunRecords : x = run[m] /\ RunFits(x)
   BY RunFacts
<1>2. RunFits(x)'
   BY <1>1, FitsStill
<1>3. /\ t.try = x.try /\ t.op = x.op /\ t.set = x.set /\ t.req = x.req /\ t.answer = x.answer
      /\ \/ x.pc = "queued" /\ t.pc = "open"
         \/ x.pc \in InDataset \cup {"request"} /\ t.pc = "fail"
         \/ x.pc = "put" /\ t.pc = "announce"
         \/ x.pc = "announce" /\ t.pc = "save"
         \/ x.pc = "fail" /\ t.pc = "document"
         \/ x.pc = "succeed" /\ t.pc = "finalize"
   BY <1>1 DEF MovesWell, Moves, Keeps
<1>4. QED
   BY <1>2, <1>3 DEF RunFits, Running, InDataset, WithRequest, WithAnswer

LEMMA AdvanceFits ==
   ASSUME BundleTyped, NEW m \in Messages, NEW t, Advances(m, t), Persists,
          run[m].pc \in {"fulfil", "document"}
   PROVE  RunFits(t)'
<1>1. PICK x \in RunRecords : x = run[m] /\ RunFits(x)
   BY RunFacts
<1>2. RunFits(x)'
   BY <1>1, FitsStill
<1>3. /\ t.try = x.try /\ t.op = x.op /\ t.pc \in {"succeed", "request"} /\ x.pc \in {"fulfil", "document"}
      /\ t.req = NoReq
   BY <1>1 DEF Advances, Keeps
<1>4. QED
   BY <1>2, <1>3, NoReqStays DEF RunFits, Running, InDataset, WithRequest, WithAnswer

LEMMA RenderFits ==
   ASSUME BundleTyped, NEW m \in Messages, NEW t, NEW k, NEW a \in Answers, Renders(m, t, k, a), Persists,
          run[m].pc \in {"fetch", "save"}
   PROVE  RunFits(t)'
<1>1. PICK x \in RunRecords : x = run[m] /\ RunFits(x)
   BY RunFacts
<1>2. RunFits(x)'
   BY <1>1, FitsStill
<1>3. /\ t.try = x.try /\ t.op = x.op /\ t.set = x.set /\ t.req = x.req /\ x.pc \in {"fetch", "save"}
      /\ t.pc = "fulfil" \/ (t.pc = "put" /\ t.answer \in Answers)
   BY <1>1 DEF Renders, Keeps
<1>4. QED
   BY <1>2, <1>3 DEF RunFits, Running, InDataset, WithRequest, WithAnswer

LEMMA ForgetFits ==
   ASSUME NEW m \in Messages, NEW t, NEW pc \in {"over", "dead", "queued"}, Forgets(m, t, pc), t.try =< faults'
   PROVE  RunFits(t)'
BY NoReqStays DEF Forgets, RunFits, Running, InDataset, WithRequest, WithAnswer

\* A step of a run that has been published.
LEMMA RunStepTyped ==
   ASSUME BundleTyped, NEW m \in Messages, run[m].pc # "none", NEW t, Becomes(m, t), RunFits(t)', Persists,
          OperationsTyped', RequestsTyped', ArtifactsTyped', LogTyped', UNCHANGED operator
   PROVE  BundleTyped'
<1>1. /\ run' \in [Messages -> RunRecords]
      /\ run'[m] = t
      /\ \A n \in Messages : n # m => run'[n] = run[n]
   BY Replaced
<1>2. ASSUME NEW n \in Messages
      PROVE  RunFits(run[n])'
   <2>1. CASE n = m
      BY <1>1, <2>1 DEF RunFits
   <2>2. CASE n # m
      <3>1. PICK x \in RunRecords : x = run[n] /\ RunFits(x)
         BY RunFacts
      <3>2. RunFits(x)' /\ run'[n] = x
         BY <1>1, <2>2, <3>1, FitsStill
      <3>3. QED
         BY <3>2 DEF RunFits
   <2>3. QED
      BY <2>1, <2>2
<1>3. RunsTyped'
   BY <1>1, <1>2, SameShape DEF RunsTyped, Persists
<1>4. OperatorTyped'
   <2>1. Requests' = Requests
      BY SameShape DEF Persists
   <2>2. OperatorTyped /\ (run["retry"].pc = "none" => run'["retry"].pc = "none")
      BY <1>1, BundleNames DEF BundleTyped
   <2>3. QED
      BY <2>1, <2>2 DEF OperatorTyped
<1>5. QED
   BY <1>3, <1>4 DEF BundleTyped, Persists

\* The parts of the type that a step leaves alone.
LEMMA TypedPlain ==
   ASSUME BundleTyped, UNCHANGED shape
   PROVE  /\ UNCHANGED operation => OperationsTyped'
          /\ UNCHANGED request => RequestsTyped'
          /\ UNCHANGED artifacts => ArtifactsTyped'
          /\ UNCHANGED row => row' \in [Sets' -> [Renderings' -> Answers \cup {None}]]
          /\ UNCHANGED object => object' \in [Sets' -> [Renderings' -> Answers \cup {None}]]
          /\ UNCHANGED gap => gap' \subseteq Sets'
          /\ log' \subseteq EventRecords /\ UNCHANGED <<mapped, history>> => LogTyped'
<1>1. Sets' = Sets /\ Renderings' = Renderings /\ Operations' = Operations /\ Requests' = Requests
      /\ EventRecords' = EventRecords /\ RequestRecords' = RequestRecords
   BY SameShape
<1>2. OperationsTyped /\ RequestsTyped /\ ArtifactsTyped /\ LogTyped
   BY DEF BundleTyped
<1>3. UNCHANGED operation => OperationsTyped'
   BY <1>1, <1>2 DEF OperationsTyped
<1>4. UNCHANGED request => RequestsTyped'
   BY <1>1, <1>2 DEF RequestsTyped
<1>5. UNCHANGED artifacts => ArtifactsTyped'
   BY <1>1, <1>2 DEF ArtifactsTyped, artifacts
<1>6. /\ UNCHANGED row => row' \in [Sets' -> [Renderings' -> Answers \cup {None}]]
      /\ UNCHANGED object => object' \in [Sets' -> [Renderings' -> Answers \cup {None}]]
      /\ UNCHANGED gap => gap' \subseteq Sets'
   BY <1>1, <1>2 DEF ArtifactsTyped
<1>7. log' \subseteq EventRecords /\ UNCHANGED <<mapped, history>> => LogTyped'
   BY <1>1, <1>2 DEF LogTyped, history
<1>8. QED
   BY <1>3, <1>4, <1>5, <1>6, <1>7
-----------------------------------------------------------------------------
(* What a step does to the operations, the requests and the log.           *)

LEMMA OperationSet ==
   ASSUME BundleTyped, UNCHANGED shape, NEW o \in Operations,
          NEW st \in {"none", "queued", "running", "succeeded", "failed"},
          operation' = [operation EXCEPT ![o] = st]
   PROVE  /\ OperationsTyped' /\ operation'[o] = st
          /\ \A p \in Operations : p # o => operation'[p] = operation[p]
BY SameShape DEF BundleTyped, OperationsTyped

LEMMA SettleEffect ==
   ASSUME BundleTyped, UNCHANGED shape, NEW m \in Messages, run[m].req \in Requests,
          NEW st \in {"fulfilled", "failed"}, Settle(m, st)
   PROVE  /\ RequestsTyped'
          /\ \A q \in Requests : request'[q].op = request[q].op
          /\ \A q \in Requests : q # run[m].req => request'[q] = request[q]
          /\ request'[run[m].req].status = st
<1>1. PICK r \in Requests : r = run[m].req
   OBVIOUS
<1>2. PICK y \in RequestRecords : y = request[r]
   BY DEF BundleTyped, RequestsTyped
<1> DEFINE z == [y EXCEPT !.status = st]
<1>3. request' = [request EXCEPT ![r] = z]
   BY <1>1, <1>2 DEF Settle, BundleTyped, RequestsTyped
<1>4. z \in RequestRecords /\ z.status = st /\ z.op = y.op
   BY <1>2 DEF RequestRecords
<1> HIDE DEF z
<1>5. RequestRecords' = RequestRecords /\ Requests' = Requests
   BY SameShape
<1>6. request \in [Requests -> RequestRecords]
   BY DEF BundleTyped, RequestsTyped
<1>7. request' \in [Requests -> RequestRecords] /\ request'[r] = z
      /\ \A q \in Requests : q # r => request'[q] = request[q]
   BY <1>3, <1>4, <1>6
<1>8. RequestsTyped'
   BY <1>5, <1>7 DEF RequestsTyped
<1>9. QED
   BY <1>1, <1>2, <1>4, <1>7, <1>8

LEMMA EventFacts ==
   ASSUME shape \in Shapes, NEW d \in 0..shape.sets, NEW k \in 0..shape.formats, NEW a \in Answers \cup {None},
          NEW kind \in {"hashed", "unavailable", "succeeded", "failed"}
   PROVE  /\ Event(kind, d, k, a) \in EventRecords
          /\ Event(kind, d, k, a).kind = kind /\ Event(kind, d, k, a).set = d
          /\ Event(kind, d, k, a).rendering = k /\ Event(kind, d, k, a).answer = a
BY DEF Event, EventRecords

\* The events of a run's dataset.
LEMMA RunEvents ==
   ASSUME BundleTyped, NEW m \in Messages
   PROVE  /\ Event("hashed", Set(m), Rendering(m), run[m].answer) \in EventRecords
          /\ Unavailable(Set(m)) \in EventRecords /\ Succeeded \in EventRecords /\ Failed \in EventRecords
<1>1. PICK x \in RunRecords : x = run[m]
   BY RunFacts
<1>2. x.set \in 0..shape.sets /\ x.rendering \in 0..shape.formats /\ x.answer \in Answers \cup {None}
      /\ 0 \in 0..shape.sets /\ 0 \in 0..shape.formats /\ shape \in Shapes
   BY ShapeFacts DEF BundleTyped, RunRecords
<1>3. QED
   BY <1>1, <1>2, EventFacts DEF Set, Rendering, Unavailable, Succeeded, Failed

\* The operation of a delivery: the message's, or one of its own.
Named(m) == IF run[m].carried = NoOperation THEN <<m, run[m].try>> ELSE run[m].carried

LEMMA NamedFacts ==
   ASSUME BundleTyped, NEW m \in Messages
   PROVE  Named(m) \in Operations
<1>1. PICK x \in RunRecords : x = run[m] /\ RunFits(x)
   BY RunFacts
<1>2. x.try \in 0..shape.faults /\ shape \in Shapes /\ x.carried \in Operations \cup {NoOperation}
   BY <1>1, ShapeFacts DEF BundleTyped, RunFits, RunRecords
<1>3. <<m, x.try>> \in Operations
   BY <1>2, BundleOperations
<1>4. QED
   BY <1>1, <1>2, <1>3 DEF Named

LEMMA OpenEffect ==
   ASSUME BundleTyped, NEW m \in Messages, OpenOperation(m)
   PROVE  /\ operation' = [operation EXCEPT ![Named(m)] = "running"]
          /\ \E t : /\ Becomes(m, t) /\ t.pc = "request" /\ t.op = Named(m) /\ t.try = run[m].try
                    /\ t.set = run[m].set /\ t.req = run[m].req
<1>1. PICK x \in RunRecords : x = run[m]
   BY RunFacts
<1>2. PICK o \in Operations : o = Named(m)
   BY NamedFacts
<1> DEFINE t == [x EXCEPT !.op = o, !.pc = "request"]
<1>3. operation' = [operation EXCEPT ![o] = "running"] /\ run' = [run EXCEPT ![m].op = o, ![m].pc = "request"]
   BY <1>2 DEF OpenOperation, Named
<1>4. run' = [run EXCEPT ![m] = t]
   BY <1>1, <1>3 DEF BundleTyped, RunsTyped
<1>5. t \in RunRecords /\ t.pc = "request" /\ t.op = o /\ t.try = x.try /\ t.set = x.set /\ t.req = x.req
   BY <1>1, <1>2 DEF RunRecords, Pcs, Running
<1> HIDE DEF t
<1>6. QED
   BY <1>1, <1>2, <1>3, <1>4, <1>5 DEF Becomes

\* The dataset's request is there or made, and the run goes on with it.
Finds(m, t, q) ==
   /\ Becomes(m, t) /\ t.pc = "fetch" /\ t.req = q /\ q[2] = t.set
   /\ t.try = run[m].try /\ t.op = run[m].op /\ t.set = run[m].set
   /\ \/ UNCHANGED request
      \/ request' = [request EXCEPT ![q] = [status |-> "in_progress", op |-> run[m].op]]

LEMMA NewRequestFacts ==
   ASSUME BundleTyped, NEW m \in Messages, run[m].op \in Operations
   PROVE  NewRequest(m) \in Requests /\ NewRequest(m)[1] = run[m].op /\ NewRequest(m)[2] = run[m].set
<1>1. PICK x \in RunRecords : x = run[m]
   BY RunFacts
<1>2. PICK k \in {1, 2} : NewRequest(m) = <<x.op, x.set, k>>
   BY <1>1 DEF NewRequest, Operation, Set
<1>3. x.op \in Operations /\ x.set \in Sets
   BY <1>1 DEF RunRecords
<1>4. <<x.op, x.set, k>>[1] = x.op /\ <<x.op, x.set, k>>[2] = x.set
   OBVIOUS
<1>5. <<x.op, x.set, k>> \in Requests
   BY <1>2, <1>3, NewRequests
<1>6. QED
   BY <1>1, <1>2, <1>4, <1>5

LEMMA FindEffect ==
   ASSUME BundleTyped, NEW m \in Messages, FindRequest(m)
   PROVE  \E t : \E q \in Requests : Finds(m, t, q)
<1>1. PICK x \in RunRecords : x = run[m] /\ RunFits(x)
   BY RunFacts
<1>2. x.op \in Operations /\ x.set \in Sets
   BY <1>1 DEF FindRequest, At, RunFits, RunRecords, Running
<1>3. PICK new \in Requests : new = NewRequest(m) /\ new[1] = x.op /\ new[2] = x.set
   BY <1>1, <1>2, NewRequestFacts
<1>4. \/ \E q \in OwnRequests(m) : run' = [run EXCEPT ![m].req = q, ![m].pc = "fetch"] /\ UNCHANGED request
      \/ /\ run' = [run EXCEPT ![m].req = new, ![m].pc = "fetch"]
         /\ request' = [request EXCEPT ![new] = [status |-> "in_progress", op |-> new[1]]]
   BY <1>3 DEF FindRequest, Make
<1>5. PICK q \in Requests :
         /\ q[2] = x.set /\ run' = [run EXCEPT ![m].req = q, ![m].pc = "fetch"]
         /\ \/ UNCHANGED request
            \/ request' = [request EXCEPT ![q] = [status |-> "in_progress", op |-> x.op]]
   BY <1>1, <1>3, <1>4 DEF OwnRequests, Set
<1> DEFINE t == [x EXCEPT !.req = q, !.pc = "fetch"]
<1>6. run' = [run EXCEPT ![m] = t]
   BY <1>1, <1>5 DEF BundleTyped, RunsTyped
<1>7. t \in RunRecords /\ t.pc = "fetch" /\ t.op = x.op /\ t.try = x.try /\ t.set = x.set /\ t.req = q
   BY <1>1, <1>5 DEF RunRecords, Pcs, Running, InDataset
<1> HIDE DEF t
<1>8. Finds(m, t, q)
   <2>1. Becomes(m, t)
      BY <1>6, <1>7 DEF Becomes
   <2>2. q[2] = t.set /\ t.try = run[m].try /\ t.op = run[m].op /\ t.set = run[m].set
      BY <1>1, <1>5, <1>7
   <2>3. \/ UNCHANGED request
         \/ request' = [request EXCEPT ![q] = [status |-> "in_progress", op |-> run[m].op]]
      BY <1>1, <1>5
   <2>4. QED
      BY <1>7, <2>1, <2>2, <2>3 DEF Finds
<1>9. QED
   BY <1>5, <1>8

LEMMA FindRequests ==
   ASSUME BundleTyped, UNCHANGED shape, NEW m \in Messages, run[m].op \in Operations, NEW t, NEW q \in Requests,
          Finds(m, t, q)
   PROVE  /\ RequestsTyped'
          /\ \A p \in Requests : request'[p] = request[p] \/ request'[p].status = "in_progress"
<1>1. PICK o \in Operations : o = run[m].op
   OBVIOUS
<1> DEFINE z == [status |-> "in_progress", op |-> o]
<1>2. z \in RequestRecords /\ z.status = "in_progress"
   BY <1>1 DEF RequestRecords
<1>3. \/ UNCHANGED request
      \/ request' = [request EXCEPT ![q] = z]
   BY <1>1 DEF Finds
<1> HIDE DEF z
<1>4. RequestRecords' = RequestRecords /\ Requests' = Requests
   BY SameShape
<1>5. request \in [Requests -> RequestRecords]
   BY DEF BundleTyped, RequestsTyped
<1>6. QED
   BY <1>2, <1>3, <1>4, <1>5 DEF RequestsTyped

LEMMA MakeRequests ==
   ASSUME BundleTyped, UNCHANGED shape, NEW m \in Messages, run[m].op \in Operations, Make(NewRequest(m))
   PROVE  /\ RequestsTyped'
          /\ \A p \in Requests :
                request'[p] = request[p] \/ (request'[p].status = "in_progress" /\ request'[p].op = run[m].op)
<1>1. PICK q \in Requests : q = NewRequest(m) /\ q[1] = run[m].op
   BY NewRequestFacts
<1> DEFINE z == [status |-> "in_progress", op |-> q[1]]
<1>2. z \in RequestRecords /\ z.status = "in_progress" /\ z.op = run[m].op
   BY <1>1 DEF RequestRecords
<1>3. request' = [request EXCEPT ![q] = z]
   BY <1>1 DEF Make
<1> HIDE DEF z
<1>4. RequestRecords' = RequestRecords /\ Requests' = Requests
   BY SameShape
<1>5. request \in [Requests -> RequestRecords]
   BY DEF BundleTyped, RequestsTyped
<1>6. QED
   BY <1>2, <1>3, <1>4, <1>5 DEF RequestsTyped
-----------------------------------------------------------------------------
(* What has been recorded stays so.                                        *)

Grows ==
   /\ UNCHANGED shape
   /\ \A d \in Sets : \A k \in Renderings : row[d][k] # None => row'[d][k] = row[d][k]
   /\ gap \subseteq gap' /\ log \subseteq log'

LEMMA GrowsPlain ==
   ASSUME UNCHANGED <<shape, row, gap>>, log \subseteq log'
   PROVE  Grows
BY DEF Grows

LEMMA WholeStill ==
   ASSUME Grows, NEW d \in Sets, Whole(d)
   PROVE  Whole(d)'
<1>1. Renderings' = Renderings
   BY SameShape DEF Grows
<1>2. QED
   BY <1>1 DEF Grows, Whole

LEMMA AnyStill ==
   ASSUME Grows, NEW x, AnyRun(x), x.set \in Sets
   PROVE  AnyRun(x)'
<1>1. Renderings' = Renderings /\ Sets' = Sets
   BY SameShape DEF Grows
<1>2. CASE x.pc \in Running
   <2>1. \A d \in Sets : Done(x, d) => Whole(d)' \/ d \in gap'
      BY <1>2, WholeStill DEF AnyRun, Grows
   <2>2. x.pc = "fulfil" => Whole(x.set)'
      BY <1>2, WholeStill DEF AnyRun
   <2>3. x.pc \in WithAnswer => \A j \in Renderings : j < x.rendering => row'[x.set][j] # None
      BY <1>2 DEF AnyRun, Grows
   <2>4. /\ x.pc = "document" => Unavailable(x.set) \in log'
         /\ x.pc = "finalize" => Succeeded \in log'
      BY <1>2 DEF AnyRun, Grows
   <2>5. Done(x, 0)' = Done(x, 0) /\ \A d : Done(x, d)' <=> Done(x, d)
      BY DEF Done
   <2>6. Unavailable(x.set)' = Unavailable(x.set) /\ Succeeded' = Succeeded
      BY DEF Unavailable, Succeeded, Event
   <2>7. QED
      BY <1>1, <2>1, <2>2, <2>3, <2>4, <2>5, <2>6 DEF AnyRun
<1>3. CASE x.pc \notin Running
   BY <1>3 DEF AnyRun
<1>4. QED
   BY <1>2, <1>3

\* A request's status is what it was, open, or true.
Answered(q) ==
   \/ request'[q].status = request[q].status
   \/ request'[q].status \in {"none", "open", "in_progress"}
   \/ request'[q].status = "fulfilled" /\ Whole(q[2])
   \/ request'[q].status = "failed" /\ Unavailable(q[2]) \in log

LEMMA AnyStep ==
   ASSUME BundleTyped, AnyInv, NEW m \in Messages, NEW t, Becomes(m, t), Grows, AnyRun(t)',
          Succeeded \in log' => Succeeded \in log \/ \A d \in Sets : Whole(d) \/ d \in gap,
          \A q \in Requests : Answered(q)
   PROVE  AnyInv'
<1>1. /\ run'[m] = t
      /\ \A n \in Messages : n # m => run'[n] = run[n]
   BY Replaced
<1>2. Requests' = Requests /\ Renderings' = Renderings /\ Sets' = Sets
   BY SameShape DEF Grows
<1>3. ASSUME NEW n \in Messages
      PROVE  AnyRun(run[n])'
   <2>1. CASE n = m
      BY <1>1, <2>1 DEF AnyRun, Done
   <2>2. CASE n # m
      <3>1. PICK x \in RunRecords : x = run[n] /\ AnyRun(x)
         BY RunFacts DEF AnyInv
      <3>2. x.set \in Sets
         BY DEF RunRecords
      <3>3. AnyRun(x)' /\ run'[n] = x
         BY <1>1, <2>2, <3>1, <3>2, AnyStill
      <3>4. QED
         BY <3>3 DEF AnyRun, Done
   <2>3. QED
      BY <2>1, <2>2
<1>4. BundleIsDocumented'
   <2>1. SUFFICES ASSUME Succeeded \in log', NEW d \in Sets
                  PROVE  Whole(d)' \/ d \in gap'
      BY <1>2 DEF BundleIsDocumented, Succeeded
   <2>2. Whole(d) \/ d \in gap
      BY <2>1 DEF AnyInv, BundleIsDocumented
   <2>3. QED
      BY <2>2, WholeStill DEF Grows
<1>5. RequestsAnswerTruly'
   <2>1. ASSUME NEW q \in Requests
         PROVE  /\ request'[q].status = "fulfilled" => Whole(q[2])'
                /\ request'[q].status = "failed" => Unavailable(q[2]) \in log'
      <3>1. q[2] \in Sets /\ Answered(q)
         BY BundleNames
      <3>2. /\ request[q].status = "fulfilled" => Whole(q[2])
            /\ request[q].status = "failed" => Unavailable(q[2]) \in log
         BY DEF AnyInv, RequestsAnswerTruly
      <3>3. /\ request'[q].status = "fulfilled" => Whole(q[2])
            /\ request'[q].status = "failed" => Unavailable(q[2]) \in log
         BY <3>1, <3>2 DEF Answered
      <3>4. QED
         BY <3>1, <3>3, WholeStill DEF Grows
   <2>2. \A q \in Requests : Unavailable(q[2])' = Unavailable(q[2])
      BY DEF Unavailable, Event
   <2>3. QED
      BY <1>2, <2>1, <2>2 DEF RequestsAnswerTruly
<1>6. QED
   BY <1>3, <1>4, <1>5 DEF AnyInv

\* A run that is under way is the only one.
LEMMA LoneStep ==
   ASSUME BundleTyped, LoneInv, UNCHANGED <<shape, overlapped>>, NEW m \in Busy, NEW t, Becomes(m, t),
          ~overlapped => LoneRun(t)',
          ~overlapped => \A d \in Sets : \A k \in Renderings : row'[d][k] # None => object'[d][k] = row'[d][k]
   PROVE  LoneInv'
<1>1. m \in Messages
   BY DEF Busy
<1>2. /\ run'[m] = t
      /\ \A n \in Messages : n # m => run'[n] = run[n]
   BY <1>1, Replaced
<1>3. SUFFICES ASSUME ~overlapped
               PROVE  /\ \A i, j \in Messages : i \in Busy' /\ j \in Busy' => i = j
                      /\ \A n \in Messages : LoneRun(run[n])'
                      /\ \A d \in Sets' : \A k \in Renderings' : row'[d][k] # None => object'[d][k] = row'[d][k]
   BY DEF LoneInv
<1>4. \A n \in Messages : n # m => n \notin Busy
   BY <1>1, <1>3 DEF LoneInv
<1>5. \A n \in Messages : n # m => run'[n].pc \notin Running
   BY <1>2, <1>4 DEF Busy
<1>6. \A i, j \in Messages : i \in Busy' /\ j \in Busy' => i = j
   BY <1>5 DEF Busy
<1>7. ASSUME NEW n \in Messages
      PROVE  LoneRun(run[n])'
   <2>1. CASE n = m
      BY <1>2, <1>3, <2>1 DEF LoneRun
   <2>2. CASE n # m
      BY <1>5, <2>2 DEF LoneRun, WithAnswer, Running, InDataset
   <2>3. QED
      BY <2>1, <2>2
<1>8. QED
   BY <1>3, <1>6, <1>7, SameShape

AllBlank == \A d \in Sets : \A k \in Renderings : Blank(d, k)

LEMMA QuietStep ==
   ASSUME BundleTyped, LoneInv, QuietInv, UNCHANGED <<shape, overlapped>>, NEW m \in Busy, NEW t, Becomes(m, t),
          Undisturbed' => Undisturbed,
          Undisturbed' => QuietRun(t)',
          Undisturbed' /\ t.pc \notin Running => Succeeded \in log' \/ AllBlank',
          Undisturbed' => \A d \in Sets : Unavailable(d) \in log' \/ InOnePiece(d)'
   PROVE  QuietInv'
<1>1. m \in Messages
   BY DEF Busy
<1>2. /\ run'[m] = t
      /\ \A n \in Messages : n # m => run'[n] = run[n]
   BY <1>1, Replaced
<1>3. SUFFICES ASSUME Undisturbed'
               PROVE  /\ \A n \in Messages : QuietRun(run[n])'
                      /\ Busy' = {} /\ Succeeded \notin log' => AllBlank'
                      /\ \A d \in Sets' : Unavailable(d) \in log' \/ InOnePiece(d)'
   BY DEF QuietInv, AllBlank, Succeeded, Unavailable, Event
<1>4. \A n \in Messages : n # m => n \notin Busy
   BY <1>1, <1>3 DEF LoneInv, Undisturbed
<1>5. ASSUME NEW n \in Messages
      PROVE  QuietRun(run[n])'
   <2>1. CASE n = m
      BY <1>2, <1>3, <2>1 DEF QuietRun
   <2>2. CASE n # m
      <3>1. run'[n].pc \notin Running
         BY <1>2, <1>4, <2>2 DEF Busy
      <3>2. QED
         BY <3>1 DEF QuietRun
   <2>3. QED
      BY <2>1, <2>2
<1>6. Busy' = {} => t.pc \notin Running
   BY <1>1, <1>2 DEF Busy
<1>7. Sets' = Sets
   BY SameShape
<1>8. QED
   BY <1>3, <1>5, <1>6, <1>7

\* Steps that leave parts of what is recorded alone.
LEMMA LonePlain ==
   ASSUME BundleTyped, LoneInv, UNCHANGED <<shape, row, object, overlapped>>,
          NEW m \in Busy, NEW t, Becomes(m, t), ~overlapped => LoneRun(t)
   PROVE  LoneInv'
<1>1. LoneRun(t)' <=> LoneRun(t)
   BY DEF LoneRun
<1>2. ~overlapped => \A d \in Sets : \A k \in Renderings : row'[d][k] # None => object'[d][k] = row'[d][k]
   BY DEF LoneInv
<1>3. QED
   BY <1>1, <1>2, LoneStep

LEMMA UndisturbedStill ==
   ASSUME BundleTyped, Persists, UNCHANGED overlapped
   PROVE  Undisturbed' => Undisturbed /\ faults' = 0
<1>1. faults \in Nat /\ faults' \in Nat /\ faults =< faults'
   BY ShapeFacts DEF BundleTyped, Persists
<1>2. QED
   BY <1>1 DEF Undisturbed

LEMMA QuietPlain ==
   ASSUME BundleTyped, LoneInv, QuietInv, Persists, UNCHANGED <<row, log, overlapped>>,
          NEW m \in Busy, NEW t, Becomes(m, t),
          Undisturbed /\ faults' = 0 =>
             QuietRun(t) /\ (t.pc \notin Running => Succeeded \in log \/ AllBlank)
   PROVE  QuietInv'
<1>1. Renderings' = Renderings /\ Sets' = Sets
   BY SameShape DEF Persists
<1>2. Undisturbed' => Undisturbed /\ faults' = 0
   BY UndisturbedStill
<1>3. \A d, k : Hashes(d, k)' = Hashes(d, k) /\ (Blank(d, k)' <=> Blank(d, k))
   BY DEF Hashes, Blank
<1>4. \A d : InOnePiece(d)' <=> InOnePiece(d)
   BY <1>1, <1>3 DEF InOnePiece, Event
<1>5. AllBlank' <=> AllBlank
   BY <1>1, <1>3 DEF AllBlank
<1>6. QuietRun(t)' <=> QuietRun(t)
   BY <1>1, <1>3 DEF QuietRun, Event, Succeeded
<1>7. QED
   BY <1>2, <1>4, <1>5, <1>6, QuietStep DEF QuietInv, Succeeded, Persists

LEMMA PlainStep ==
   ASSUME BundleTyped, AnyInv, LoneInv, QuietInv, Persists, UNCHANGED <<artifacts, log, overlapped>>,
          NEW m \in Busy, NEW t, Becomes(m, t), AnyRun(t), ~overlapped => LoneRun(t),
          Undisturbed /\ faults' = 0 =>
             QuietRun(t) /\ (t.pc \notin Running => Succeeded \in log \/ AllBlank),
          \A q \in Requests : Answered(q)
   PROVE  AnyInv' /\ LoneInv' /\ QuietInv'
<1>1. m \in Messages /\ UNCHANGED <<shape, row, object, gap>>
   BY DEF Busy, Persists, artifacts
<1>2. AnyInv'
   <2>1. Grows
      BY <1>1, GrowsPlain
   <2>2. t.set \in Sets
      BY DEF Becomes, RunRecords
   <2>3. AnyRun(t)'
      BY <2>1, <2>2, AnyStill
   <2>4. Succeeded \in log' => Succeeded \in log
      OBVIOUS
   <2>5. QED
      BY <1>1, <2>1, <2>3, <2>4, AnyStep
<1>3. LoneInv' /\ QuietInv'
   BY <1>1, LonePlain, QuietPlain
<1>4. QED
   BY <1>2, <1>3
-----------------------------------------------------------------------------
(* The steps of a run.                                                     *)

BundleCore == BundleTyped /\ AnyInv /\ LoneInv /\ QuietInv

LEMMA CoreRun ==
   ASSUME BundleCore, NEW m \in Messages
   PROVE  /\ run[m] \in RunRecords /\ RunFits(run[m]) /\ AnyRun(run[m])
          /\ ~overlapped => LoneRun(run[m])
          /\ Undisturbed => QuietRun(run[m])
          /\ run[m].pc \in Running => m \in Busy
BY RunFacts DEF BundleCore, AnyInv, LoneInv, QuietInv, Busy

LEMMA SkipStep ==
   ASSUME BundleCore, NEW m \in Messages, SkipDuplicate(m), UNCHANGED shape
   PROVE  BundleCore'
<1>1. PICK t : Forgets(m, t, "over") /\ t.try = 0
   BY EndEffect DEF SkipDuplicate, BundleCore, Pcs
<1>2. Becomes(m, t) /\ t.pc = "over" /\ run[m].pc = "queued"
   BY <1>1 DEF Forgets, SkipDuplicate, At
<1>3. Persists
   BY PersistsPlain DEF SkipDuplicate, BundleCore
<1>4. faults' \in Nat
   BY <1>3, ShapeFacts DEF Persists, BundleCore, BundleTyped
<1>5. BundleTyped'
   <2>1. RunFits(t)'
      BY <1>1, <1>4, ForgetFits
   <2>2. LogTyped'
      BY SameShape DEF SkipDuplicate, LogTyped, BundleCore, BundleTyped
   <2>3. QED
      BY <1>2, <1>3, <2>1, <2>2, RunStepTyped, TypedPlain DEF SkipDuplicate, BundleCore
<1>6. UNCHANGED <<row, gap, object, log, overlapped, faults, request, shape>>
   BY DEF SkipDuplicate, artifacts
<1>7. AnyInv'
   <2>1. Grows
      BY <1>6, GrowsPlain
   <2>2. AnyRun(t)'
      BY <1>2 DEF AnyRun, Running, InDataset
   <2>3. \A q \in Requests : Answered(q)
      BY <1>6 DEF Answered
   <2>4. QED
      BY <1>2, <1>6, <2>1, <2>2, <2>3, AnyStep DEF BundleCore
<1>8. /\ run'[m] = t
      /\ \A n \in Messages : n # m => run'[n] = run[n]
   BY <1>2, Replaced DEF BundleCore
<1>9. Busy' = Busy
   BY <1>2, <1>8 DEF Busy, Running, InDataset
<1>10. Renderings' = Renderings /\ Sets' = Sets
   BY SameShape
<1>11. LoneInv'
   <2>1. ~overlapped => \A n \in Messages : LoneRun(run[n])'
      BY <1>2, <1>6, <1>8 DEF BundleCore, LoneInv, LoneRun, WithAnswer
   <2>2. QED
      BY <1>6, <1>9, <1>10, <2>1 DEF BundleCore, LoneInv
<1>12. QuietInv'
   <2>1. \A d, k : Hashes(d, k)' = Hashes(d, k) /\ (Blank(d, k)' <=> Blank(d, k))
      BY <1>6 DEF Hashes, Blank
   <2>2. \A d : InOnePiece(d)' <=> InOnePiece(d)
      BY <1>6, <1>10, <2>1 DEF InOnePiece, Event
   <2>3. Undisturbed' <=> Undisturbed
      BY <1>6 DEF Undisturbed
   <2>4. ASSUME Undisturbed, NEW n \in Messages
         PROVE  QuietRun(run[n])'
      <3>1. CASE n = m
         BY <1>2, <1>8, <3>1 DEF QuietRun, Running, InDataset
      <3>2. CASE n # m
         <4>1. QuietRun(run[n])
            BY <2>4 DEF BundleCore, QuietInv
         <4>2. PICK x \in RunRecords : x = run[n] /\ x = run'[n]
            BY <1>8, <3>2, CoreRun
         <4>3. QuietRun(x)' <=> QuietRun(x)
            BY <1>6, <1>10, <2>1 DEF QuietRun, Event, Succeeded
         <4>4. QuietRun(x)'
            BY <4>1, <4>2, <4>3
         <4>5. QED
            BY <4>2, <4>4 DEF QuietRun
      <3>3. QED
         BY <3>1, <3>2
   <2>5. QED
      BY <1>6, <1>9, <1>10, <2>1, <2>2, <2>3, <2>4 DEF BundleCore, QuietInv, Succeeded, Unavailable, Event
<1>13. QED
   BY <1>5, <1>7, <1>11, <1>12 DEF BundleCore

LEMMA StartStep ==
   ASSUME BundleCore, NEW m \in Messages, Start(m), UNCHANGED shape
   PROVE  BundleCore'
<1>1. PICK t : Moves(m, t, "open")
   BY GotoEffect DEF Start, BundleCore, Pcs, Running
<1>2. PICK x \in RunRecords : x = run[m] /\ RunFits(x) /\ x.pc = "queued"
   BY CoreRun DEF Start, At
<1>3. Becomes(m, t) /\ t.pc = "open" /\ t.set = x.set /\ x.set = 1
   BY <1>1, <1>2 DEF Moves, Keeps, RunFits
<1>4. Persists
   BY PersistsPlain DEF Start, BundleCore
<1>5. BundleTyped'
   <2>1. RunFits(t)'
      BY <1>1, <1>2, <1>4, MoveFits DEF MovesWell, BundleCore
   <2>2. LogTyped'
      BY SameShape DEF Start, LogTyped, BundleCore, BundleTyped
   <2>3. QED
      BY <1>2, <1>3, <1>4, <2>1, <2>2, RunStepTyped, TypedPlain DEF Start, BundleCore
<1>6. UNCHANGED <<row, gap, object, log, faults, request, shape>> /\ Succeeded \notin log
   BY DEF Start, artifacts
<1>7. AnyInv'
   <2>1. Grows
      BY <1>6, GrowsPlain
   <2>2. AnyRun(t)'
      BY <1>3, SameShape, ShapeFacts DEF AnyRun, Done, WithAnswer, BundleCore, BundleTyped
   <2>3. \A q \in Requests : Answered(q)
      BY <1>6 DEF Answered
   <2>4. QED
      BY <1>3, <1>6, <2>1, <2>2, <2>3, AnyStep DEF BundleCore
<1>8. /\ run'[m] = t
      /\ \A n \in Messages : n # m => run'[n] = run[n]
   BY <1>3, Replaced DEF BundleCore
<1>9. ~overlapped' => ~overlapped /\ \A n \in Messages : n # m => run[n].pc \notin Running
   BY DEF Start
<1>10. ~overlapped' => Busy' = {m} /\ Busy = {}
   BY <1>2, <1>3, <1>8, <1>9 DEF Busy, Running, InDataset
<1>11. Renderings' = Renderings /\ Sets' = Sets
   BY SameShape
<1>12. LoneInv'
   <2>1. ASSUME ~overlapped', NEW n \in Messages
         PROVE  LoneRun(run[n])'
      BY <1>3, <1>8, <1>9, <2>1 DEF LoneRun, WithAnswer, Running, InDataset
   <2>2. QED
      BY <1>6, <1>9, <1>10, <1>11, <2>1 DEF BundleCore, LoneInv
<1>13. QuietInv'
   <2>1. \A d, k : Hashes(d, k)' = Hashes(d, k) /\ (Blank(d, k)' <=> Blank(d, k))
      BY <1>6 DEF Hashes, Blank
   <2>2. \A d : InOnePiece(d)' <=> InOnePiece(d)
      BY <1>6, <1>11, <2>1 DEF InOnePiece, Event
   <2>3. Undisturbed' => Undisturbed
      BY <1>6, <1>9 DEF Undisturbed
   <2>4. Undisturbed' => AllBlank
      BY <1>6, <1>10, <2>3 DEF BundleCore, QuietInv, AllBlank, Undisturbed
   <2>5. ASSUME Undisturbed', NEW n \in Messages
         PROVE  QuietRun(run[n])'
      <3>1. CASE n = m
         <4>1. \A d \in Sets' : \A k \in Renderings' : Blank(d, k)'
            BY <1>11, <2>1, <2>4, <2>5 DEF AllBlank
         <4>2. t.pc = "open" /\ run'[n] = t /\ Succeeded \notin log'
            BY <1>3, <1>6, <1>8, <3>1
         <4>3. QED
            BY <4>1, <4>2 DEF QuietRun, WithAnswer, Succeeded, Event
      <3>2. CASE n # m
         BY <1>8, <1>9, <2>5, <3>2 DEF QuietRun, Undisturbed
      <3>3. QED
         BY <3>1, <3>2
   <2>6. Undisturbed' => Busy' # {}
      BY <1>10 DEF Undisturbed
   <2>7. QED
      BY <1>6, <1>11, <2>2, <2>3, <2>5, <2>6 DEF BundleCore, QuietInv, Unavailable, Event
<1>14. QED
   BY <1>5, <1>7, <1>12, <1>13 DEF BundleCore

LEMMA OpenStep ==
   ASSUME BundleCore, NEW m \in Messages, OpenOperation(m), UNCHANGED shape
   PROVE  BundleCore'
<1>1. PICK x \in RunRecords : x = run[m] /\ RunFits(x) /\ AnyRun(x) /\ (Undisturbed => QuietRun(x)) /\ x.pc = "open"
   BY CoreRun DEF OpenOperation, At
<1>2. PICK t : /\ Becomes(m, t) /\ t.pc = "request" /\ t.op = Named(m) /\ t.try = x.try /\ t.set = x.set
               /\ t.req = x.req
   BY <1>1, OpenEffect DEF BundleCore
<1>3. m \in Busy /\ Named(m) \in Operations /\ x.set = 1
   BY <1>1, CoreRun, NamedFacts DEF BundleCore, Running, RunFits
<1>4. Persists
   BY PersistsPlain DEF OpenOperation, BundleCore
<1>5. BundleTyped'
   <2>1. RunFits(x)'
      BY <1>1, <1>4, FitsStill DEF BundleCore
   <2>2. Operations' = Operations
      BY SameShape
   <2>3. RunFits(t)'
      BY <1>1, <1>2, <1>3, <2>1, <2>2 DEF RunFits, Running, InDataset, WithRequest, WithAnswer
   <2>4. OperationsTyped'
      BY <1>3, OpenEffect, OperationSet DEF BundleCore
   <2>5. log' \subseteq EventRecords
      BY DEF OpenOperation, BundleCore, BundleTyped, LogTyped
   <2>6. QED
      BY <1>1, <1>2, <1>4, <2>3, <2>4, <2>5, RunStepTyped, TypedPlain DEF OpenOperation, BundleCore
<1>6. AnyRun(t)
   BY <1>1, <1>2, <1>3, ShapeFacts DEF AnyRun, Done, WithAnswer, BundleCore, BundleTyped
<1>7. LoneRun(t)
   BY <1>2 DEF LoneRun, WithAnswer
<1>8. Undisturbed => QuietRun(t) /\ t.pc \in Running
   BY <1>1, <1>2 DEF QuietRun, WithAnswer, Running
<1>9. \A q \in Requests : Answered(q)
   BY DEF OpenOperation, Answered
<1>10. QED
   BY <1>2, <1>3, <1>4, <1>5, <1>6, <1>7, <1>8, <1>9, PlainStep DEF BundleCore, OpenOperation, history

LEMMA RefuseStep ==
   ASSUME BundleCore, NEW m \in Messages, RefuseUnmapped(m), UNCHANGED shape
   PROVE  BundleCore'
<1>1. PICK x \in RunRecords : x = run[m] /\ RunFits(x) /\ (Undisturbed => QuietRun(x)) /\ x.pc = "open"
   BY CoreRun DEF RefuseUnmapped, At
<1>2. PICK t : Forgets(m, t, "over") /\ t.try = 0
   BY EndEffect DEF RefuseUnmapped, BundleCore, Pcs
<1>3. m \in Busy /\ Named(m) \in Operations /\ x.set = 1
   BY <1>1, CoreRun, NamedFacts DEF BundleCore, Running, RunFits
<1>4. Persists
   BY PersistsPlain DEF RefuseUnmapped, BundleCore
<1>5. Becomes(m, t) /\ t.pc = "over"
   BY <1>2 DEF Forgets
<1>6. BundleTyped'
   <2>1. faults' \in Nat
      BY <1>4, ShapeFacts DEF Persists, BundleCore, BundleTyped
   <2>2. RunFits(t)'
      BY <1>2, <2>1, ForgetFits
   <2>3. operation' = [operation EXCEPT ![Named(m)] = "failed"]
      BY DEF RefuseUnmapped, Named
   <2>4. OperationsTyped'
      BY <1>3, <2>3, OperationSet DEF BundleCore
   <2>5. log' \subseteq EventRecords
      BY DEF RefuseUnmapped, BundleCore, BundleTyped, LogTyped
   <2>6. QED
      BY <1>1, <1>4, <1>5, <2>2, <2>4, <2>5, RunStepTyped, TypedPlain DEF RefuseUnmapped, BundleCore
<1>7. AnyRun(t) /\ LoneRun(t) /\ QuietRun(t)
   BY <1>5 DEF AnyRun, LoneRun, QuietRun, WithAnswer, Running, InDataset
<1>8. Undisturbed => AllBlank
   <2>1. \A d \in Sets : d > x.set \/ (d = x.set /\ x.pc \in {"open", "request", "fetch"})
      BY <1>1, <1>3, ShapeFacts DEF BundleCore, BundleTyped
   <2>2. QED
      BY <1>1, <2>1 DEF QuietRun, Running, AllBlank
<1>9. \A q \in Requests : Answered(q)
   BY DEF RefuseUnmapped, Answered
<1>10. QED
   BY <1>3, <1>4, <1>5, <1>6, <1>7, <1>8, <1>9, PlainStep DEF BundleCore, RefuseUnmapped, history

LEMMA FindStep ==
   ASSUME BundleCore, NEW m \in Messages, FindRequest(m), UNCHANGED shape
   PROVE  BundleCore'
<1>1. PICK x \in RunRecords : x = run[m] /\ RunFits(x) /\ AnyRun(x) /\ (Undisturbed => QuietRun(x)) /\ x.pc = "request"
   BY CoreRun DEF FindRequest, At
<1>2. PICK t : \E q \in Requests : Finds(m, t, q)
   BY FindEffect DEF BundleCore
<1>3. PICK q \in Requests : Finds(m, t, q)
   BY <1>2
<1>4. m \in Busy /\ x.op \in Operations
   BY <1>1, CoreRun DEF BundleCore, Running, RunFits
<1>5. Becomes(m, t) /\ t.pc = "fetch" /\ t.req = q /\ q[2] = t.set /\ t.try = x.try /\ t.op = x.op /\ t.set = x.set
   BY <1>1, <1>3 DEF Finds
<1>6. Persists
   BY PersistsPlain DEF FindRequest, BundleCore
<1>7. RequestsTyped' /\ \A p \in Requests : request'[p] = request[p] \/ request'[p].status = "in_progress"
   BY <1>1, <1>3, <1>4, FindRequests DEF BundleCore
<1>8. BundleTyped'
   <2>1. RunFits(x)' /\ Requests' = Requests
      BY <1>1, <1>6, FitsStill, SameShape DEF BundleCore
   <2>2. RunFits(t)'
      BY <1>1, <1>5, <2>1, BundleNames, NoReqStays DEF RunFits, Running, InDataset, WithRequest, WithAnswer
   <2>3. log' \subseteq EventRecords
      BY DEF FindRequest, BundleCore, BundleTyped, LogTyped
   <2>4. QED
      BY <1>1, <1>5, <1>6, <1>7, <2>2, <2>3, RunStepTyped, TypedPlain DEF FindRequest, BundleCore
<1>9. AnyRun(t)
   BY <1>1, <1>5 DEF AnyRun, Done, WithAnswer, Running, InDataset
<1>10. LoneRun(t)
   BY <1>5 DEF LoneRun, WithAnswer
<1>11. Undisturbed => QuietRun(t) /\ t.pc \in Running
   BY <1>1, <1>5 DEF QuietRun, WithAnswer, Running, InDataset
<1>12. \A p \in Requests : Answered(p)
   BY <1>7 DEF Answered
<1>13. QED
   BY <1>4, <1>5, <1>6, <1>8, <1>9, <1>10, <1>11, <1>12, PlainStep DEF BundleCore, FindRequest, history

LEMMA FetchStep ==
   ASSUME BundleCore, NEW m \in Messages, Fetch(m), UNCHANGED shape
   PROVE  BundleCore'
<1>1. PICK x \in RunRecords : x = run[m] /\ RunFits(x) /\ AnyRun(x) /\ (Undisturbed => QuietRun(x)) /\ x.pc = "fetch"
   BY CoreRun DEF Fetch, At
<1>2. PICK a \in Answers : Render(m, 1, a)
   BY DEF Fetch
<1>3. PICK t : Renders(m, t, 1, a)
   BY <1>2, RenderEffect DEF BundleCore
<1>4. m \in Busy /\ Renderings \subseteq Nat /\ \A k \in Renderings : k >= 1
   BY <1>1, CoreRun, ShapeFacts DEF BundleCore, BundleTyped, Running, InDataset
<1>5. /\ Becomes(m, t) /\ t.set = x.set /\ t.rendering \in Renderings /\ t.pc \in {"fulfil", "put"}
      /\ t.pc = "fulfil" => \A j \in Renderings : row[t.set][j] # None
      /\ t.pc = "put" => /\ t.answer = a /\ row[t.set][t.rendering] = None
                         /\ \A j \in Renderings : j < t.rendering => row[t.set][j] # None
   BY <1>1, <1>3, <1>4 DEF Renders, Keeps, Becomes, RunRecords
<1>6. Persists
   BY PersistsPlain DEF Fetch, BundleCore
<1>7. BundleTyped'
   <2>1. RunFits(t)'
      BY <1>1, <1>3, <1>6, RenderFits DEF BundleCore
   <2>2. log' \subseteq EventRecords
      BY DEF Fetch, BundleCore, BundleTyped, LogTyped
   <2>3. QED
      BY <1>1, <1>5, <1>6, <2>1, <2>2, RunStepTyped, TypedPlain DEF Fetch, BundleCore
<1>8. AnyRun(t)
   BY <1>1, <1>5 DEF AnyRun, Done, WithAnswer, Running, InDataset, Whole
<1>9. LoneRun(t)
   BY <1>5 DEF LoneRun, WithAnswer
<1>10. Undisturbed => QuietRun(t) /\ t.pc \in Running
   <2>1. SUFFICES ASSUME Undisturbed
                  PROVE  QuietRun(t) /\ t.pc \in Running
      OBVIOUS
   <2>2. /\ Succeeded \notin log
         /\ \A d \in Sets : \A k \in Renderings : d >= x.set => Blank(d, k)
      BY <1>1, <2>1, ShapeFacts DEF QuietRun, Running, InDataset, RunRecords, BundleCore, BundleTyped
   <2>3. t.set \in Sets /\ \A k \in Renderings : Blank(t.set, k)
      BY <1>5, <2>2, ShapeFacts DEF RunRecords, BundleCore, BundleTyped
   <2>4. \A d \in Sets : \A k \in Renderings : d > t.set => Blank(d, k)
      BY <1>5, <2>2, ShapeFacts DEF RunRecords, BundleCore, BundleTyped
   <2>5. QED
      BY <1>5, <2>2, <2>3, <2>4 DEF QuietRun, WithAnswer, Running, InDataset, Blank
<1>11. \A q \in Requests : Answered(q)
   BY DEF Fetch, Answered
<1>12. QED
   BY <1>4, <1>5, <1>6, <1>7, <1>8, <1>9, <1>10, <1>11, PlainStep DEF BundleCore, Fetch, history

\* The dataset fails, by itself or for the time limit.
LEMMA FailStep ==
   ASSUME BundleCore, NEW m \in Messages, UNCHANGED shape, DatasetFails(m) \/ TimeLimitInDataset(m)
   PROVE  BundleCore'
<1>1. PICK x \in RunRecords : /\ x = run[m] /\ RunFits(x) /\ AnyRun(x) /\ (Undisturbed => QuietRun(x))
                              /\ x.pc \in InDataset
   BY CoreRun DEF DatasetFails, TimeLimitInDataset, InDataset
<1>2. PICK t : Moves(m, t, "fail")
   BY GotoEffect DEF DatasetFails, TimeLimitInDataset, BundleCore, Pcs, Running
<1>3. m \in Busy
   BY <1>1, CoreRun DEF Running
<1>4. Becomes(m, t) /\ t.pc = "fail" /\ t.set = x.set
   BY <1>1, <1>2 DEF Moves, Keeps
<1>5. Persists
   BY PersistsPlain, PersistsFault DEF DatasetFails, TimeLimitInDataset, BundleCore
<1>6. UNCHANGED <<operation, request, artifacts, log, mapped, operator, history, overlapped>>
   BY DEF DatasetFails, TimeLimitInDataset, history
<1>7. BundleTyped'
   <2>1. RunFits(t)'
      BY <1>1, <1>2, <1>5, MoveFits DEF MovesWell, BundleCore
   <2>2. log' \subseteq EventRecords
      BY <1>6 DEF BundleCore, BundleTyped, LogTyped
   <2>3. x.pc # "none"
      BY <1>1 DEF InDataset
   <2>4. QED
      BY <1>1, <1>4, <1>5, <1>6, <2>1, <2>2, <2>3, RunStepTyped, TypedPlain DEF BundleCore
<1>8. AnyRun(t) /\ LoneRun(t)
   BY <1>1, <1>4 DEF AnyRun, LoneRun, Done, WithAnswer, Running, InDataset
<1>9. Undisturbed => QuietRun(t) /\ t.pc \in Running
   BY <1>1, <1>4 DEF QuietRun, WithAnswer, Running, InDataset
<1>10. \A q \in Requests : Answered(q)
   BY <1>6 DEF Answered
<1>11. QED
   BY <1>3, <1>4, <1>5, <1>6, <1>7, <1>8, <1>9, <1>10, PlainStep DEF BundleCore

\* The time limit before the dataset's request is at hand.
LEMMA LimitStep ==
   ASSUME BundleCore, NEW m \in Messages, UNCHANGED shape, TimeLimitInRequest(m)
   PROVE  BundleCore'
<1>1. PICK x \in RunRecords : /\ x = run[m] /\ RunFits(x) /\ AnyRun(x) /\ (Undisturbed => QuietRun(x))
                              /\ x.pc = "request"
   BY CoreRun DEF TimeLimitInRequest, At
<1>2. PICK t : Moves(m, t, "fail")
   BY GotoEffect DEF TimeLimitInRequest, BundleCore, Pcs, Running
<1>3. m \in Busy /\ x.op \in Operations
   BY <1>1, CoreRun DEF Running, RunFits
<1>4. Becomes(m, t) /\ t.pc = "fail" /\ t.set = x.set
   BY <1>1, <1>2 DEF Moves, Keeps
<1>5. Persists
   BY PersistsFault DEF TimeLimitInRequest, BundleCore
<1>6. UNCHANGED <<operation, artifacts, log, mapped, operator, history, overlapped>>
   BY DEF TimeLimitInRequest, history
<1>7. RequestsTyped' /\ \A q \in Requests : request'[q] = request[q] \/ request'[q].status = "in_progress"
   <2>1. CASE UNCHANGED request
      BY <2>1, TypedPlain DEF BundleCore
   <2>2. CASE Make(NewRequest(m))
      BY <1>1, <1>3, <2>2, MakeRequests DEF BundleCore
   <2>3. QED
      BY <2>1, <2>2 DEF TimeLimitInRequest
<1>8. BundleTyped'
   <2>1. RunFits(t)'
      BY <1>1, <1>2, <1>5, MoveFits DEF MovesWell, BundleCore
   <2>2. log' \subseteq EventRecords
      BY <1>6 DEF BundleCore, BundleTyped, LogTyped
   <2>3. QED
      BY <1>1, <1>4, <1>5, <1>6, <1>7, <2>1, <2>2, RunStepTyped, TypedPlain DEF BundleCore
<1>9. AnyRun(t) /\ LoneRun(t)
   BY <1>1, <1>4 DEF AnyRun, LoneRun, Done, WithAnswer, Running, InDataset
<1>10. Undisturbed => QuietRun(t) /\ t.pc \in Running
   BY <1>1, <1>4 DEF QuietRun, WithAnswer, Running, InDataset
<1>11. \A q \in Requests : Answered(q)
   BY <1>7 DEF Answered
<1>12. QED
   BY <1>3, <1>4, <1>5, <1>6, <1>8, <1>9, <1>10, <1>11, PlainStep DEF BundleCore

LEMMA PutStep ==
   ASSUME BundleCore, NEW m \in Messages, Put(m), UNCHANGED shape
   PROVE  BundleCore'
<1>1. PICK x \in RunRecords : /\ x = run[m] /\ RunFits(x) /\ AnyRun(x) /\ (Undisturbed => QuietRun(x))
                              /\ (~overlapped => LoneRun(x)) /\ x.pc = "put"
   BY CoreRun DEF Put, At
<1>2. PICK t : Moves(m, t, "announce")
   BY GotoEffect DEF Put, BundleCore, Pcs, Running, InDataset
<1>3. m \in Busy
   BY <1>1, CoreRun DEF Running, InDataset
<1>4. Becomes(m, t) /\ t.pc = "announce" /\ t.set = x.set /\ t.rendering = x.rendering /\ t.answer = x.answer
   BY <1>1, <1>2 DEF Moves, Keeps
<1>5. Persists
   BY PersistsPlain DEF Put, BundleCore
<1>6. UNCHANGED <<operation, request, row, gap, log, mapped, operator, history, overlapped, faults>>
   BY DEF Put, history
<1>7. object' = [object EXCEPT ![x.set][x.rendering] = x.answer]
   BY <1>1 DEF Put, Set, Rendering
<1>8. object \in [Sets -> [Renderings -> Answers \cup {None}]] /\ x.set \in Sets /\ x.rendering \in Renderings
      /\ x.answer \in Answers \cup {None}
   BY DEF BundleCore, BundleTyped, ArtifactsTyped, RunRecords
<1>9. /\ object' \in [Sets -> [Renderings -> Answers \cup {None}]]
      /\ object'[x.set][x.rendering] = x.answer
      /\ \A d \in Sets : \A k \in Renderings : d # x.set \/ k # x.rendering => object'[d][k] = object[d][k]
   BY <1>7, <1>8
<1>10. BundleTyped'
   <2>1. RunFits(t)'
      BY <1>1, <1>2, <1>5, MoveFits DEF MovesWell, BundleCore
   <2>2. log' \subseteq EventRecords
      BY <1>6 DEF BundleCore, BundleTyped, LogTyped
   <2>3. ArtifactsTyped'
      BY <1>6, <1>9, SameShape, TypedPlain DEF ArtifactsTyped, BundleCore
   <2>4. QED
      BY <1>1, <1>4, <1>5, <1>6, <2>1, <2>2, <2>3, RunStepTyped, TypedPlain DEF BundleCore
<1>11. AnyRun(t)
   BY <1>1, <1>4 DEF AnyRun, Done, WithAnswer, Running, InDataset
<1>12. AnyInv'
   <2>1. Grows
      BY <1>6, GrowsPlain
   <2>2. AnyRun(t)'
      BY <1>4, <1>8, <1>11, <2>1, AnyStill
   <2>3. \A q \in Requests : Answered(q)
      BY <1>6 DEF Answered
   <2>4. QED
      BY <1>4, <1>6, <2>1, <2>2, <2>3, AnyStep DEF BundleCore
<1>13. LoneInv'
   <2>1. ~overlapped => LoneRun(t)'
      BY <1>1, <1>4, <1>6, <1>9 DEF LoneRun, WithAnswer
   <2>2. ~overlapped => \A d \in Sets : \A k \in Renderings : row'[d][k] # None => object'[d][k] = row'[d][k]
      <3>1. ~overlapped => row[x.set][x.rendering] = None
         BY <1>1 DEF LoneRun, WithAnswer
      <3>2. QED
         BY <1>6, <1>9, <3>1 DEF BundleCore, LoneInv
   <2>3. QED
      BY <1>3, <1>4, <1>6, <2>1, <2>2, LoneStep DEF BundleCore
<1>14. QuietInv'
   <2>1. Undisturbed => QuietRun(t) /\ t.pc \in Running
      BY <1>1, <1>4 DEF QuietRun, WithAnswer, Running, InDataset
   <2>2. QED
      BY <1>3, <1>4, <1>5, <1>6, <2>1, QuietPlain DEF BundleCore
<1>15. QED
   BY <1>10, <1>12, <1>13, <1>14 DEF BundleCore

LEMMA ConflictStep ==
   ASSUME BundleCore, NEW m \in Messages, SaveConflict(m), UNCHANGED shape
   PROVE  BundleCore'
<1>1. PICK x \in RunRecords : x = run[m] /\ (~overlapped => LoneRun(x)) /\ x.pc = "save"
   BY CoreRun DEF SaveConflict, At
<1>2. PICK t : Forgets(m, t, "dead") /\ t.try = 0
   BY EndEffect DEF SaveConflict, BundleCore, Pcs
<1>3. m \in Busy
   BY <1>1, CoreRun DEF Running, InDataset
<1>4. Persists
   BY PersistsPlain DEF SaveConflict, BundleCore
<1>5. Becomes(m, t) /\ t.pc = "dead"
   BY <1>2 DEF Forgets
<1>6. UNCHANGED <<operation, request, artifacts, log, mapped, operator, history, overlapped>>
   BY DEF SaveConflict, history
<1>7. BundleTyped'
   <2>1. faults' \in Nat
      BY <1>4, ShapeFacts DEF Persists, BundleCore, BundleTyped
   <2>2. RunFits(t)'
      BY <1>2, <2>1, ForgetFits
   <2>3. log' \subseteq EventRecords
      BY <1>6 DEF BundleCore, BundleTyped, LogTyped
   <2>4. QED
      BY <1>1, <1>4, <1>5, <1>6, <2>2, <2>3, RunStepTyped, TypedPlain DEF BundleCore
<1>8. AnyRun(t) /\ LoneRun(t) /\ QuietRun(t)
   BY <1>5 DEF AnyRun, LoneRun, QuietRun, WithAnswer, Running, InDataset
<1>9. ~Undisturbed
   BY <1>1 DEF Undisturbed, LoneRun, WithAnswer, SaveConflict, Set, Rendering
<1>10. \A q \in Requests : Answered(q)
   BY <1>6 DEF Answered
<1>11. QED
   BY <1>3, <1>4, <1>5, <1>6, <1>7, <1>8, <1>9, <1>10, PlainStep DEF BundleCore

LEMMA FulfilStep ==
   ASSUME BundleCore, NEW m \in Messages, Fulfil(m), UNCHANGED shape
   PROVE  BundleCore'
<1>1. PICK x \in RunRecords : /\ x = run[m] /\ RunFits(x) /\ AnyRun(x) /\ (Undisturbed => QuietRun(x))
                              /\ x.pc = "fulfil"
   BY CoreRun DEF Fulfil, At
<1>2. PICK t : Advances(m, t)
   BY NextSetEffect DEF Fulfil, BundleCore
<1>3. m \in Busy /\ x.req \in Requests /\ x.req[2] = x.set
   BY <1>1, CoreRun DEF RunFits, RunRecords, WithRequest, Running, InDataset
<1>4. /\ Becomes(m, t) /\ t.pc = IF x.set = shape.sets THEN "succeed" ELSE "request"
      /\ t.set = IF x.set = shape.sets THEN x.set ELSE x.set + 1
   BY <1>1, <1>2 DEF Advances, Keeps
<1>5. Persists
   BY PersistsPlain DEF Fulfil, BundleCore
<1>6. UNCHANGED <<operation, artifacts, log, mapped, operator, history, overlapped>>
   BY DEF Fulfil, history
<1>7. /\ RequestsTyped'
      /\ \A q \in Requests : q # x.req => request'[q] = request[q]
      /\ request'[x.req].status = "fulfilled"
   BY <1>1, <1>3, SettleEffect DEF Fulfil, BundleCore
<1>8. BundleTyped'
   <2>1. RunFits(t)'
      BY <1>1, <1>2, <1>5, AdvanceFits DEF BundleCore
   <2>2. log' \subseteq EventRecords
      BY <1>6 DEF BundleCore, BundleTyped, LogTyped
   <2>3. QED
      BY <1>1, <1>4, <1>5, <1>6, <1>7, <2>1, <2>2, RunStepTyped, TypedPlain DEF BundleCore
<1>9. x.set \in 1..shape.sets /\ shape.sets \in Nat /\ Sets = 1..shape.sets
   BY ShapeFacts DEF RunRecords, BundleCore, BundleTyped
<1>10. AnyRun(t)
   <2>1. Whole(x.set) /\ \A d \in Sets : d < x.set => Whole(d) \/ d \in gap
      BY <1>1 DEF AnyRun, Done, Running, InDataset
   <2>2. \A d \in Sets : Done(t, d) => d =< x.set
      BY <1>4, <1>9 DEF Done
   <2>3. \A d \in Sets : Done(t, d) => Whole(d) \/ d \in gap
      BY <1>9, <2>1, <2>2
   <2>4. QED
      BY <1>4, <2>3 DEF AnyRun, WithAnswer
<1>11. LoneRun(t)
   BY <1>4 DEF LoneRun, WithAnswer
<1>12. Undisturbed => QuietRun(t) /\ t.pc \in Running
   <2>1. \A d \in Sets : d > t.set \/ (d = t.set /\ t.pc = "request") => d > x.set
      BY <1>4, <1>9
   <2>2. t.pc \in {"succeed", "request"}
      BY <1>4
   <2>3. QED
      BY <1>1, <2>1, <2>2 DEF QuietRun, WithAnswer, Running, InDataset
<1>13. ASSUME NEW q \in Requests
       PROVE  Answered(q)
   <2>1. Whole(x.set)
      BY <1>1 DEF AnyRun, Running, InDataset
   <2>2. QED
      BY <1>3, <1>7, <2>1 DEF Answered
<1>14. QED
   BY <1>3, <1>4, <1>5, <1>6, <1>8, <1>10, <1>11, <1>12, <1>13, PlainStep DEF BundleCore

LEMMA FinalizeStep ==
   ASSUME BundleCore, NEW m \in Messages, Finalize(m), UNCHANGED shape
   PROVE  BundleCore'
<1>1. PICK x \in RunRecords : x = run[m] /\ RunFits(x) /\ AnyRun(x) /\ x.pc = "finalize"
   BY CoreRun DEF Finalize, At
<1>2. PICK t : Forgets(m, t, "over") /\ t.try = 0
   BY EndEffect DEF Finalize, BundleCore, Pcs
<1>3. m \in Busy /\ x.op \in Operations
   BY <1>1, CoreRun DEF Running, RunFits
<1>4. Persists
   BY PersistsPlain DEF Finalize, BundleCore
<1>5. Becomes(m, t) /\ t.pc = "over"
   BY <1>2 DEF Forgets
<1>6. UNCHANGED <<request, artifacts, log, mapped, operator, history, overlapped>>
   BY DEF Finalize, history
<1>7. BundleTyped'
   <2>1. faults' \in Nat
      BY <1>4, ShapeFacts DEF Persists, BundleCore, BundleTyped
   <2>2. RunFits(t)'
      BY <1>2, <2>1, ForgetFits
   <2>3. operation' = [operation EXCEPT ![x.op] = "succeeded"]
      BY <1>1 DEF Finalize, Operation
   <2>4. OperationsTyped'
      BY <1>3, <2>3, OperationSet DEF BundleCore
   <2>5. log' \subseteq EventRecords
      BY <1>6 DEF BundleCore, BundleTyped, LogTyped
   <2>6. QED
      BY <1>1, <1>4, <1>5, <1>6, <2>2, <2>4, <2>5, RunStepTyped, TypedPlain DEF BundleCore
<1>8. AnyRun(t) /\ LoneRun(t) /\ QuietRun(t)
   BY <1>5 DEF AnyRun, LoneRun, QuietRun, WithAnswer, Running, InDataset
<1>9. Succeeded \in log
   BY <1>1 DEF AnyRun, Running
<1>10. \A q \in Requests : Answered(q)
   BY <1>6 DEF Answered
<1>11. QED
   BY <1>3, <1>4, <1>5, <1>6, <1>7, <1>8, <1>9, <1>10, PlainStep DEF BundleCore

LEMMA LostStep ==
   ASSUME BundleCore, NEW m \in Messages, WorkerLost(m), UNCHANGED shape
   PROVE  BundleCore'
<1>1. PICK x \in RunRecords : x = run[m] /\ RunFits(x) /\ x.pc \in Running
   BY CoreRun DEF WorkerLost
<1>2. PICK t : Forgets(m, t, "queued") /\ t.try = x.try + 1
   BY <1>1, RedeliverEffect DEF WorkerLost, BundleCore, RunRecords
<1>3. m \in Busy
   BY <1>1, CoreRun
<1>4. Persists /\ faults' = faults + 1 /\ faults' # 0
   BY PersistsFault DEF WorkerLost, BundleCore
<1>5. Becomes(m, t) /\ t.pc = "queued"
   BY <1>2 DEF Forgets
<1>6. UNCHANGED <<operation, request, artifacts, log, mapped, operator, history, overlapped>>
   BY DEF WorkerLost, history
<1>7. BundleTyped'
   <2>1. x.try \in Nat /\ faults \in Nat /\ x.try =< faults
      BY <1>1, ShapeFacts DEF BundleCore, BundleTyped, RunFits, RunRecords
   <2>2. RunFits(t)'
      BY <1>2, <1>4, <2>1, ForgetFits
   <2>3. log' \subseteq EventRecords
      BY <1>6 DEF BundleCore, BundleTyped, LogTyped
   <2>4. x.pc # "none"
      BY <1>1 DEF Running, InDataset
   <2>5. QED
      BY <1>1, <1>4, <1>5, <1>6, <2>2, <2>3, <2>4, RunStepTyped, TypedPlain DEF BundleCore
<1>8. AnyRun(t) /\ LoneRun(t)
   BY <1>5 DEF AnyRun, LoneRun, WithAnswer, Running, InDataset
<1>9. \A q \in Requests : Answered(q)
   BY <1>6 DEF Answered
<1>10. QED
   BY <1>3, <1>4, <1>5, <1>6, <1>7, <1>8, <1>9, PlainStep DEF BundleCore

\* The events of a dataset's rendering after another event.
LEMMA HashesWith ==
   ASSUME NEW e, log' = log \cup {e}, NEW d, NEW k
   PROVE  /\ e.kind = "hashed" /\ e.set = d /\ e.rendering = k => Hashes(d, k)' = Hashes(d, k) \cup {e}
          /\ ~(e.kind = "hashed" /\ e.set = d /\ e.rendering = k) => Hashes(d, k)' = Hashes(d, k)
BY DEF Hashes

LEMMA EventKinds ==
   /\ Succeeded.kind = "succeeded" /\ Failed.kind = "failed"
   /\ \A d : Unavailable(d).kind = "unavailable"
   /\ \A d, k, a : Event("hashed", d, k, a).kind = "hashed" /\ Event("hashed", d, k, a).set = d
                      /\ Event("hashed", d, k, a).rendering = k
BY DEF Succeeded, Failed, Unavailable, Event

LEMMA AnnounceStep ==
   ASSUME BundleCore, NEW m \in Messages, Announce(m), UNCHANGED shape
   PROVE  BundleCore'
<1>1. PICK x \in RunRecords : /\ x = run[m] /\ RunFits(x) /\ AnyRun(x) /\ (Undisturbed => QuietRun(x))
                              /\ (~overlapped => LoneRun(x)) /\ x.pc = "announce"
   BY CoreRun DEF Announce, At
<1>2. PICK t : Moves(m, t, "save")
   BY GotoEffect DEF Announce, BundleCore, Pcs, Running, InDataset
<1>3. m \in Busy
   BY <1>1, CoreRun DEF Running, InDataset
<1>4. Becomes(m, t) /\ t.pc = "save" /\ t.set = x.set /\ t.rendering = x.rendering /\ t.answer = x.answer
   BY <1>1, <1>2 DEF Moves, Keeps
<1>5. Persists
   BY PersistsPlain DEF Announce, BundleCore
<1>6. UNCHANGED <<operation, request, artifacts, row, object, gap, mapped, operator, history, overlapped, faults>>
   BY DEF Announce, history, artifacts
<1> DEFINE e == Event("hashed", x.set, x.rendering, x.answer)
<1>7. e \in EventRecords /\ e.kind = "hashed" /\ e.set = x.set /\ e.rendering = x.rendering
   BY <1>1, RunEvents, EventKinds DEF Set, Rendering, BundleCore
<1>8. log' = IF Hashes(x.set, x.rendering) # {} THEN log ELSE log \cup {e}
   BY <1>1 DEF Announce, Set, Rendering
<1> HIDE DEF e
<1>9. log \subseteq log' /\ (Succeeded \in log' => Succeeded \in log)
   BY <1>7, <1>8, EventKinds
<1>10. BundleTyped'
   <2>1. RunFits(t)'
      BY <1>1, <1>2, <1>5, MoveFits DEF MovesWell, BundleCore
   <2>2. log' \subseteq EventRecords
      BY <1>7, <1>8 DEF BundleCore, BundleTyped, LogTyped
   <2>3. QED
      BY <1>1, <1>4, <1>5, <1>6, <2>1, <2>2, RunStepTyped, TypedPlain DEF BundleCore
<1>11. AnyRun(t) /\ (~overlapped => LoneRun(t))
   BY <1>1, <1>4 DEF AnyRun, LoneRun, Done, WithAnswer, Running, InDataset
<1>12. AnyInv'
   <2>1. Grows
      BY <1>6, <1>9, GrowsPlain DEF Persists
   <2>2. AnyRun(t)'
      BY <1>4, <1>11, <2>1, AnyStill DEF RunRecords
   <2>3. \A q \in Requests : Answered(q)
      BY <1>6 DEF Answered
   <2>4. QED
      BY <1>4, <1>9, <2>1, <2>2, <2>3, AnyStep DEF BundleCore
<1>13. LoneInv'
   BY <1>3, <1>4, <1>6, <1>11, LonePlain DEF BundleCore
<1>14. QuietInv'
   <2>1. Undisturbed' => Undisturbed
      BY <1>5, <1>6, UndisturbedStill DEF BundleCore
   <2>2. Renderings' = Renderings /\ Sets' = Sets /\ x.set \in Sets /\ x.rendering \in Renderings
      BY SameShape DEF RunRecords
   <2>3. ASSUME Undisturbed
         PROVE  /\ Hashes(x.set, x.rendering)' = {e} /\ log' = log \cup {e} /\ row[x.set][x.rendering] = None
                /\ \A d, k : d # x.set \/ k # x.rendering => Hashes(d, k)' = Hashes(d, k)
      <3>1. Hashes(x.set, x.rendering) = {} /\ row[x.set][x.rendering] = None
         BY <1>1, <2>3 DEF QuietRun, LoneRun, WithAnswer, Running, InDataset, Undisturbed
      <3>2. log' = log \cup {e}
         BY <1>8, <3>1
      <3>3. QED
         BY <1>7, <3>1, <3>2, HashesWith
   <2>4. ASSUME Undisturbed
         PROVE  \A d \in Sets : \A k \in Renderings : d # x.set \/ k # x.rendering => (Blank(d, k)' <=> Blank(d, k))
      BY <1>6, <2>3, <2>4 DEF Blank
   <2>5. ASSUME Undisturbed
         PROVE  QuietRun(t)'
      <3>1. x.set \in Nat /\ x.rendering \in Nat
         BY ShapeFacts DEF RunRecords, BundleCore, BundleTyped
      <3>2. /\ Succeeded \notin log'
            /\ \A d \in Sets : \A k \in Renderings :
                  d > x.set \/ (d = x.set /\ k > x.rendering) => Blank(d, k)
            /\ \A k \in Renderings : k < x.rendering => row[x.set][k] = x.answer
         BY <1>1, <1>9, <2>5 DEF QuietRun, WithAnswer, Running, InDataset
      <3>3. \A d \in Sets : \A k \in Renderings :
                  d > x.set \/ (d = x.set /\ k > x.rendering) => Blank(d, k)'
         BY <2>4, <2>5, <3>1, <3>2
      <3>4. Hashes(x.set, x.rendering)' = {Event("hashed", x.set, x.rendering, x.answer)}
         BY <2>3, <2>5 DEF e
      <3>5. QED
         BY <1>4, <1>6, <2>2, <3>2, <3>3, <3>4 DEF QuietRun, WithAnswer, Running, InDataset, Succeeded, Event
   <2>6. ASSUME Undisturbed, NEW d \in Sets
         PROVE  Unavailable(d) \in log' \/ InOnePiece(d)'
      <3>1. Unavailable(d) \in log \/ InOnePiece(d)
         BY <2>6 DEF BundleCore, QuietInv
      <3>2. InOnePiece(d) => InOnePiece(d)'
         BY <1>6, <2>2, <2>3, <2>6 DEF InOnePiece, Event
      <3>3. QED
         BY <1>9, <3>1, <3>2
   <2>7. t.pc \in Running
      BY <1>4 DEF Running, InDataset
   <2>8. QED
      BY <1>3, <1>4, <1>6, <2>1, <2>5, <2>6, <2>7, QuietStep DEF BundleCore
<1>15. QED
   BY <1>10, <1>12, <1>13, <1>14 DEF BundleCore

LEMMA SaveStep ==
   ASSUME BundleCore, NEW m \in Messages, SaveArtifact(m), UNCHANGED shape
   PROVE  BundleCore'
<1>1. PICK x \in RunRecords : /\ x = run[m] /\ RunFits(x) /\ AnyRun(x) /\ (Undisturbed => QuietRun(x))
                              /\ (~overlapped => LoneRun(x)) /\ x.pc = "save"
   BY CoreRun DEF SaveArtifact, At
<1>2. /\ x.answer \in Answers /\ x.set \in Sets /\ x.rendering \in Renderings /\ x.rendering \in Nat
      /\ x.rendering + 1 \in Nat /\ Renderings \subseteq Nat /\ x.set \in Nat
   BY <1>1, ShapeFacts DEF RunFits, WithAnswer, RunRecords, BundleCore, BundleTyped
<1>3. /\ row[x.set][x.rendering] = None
      /\ row' = [row EXCEPT ![x.set][x.rendering] = x.answer]
      /\ Render(m, x.rendering + 1, x.answer)
   BY <1>1 DEF SaveArtifact, Set, Rendering
<1>4. PICK t : Renders(m, t, x.rendering + 1, x.answer)
   BY <1>2, <1>3, RenderEffect DEF BundleCore
<1>5. m \in Busy
   BY <1>1, CoreRun DEF Running, InDataset
<1>6. /\ Becomes(m, t) /\ t.set = x.set /\ t.rendering \in Renderings
      /\ \/ t.pc = "fulfil" /\ \A j \in Renderings : j > x.rendering => row[x.set][j] # None
         \/ /\ t.pc = "put" /\ t.answer = x.answer /\ t.rendering > x.rendering /\ row[x.set][t.rendering] = None
            /\ \A j \in Renderings : j > x.rendering /\ j < t.rendering => row[x.set][j] # None
   <2>1. Becomes(m, t) /\ t.set = x.set
      BY <1>1, <1>4 DEF Renders, Keeps
   <2>2. t.rendering \in Renderings
      BY <2>1 DEF Becomes, RunRecords
   <2>3. \A j \in Renderings : j >= x.rendering + 1 <=> j > x.rendering
      BY <1>2
   <2>4. \/ t.pc = "fulfil" /\ \A j \in Renderings : j >= x.rendering + 1 => row[t.set][j] # None
         \/ /\ t.pc = "put" /\ t.answer = x.answer /\ t.rendering >= x.rendering + 1
            /\ row[t.set][t.rendering] = None
            /\ \A j \in Renderings : j >= x.rendering + 1 /\ j < t.rendering => row[t.set][j] # None
      BY <1>4 DEF Renders
   <2>5. QED
      BY <2>1, <2>2, <2>3, <2>4
<1>7. Persists
   BY PersistsPlain DEF SaveArtifact, BundleCore
<1>8. UNCHANGED <<operation, request, object, gap, log, mapped, operator, history, overlapped, faults>>
   BY DEF SaveArtifact, history
<1>9. /\ row' \in [Sets -> [Renderings -> Answers \cup {None}]]
      /\ row'[x.set][x.rendering] = x.answer
      /\ \A d \in Sets : \A k \in Renderings : d # x.set \/ k # x.rendering => row'[d][k] = row[d][k]
   <2>1. row \in [Sets -> [Renderings -> Answers \cup {None}]]
      BY DEF BundleCore, BundleTyped, ArtifactsTyped
   <2>2. QED
      BY <1>2, <1>3, <2>1
<1>10. x.answer # None
   BY <1>2, BundleNames
<1>11. Renderings' = Renderings /\ Sets' = Sets
   BY SameShape
<1>12. BundleTyped'
   <2>1. RunFits(t)'
      BY <1>1, <1>2, <1>4, <1>7, RenderFits DEF BundleCore
   <2>2. log' \subseteq EventRecords
      BY <1>8 DEF BundleCore, BundleTyped, LogTyped
   <2>3. ArtifactsTyped'
      BY <1>8, <1>9, <1>11, TypedPlain DEF ArtifactsTyped, BundleCore
   <2>4. QED
      BY <1>1, <1>6, <1>7, <1>8, <2>1, <2>2, <2>3, RunStepTyped, TypedPlain DEF BundleCore
<1>13. Grows
   BY <1>3, <1>8, <1>9 DEF Grows
<1>14. AnyInv'
   <2>1. \A j \in Renderings : j < x.rendering => row[x.set][j] # None
      BY <1>1 DEF AnyRun, WithAnswer, Running, InDataset
   <2>2. t.pc = "fulfil" => Whole(x.set)'
      BY <1>2, <1>6, <1>9, <1>10, <1>11, <2>1 DEF Whole
   <2>3. ASSUME t.pc = "put", NEW j \in Renderings, j < t.rendering
         PROVE  row'[x.set][j] # None
      <3>1. CASE j = x.rendering
         BY <1>9, <1>10, <3>1
      <3>2. CASE j # x.rendering
         <4>1. row'[x.set][j] = row[x.set][j]
            BY <1>2, <1>9, <3>2
         <4>2. j < x.rendering \/ j > x.rendering
            BY <1>2, <3>2
         <4>3. QED
            BY <1>6, <2>1, <2>3, <4>1, <4>2
      <3>3. QED
         BY <3>1, <3>2
   <2>4. \A d \in Sets : d < x.set => Whole(d)' \/ d \in gap'
      BY <1>1, <1>13, WholeStill DEF AnyRun, Done, Running, InDataset, Grows
   <2>5. AnyRun(t)'
      BY <1>6, <1>11, <2>2, <2>3, <2>4 DEF AnyRun, Done, WithAnswer, Running, InDataset
   <2>6. \A q \in Requests : Answered(q)
      BY <1>8 DEF Answered
   <2>7. QED
      BY <1>6, <1>8, <1>13, <2>5, <2>6, AnyStep DEF BundleCore
<1>15. LoneInv'
   <2>1. LoneRun(t)'
      BY <1>2, <1>6, <1>9 DEF LoneRun, WithAnswer
   <2>2. ~overlapped => \A d \in Sets : \A k \in Renderings : row'[d][k] # None => object'[d][k] = row'[d][k]
      <3>1. ~overlapped => object[x.set][x.rendering] = x.answer
         BY <1>1 DEF LoneRun, WithAnswer
      <3>2. QED
         BY <1>8, <1>9, <3>1 DEF BundleCore, LoneInv
   <2>3. QED
      BY <1>5, <1>6, <1>8, <2>1, <2>2, LoneStep DEF BundleCore
<1>16. QuietInv'
   <2>1. Undisturbed' => Undisturbed
      BY <1>8 DEF Undisturbed
   <2>2. \A d, k : Hashes(d, k)' = Hashes(d, k)
      BY <1>8 DEF Hashes
   <2>3. ASSUME Undisturbed
         PROVE  /\ Succeeded \notin log
                /\ \A d \in Sets : \A k \in Renderings : d > x.set \/ (d = x.set /\ k > x.rendering) => Blank(d, k)
                /\ \A k \in Renderings : k < x.rendering => row[x.set][k] = x.answer
                /\ Hashes(x.set, x.rendering) = {Event("hashed", x.set, x.rendering, x.answer)}
      BY <1>1, <2>3 DEF QuietRun, WithAnswer, Running, InDataset
   <2>4. ASSUME Undisturbed
         PROVE  QuietRun(t)'
      <3>1. \A d \in Sets : \A k \in Renderings : d > x.set \/ (d = x.set /\ k > x.rendering) => Blank(d, k)'
         BY <1>2, <1>9, <2>2, <2>3, <2>4 DEF Blank
      <3>2. ASSUME t.pc = "put"
            PROVE  /\ \A k \in Renderings : k < t.rendering => row'[x.set][k] = x.answer
                   /\ Hashes(x.set, t.rendering)' = {}
                   /\ \A k \in Renderings : k > t.rendering => k > x.rendering
         <4>1. t.rendering > x.rendering /\ t.rendering \in Nat /\ t.rendering \in Renderings
            BY <1>2, <1>6, <3>2
         <4>2. Hashes(x.set, t.rendering)' = {}
            BY <1>2, <2>2, <2>3, <2>4, <4>1 DEF Blank
         <4>3. \A k \in Renderings : k > t.rendering => k > x.rendering
            BY <1>2, <4>1
         <4>4. ASSUME NEW k \in Renderings, k < t.rendering
               PROVE  row'[x.set][k] = x.answer
            <5>1. ~(k > x.rendering)
               BY <1>2, <1>6, <2>3, <2>4, <3>2, <4>4 DEF Blank
            <5>2. CASE k = x.rendering
               BY <1>9, <5>2
            <5>3. CASE k # x.rendering
               <6>1. k < x.rendering
                  BY <1>2, <5>1, <5>3
               <6>2. row'[x.set][k] = row[x.set][k]
                  BY <1>2, <1>9, <5>3
               <6>3. QED
                  BY <2>3, <2>4, <6>1, <6>2
            <5>4. QED
               BY <5>2, <5>3
         <4>5. QED
            BY <4>2, <4>3, <4>4
      <3>3. t.pc = "put" => \A k \in Renderings : k > t.rendering => k > x.rendering
         BY <3>2
      <3>4. QED
         BY <1>6, <1>8, <1>11, <2>3, <2>4, <3>1, <3>2, <3>3 DEF QuietRun, WithAnswer, Running, InDataset, Succeeded, Event
   <2>5. ASSUME Undisturbed, NEW d \in Sets
         PROVE  Unavailable(d) \in log' \/ InOnePiece(d)'
      <3>1. Unavailable(d) \in log \/ InOnePiece(d)
         BY <2>5 DEF BundleCore, QuietInv
      <3>2. CASE d # x.set
         BY <1>8, <1>9, <1>11, <2>2, <3>1, <3>2 DEF InOnePiece, Event
      <3>3. ASSUME d = x.set, InOnePiece(d)
            PROVE  InOnePiece(d)'
         <4>1. ASSUME NEW k \in Renderings, row'[d][k] # None
               PROVE  /\ Hashes(d, k)' = {Event("hashed", d, k, row'[d][k])}
                      /\ row'[d][k] = x.answer
            <5>1. k =< x.rendering
               BY <1>2, <1>9, <2>3, <2>5, <3>3, <4>1 DEF Blank
            <5>2. CASE k = x.rendering
               BY <1>9, <2>2, <2>3, <2>5, <3>3, <5>2
            <5>3. CASE k < x.rendering
               <6>1. row'[d][k] = row[d][k] /\ row[d][k] = x.answer
                  BY <1>2, <1>9, <2>3, <2>5, <3>3, <5>3
               <6>2. Hashes(d, k) = {Event("hashed", d, k, row[d][k])}
                  BY <1>10, <3>3, <6>1 DEF InOnePiece
               <6>3. QED
                  BY <2>2, <6>1, <6>2
            <5>4. QED
               BY <1>2, <5>1, <5>2, <5>3
         <4>2. QED
            BY <1>11, <4>1 DEF InOnePiece, Event
      <3>4. QED
         BY <1>8, <3>1, <3>2, <3>3
   <2>6. t.pc \in Running
      BY <1>6 DEF Running, InDataset
   <2>7. QED
      BY <1>5, <1>6, <1>8, <2>1, <2>4, <2>5, <2>6, QuietStep DEF BundleCore
<1>17. QED
   BY <1>12, <1>14, <1>15, <1>16 DEF BundleCore

LEMMA EmitStep ==
   ASSUME BundleCore, NEW m \in Messages, EmitUnavailable(m), UNCHANGED shape
   PROVE  BundleCore'
<1>1. PICK x \in RunRecords : /\ x = run[m] /\ RunFits(x) /\ AnyRun(x) /\ (Undisturbed => QuietRun(x))
                              /\ x.pc = "fail"
   BY CoreRun DEF EmitUnavailable, At
<1>2. PICK t : Moves(m, t, "document")
   BY GotoEffect DEF EmitUnavailable, BundleCore, Pcs, Running
<1>3. m \in Busy
   BY <1>1, CoreRun DEF Running
<1>4. Becomes(m, t) /\ t.pc = "document" /\ t.set = x.set
   BY <1>1, <1>2 DEF Moves, Keeps
<1>5. Persists
   BY PersistsPlain DEF EmitUnavailable, BundleCore
<1>6. UNCHANGED <<operation, request, artifacts, row, object, gap, mapped, operator, history, overlapped, faults>>
   BY DEF EmitUnavailable, history, artifacts
<1>7. Unavailable(x.set) \in EventRecords /\ log' = log \cup {Unavailable(x.set)}
   BY <1>1, RunEvents DEF EmitUnavailable, Set, BundleCore
<1>8. log \subseteq log' /\ (Succeeded \in log' => Succeeded \in log) /\ x.set \in Sets
   BY <1>7, EventKinds DEF RunRecords
<1>9. BundleTyped'
   <2>1. RunFits(t)'
      BY <1>1, <1>2, <1>5, MoveFits DEF MovesWell, BundleCore
   <2>2. log' \subseteq EventRecords
      BY <1>7 DEF BundleCore, BundleTyped, LogTyped
   <2>3. QED
      BY <1>1, <1>4, <1>5, <1>6, <2>1, <2>2, RunStepTyped, TypedPlain DEF BundleCore
<1>10. Renderings' = Renderings /\ Sets' = Sets
   BY SameShape
<1>11. AnyInv'
   <2>1. Grows
      BY <1>6, <1>8, GrowsPlain DEF Persists
   <2>2. \A d \in Sets : d < x.set => Whole(d)' \/ d \in gap'
      BY <1>1, <2>1, WholeStill DEF AnyRun, Done, Running, Grows
   <2>3. Unavailable(x.set)' = Unavailable(x.set)
      BY DEF Unavailable, Event
   <2>4. AnyRun(t)'
      BY <1>4, <1>7, <1>10, <2>2, <2>3 DEF AnyRun, Done, WithAnswer
   <2>5. \A q \in Requests : Answered(q)
      BY <1>6 DEF Answered
   <2>6. QED
      BY <1>4, <1>8, <2>1, <2>4, <2>5, AnyStep DEF BundleCore
<1>12. LoneInv'
   <2>1. LoneRun(t)
      BY <1>4 DEF LoneRun, WithAnswer
   <2>2. QED
      BY <1>3, <1>4, <1>6, <2>1, LonePlain DEF BundleCore
<1>13. QuietInv'
   <2>1. Undisturbed' => Undisturbed
      BY <1>5, <1>6, UndisturbedStill DEF BundleCore
   <2>2. \A d, k : Hashes(d, k)' = Hashes(d, k)
      BY <1>7, EventKinds, HashesWith
   <2>3. \A d, k : Blank(d, k)' <=> Blank(d, k)
      BY <1>6, <2>2 DEF Blank
   <2>4. \A d : InOnePiece(d)' <=> InOnePiece(d)
      BY <1>6, <1>10, <2>2 DEF InOnePiece, Event
   <2>5. Undisturbed => QuietRun(t)'
      BY <1>1, <1>4, <1>8, <1>10, <2>3 DEF QuietRun, WithAnswer, Running, Succeeded, Event
   <2>6. Undisturbed => \A d \in Sets : Unavailable(d) \in log' \/ InOnePiece(d)'
      BY <1>8, <2>4 DEF BundleCore, QuietInv
   <2>7. t.pc \in Running
      BY <1>4 DEF Running
   <2>8. QED
      BY <1>3, <1>4, <1>6, <2>1, <2>5, <2>6, <2>7, QuietStep DEF BundleCore
<1>14. QED
   BY <1>9, <1>11, <1>12, <1>13 DEF BundleCore

LEMMA GapStep ==
   ASSUME BundleCore, NEW m \in Messages, DocumentGap(m), UNCHANGED shape
   PROVE  BundleCore'
<1>1. PICK x \in RunRecords : /\ x = run[m] /\ RunFits(x) /\ AnyRun(x) /\ (Undisturbed => QuietRun(x))
                              /\ x.pc = "document"
   BY CoreRun DEF DocumentGap, At
<1>2. PICK t : Advances(m, t)
   BY NextSetEffect DEF DocumentGap, BundleCore
<1>3. m \in Busy /\ (x.req # NoReq => x.req \in Requests /\ x.req[2] = x.set)
   BY <1>1, CoreRun DEF RunFits, RunRecords, WithRequest, Running
<1>4. /\ Becomes(m, t) /\ t.pc = IF x.set = shape.sets THEN "succeed" ELSE "request"
      /\ t.set = IF x.set = shape.sets THEN x.set ELSE x.set + 1
   BY <1>1, <1>2 DEF Advances, Keeps
<1>5. Persists
   BY PersistsPlain DEF DocumentGap, BundleCore
<1>6. UNCHANGED <<operation, row, object, log, mapped, operator, history, overlapped, faults>>
      /\ gap' = gap \cup {x.set}
   BY <1>1 DEF DocumentGap, Set, history
<1>7. /\ RequestsTyped'
      /\ \A q \in Requests : request'[q] = request[q] \/ (request'[q].status = "failed" /\ q[2] = x.set)
   <2>1. IF x.req = NoReq THEN UNCHANGED request ELSE Settle(m, "failed")
      BY <1>1, UnpublishedFacts DEF DocumentGap, BundleCore, BundleTyped
   <2>2. CASE x.req = NoReq
      BY <2>1, <2>2, TypedPlain DEF BundleCore
   <2>3. CASE x.req # NoReq
      BY <1>1, <1>3, <2>1, <2>3, SettleEffect DEF BundleCore
   <2>4. QED
      BY <2>2, <2>3
<1>8. x.set \in 1..shape.sets /\ shape.sets \in Nat /\ Sets = 1..shape.sets
   BY ShapeFacts DEF RunRecords, BundleCore, BundleTyped
<1>9. Renderings' = Renderings /\ Sets' = Sets
   BY SameShape
<1>10. BundleTyped'
   <2>1. RunFits(t)'
      BY <1>1, <1>2, <1>5, AdvanceFits DEF BundleCore
   <2>2. log' \subseteq EventRecords
      BY <1>6 DEF BundleCore, BundleTyped, LogTyped
   <2>3. gap' \subseteq Sets'
      BY <1>6, <1>8, <1>9 DEF BundleCore, BundleTyped, ArtifactsTyped
   <2>4. ArtifactsTyped'
      BY <1>6, <2>3, TypedPlain DEF ArtifactsTyped, BundleCore
   <2>5. QED
      BY <1>1, <1>4, <1>5, <1>6, <1>7, <2>1, <2>2, <2>4, RunStepTyped, TypedPlain DEF BundleCore
<1>11. Grows
   BY <1>6 DEF Grows
<1>12. AnyInv'
   <2>1. \A d \in Sets : d < x.set => Whole(d)' \/ d \in gap'
      BY <1>1, <1>11, WholeStill DEF AnyRun, Done, Running, Grows
   <2>2. \A d \in Sets : Done(t, d) => d =< x.set
      BY <1>4, <1>8 DEF Done
   <2>3. \A d \in Sets : Done(t, d) => Whole(d)' \/ d \in gap'
      BY <1>6, <1>8, <2>1, <2>2
   <2>4. AnyRun(t)'
      BY <1>4, <1>9, <2>3 DEF AnyRun, Done, WithAnswer
   <2>5. ASSUME NEW q \in Requests
         PROVE  Answered(q)
      <3>1. Unavailable(x.set) \in log
         BY <1>1 DEF AnyRun, Running
      <3>2. QED
         BY <1>3, <1>7, <3>1 DEF Answered
   <2>6. QED
      BY <1>4, <1>6, <1>11, <2>4, <2>5, AnyStep DEF BundleCore
<1>13. LoneInv'
   <2>1. LoneRun(t)
      BY <1>4 DEF LoneRun, WithAnswer
   <2>2. QED
      BY <1>3, <1>4, <1>6, <2>1, LonePlain DEF BundleCore
<1>14. QuietInv'
   <2>1. \A d \in Sets : d > t.set \/ (d = t.set /\ t.pc = "request") => d > x.set
      BY <1>4, <1>8
   <2>2. t.pc \in {"succeed", "request"}
      BY <1>4
   <2>3. Undisturbed => QuietRun(t) /\ t.pc \in Running
      BY <1>1, <2>1, <2>2 DEF QuietRun, WithAnswer, Running
   <2>4. QED
      BY <1>3, <1>4, <1>5, <1>6, <2>3, QuietPlain DEF BundleCore
<1>15. QED
   BY <1>10, <1>12, <1>13, <1>14 DEF BundleCore

LEMMA SucceedStep ==
   ASSUME BundleCore, NEW m \in Messages, Succeed(m), UNCHANGED shape
   PROVE  BundleCore'
<1>1. PICK x \in RunRecords : /\ x = run[m] /\ RunFits(x) /\ AnyRun(x) /\ (Undisturbed => QuietRun(x))
                              /\ x.pc = "succeed"
   BY CoreRun DEF Succeed, At
<1>2. PICK t : Moves(m, t, "finalize")
   BY GotoEffect DEF Succeed, BundleCore, Pcs, Running
<1>3. m \in Busy
   BY <1>1, CoreRun DEF Running
<1>4. Becomes(m, t) /\ t.pc = "finalize" /\ t.set = x.set
   BY <1>1, <1>2 DEF Moves, Keeps
<1>5. Persists
   BY PersistsPlain DEF Succeed, BundleCore
<1>6. UNCHANGED <<operation, request, artifacts, row, object, gap, mapped, operator, history, overlapped, faults>>
   BY DEF Succeed, history, artifacts
<1>7. Succeeded \in EventRecords /\ log' = log \cup {Succeeded}
   BY RunEvents DEF Succeed, BundleCore
<1>8. BundleTyped'
   <2>1. RunFits(t)'
      BY <1>1, <1>2, <1>5, MoveFits DEF MovesWell, BundleCore
   <2>2. log' \subseteq EventRecords
      BY <1>7 DEF BundleCore, BundleTyped, LogTyped
   <2>3. QED
      BY <1>1, <1>4, <1>5, <1>6, <2>1, <2>2, RunStepTyped, TypedPlain DEF BundleCore
<1>9. Renderings' = Renderings /\ Sets' = Sets /\ Succeeded' = Succeeded
   BY SameShape DEF Succeeded, Event
<1>10. \A d \in Sets : Whole(d) \/ d \in gap
   BY <1>1 DEF AnyRun, Done, Running
<1>11. AnyInv'
   <2>1. Grows
      BY <1>6, <1>7, GrowsPlain DEF Persists
   <2>2. \A d \in Sets : Whole(d)' \/ d \in gap'
      BY <1>10, <2>1, WholeStill DEF Grows
   <2>3. AnyRun(t)'
      BY <1>4, <1>7, <1>9, <2>2 DEF AnyRun, WithAnswer
   <2>4. \A q \in Requests : Answered(q)
      BY <1>6 DEF Answered
   <2>5. QED
      BY <1>4, <1>10, <2>1, <2>3, <2>4, AnyStep DEF BundleCore
<1>12. LoneInv'
   <2>1. LoneRun(t)
      BY <1>4 DEF LoneRun, WithAnswer
   <2>2. QED
      BY <1>3, <1>4, <1>6, <2>1, LonePlain DEF BundleCore
<1>13. QuietInv'
   <2>1. Undisturbed' => Undisturbed
      BY <1>5, <1>6, UndisturbedStill DEF BundleCore
   <2>2. \A d, k : Hashes(d, k)' = Hashes(d, k)
      BY <1>7, EventKinds, HashesWith
   <2>3. \A d, k : Blank(d, k)' <=> Blank(d, k)
      BY <1>6, <2>2 DEF Blank
   <2>4. \A d : InOnePiece(d)' <=> InOnePiece(d)
      BY <1>6, <1>9, <2>2 DEF InOnePiece, Event
   <2>5. Undisturbed => QuietRun(t)'
      BY <1>1, <1>4, <1>9, <2>3 DEF QuietRun, WithAnswer, Running
   <2>6. Undisturbed => \A d \in Sets : Unavailable(d) \in log' \/ InOnePiece(d)'
      BY <1>7, <2>4 DEF BundleCore, QuietInv
   <2>7. t.pc \in Running
      BY <1>4 DEF Running
   <2>8. QED
      BY <1>3, <1>4, <1>6, <2>1, <2>5, <2>6, <2>7, QuietStep DEF BundleCore
<1>14. QED
   BY <1>8, <1>11, <1>12, <1>13 DEF BundleCore

LEMMA RaiseStep ==
   ASSUME BundleCore, NEW m \in Messages, RunRaises(m), UNCHANGED shape
   PROVE  BundleCore'
<1>1. PICK x \in RunRecords : /\ x = run[m] /\ RunFits(x) /\ x.pc \in Running
   BY CoreRun DEF RunRaises
<1>2. PICK t : \E pc \in {"dead", "queued"} : Forgets(m, t, pc) /\ t.try \in {0, x.try + 1}
   <2>1. CASE End(m, "dead")
      BY <2>1, EndEffect DEF BundleCore, Pcs
   <2>2. CASE run[m].retries < MaxRetries /\ Redeliver(m, run[m].retries + 1)
      <3>1. run[m].retries + 1 \in 0..MaxRetries
         BY <1>1, <2>2, BundleNames DEF RunRecords
      <3>2. QED
         BY <1>1, <2>2, <3>1, RedeliverEffect DEF BundleCore
   <2>3. QED
      BY <2>1, <2>2 DEF RunRaises
<1>3. m \in Busy
   BY <1>1, CoreRun
<1>4. Persists /\ faults' = faults + 1 /\ faults' # 0
   BY PersistsFault DEF RunRaises, BundleCore
<1>5. Becomes(m, t) /\ t.pc \in {"dead", "queued"}
   BY <1>2 DEF Forgets
<1>6. UNCHANGED <<request, artifacts, row, object, gap, mapped, operator, history, overlapped>>
   BY DEF RunRaises, history, artifacts
<1>7. Failed \in EventRecords /\ log' = log \cup {Failed}
   BY RunEvents DEF RunRaises, BundleCore
<1>8. Succeeded \in log' => Succeeded \in log
   BY <1>7, EventKinds
<1>9. BundleTyped'
   <2>1. x.try \in Nat /\ faults \in Nat /\ x.try =< faults
      BY <1>1, ShapeFacts DEF BundleCore, BundleTyped, RunFits, RunRecords
   <2>2. RunFits(t)'
      BY <1>2, <1>4, <2>1, ForgetFits
   <2>3. log' \subseteq EventRecords
      BY <1>7 DEF BundleCore, BundleTyped, LogTyped
   <2>4. OperationsTyped'
      <3>1. CASE x.op = NoOperation
         BY <1>1, <3>1, TypedPlain DEF RunRaises, Operation, BundleCore
      <3>2. CASE x.op # NoOperation
         <4>1. x.op \in Operations /\ operation' = [operation EXCEPT ![x.op] = "failed"]
            BY <1>1, <3>2 DEF RunRaises, Operation, RunRecords
         <4>2. QED
            BY <4>1, OperationSet DEF BundleCore
      <3>3. QED
         BY <3>1, <3>2
   <2>5. x.pc # "none"
      BY <1>1 DEF Running, InDataset
   <2>6. QED
      BY <1>1, <1>4, <1>5, <1>6, <2>2, <2>3, <2>4, <2>5, RunStepTyped, TypedPlain DEF BundleCore
<1>10. AnyInv'
   <2>1. Grows
      BY <1>6, <1>7, GrowsPlain DEF Persists
   <2>2. AnyRun(t)'
      BY <1>5 DEF AnyRun, Running, InDataset
   <2>3. \A q \in Requests : Answered(q)
      BY <1>6 DEF Answered
   <2>4. QED
      BY <1>5, <1>8, <2>1, <2>2, <2>3, AnyStep DEF BundleCore
<1>11. LoneInv'
   <2>1. LoneRun(t)
      BY <1>5 DEF LoneRun, WithAnswer
   <2>2. QED
      BY <1>3, <1>5, <1>6, <2>1, LonePlain DEF BundleCore
<1>12. QuietInv'
   BY <1>4 DEF QuietInv, Undisturbed
<1>13. QED
   BY <1>9, <1>10, <1>11, <1>12 DEF BundleCore
-----------------------------------------------------------------------------
(* The operator's retry and the office.                                    *)

Recorded == <<shape, row, object, gap, log, mapped, overlapped, skipped, faults>>

LEMMA RecordedStill ==
   ASSUME BundleCore, UNCHANGED Recorded
   PROVE  /\ Persists /\ Grows /\ ArtifactsTyped' /\ LogTyped'
          /\ Sets' = Sets /\ Renderings' = Renderings /\ Requests' = Requests /\ Operations' = Operations
          /\ Undisturbed' <=> Undisturbed
          /\ AllBlank' <=> AllBlank
          /\ Succeeded' = Succeeded
          /\ \A d : InOnePiece(d)' <=> InOnePiece(d)
          /\ \A d : Unavailable(d)' = Unavailable(d)
          /\ \A x : LoneRun(x)' <=> LoneRun(x)
          /\ \A x : QuietRun(x)' <=> QuietRun(x)
<1>1. UNCHANGED <<shape, row, object, gap, log, mapped, overlapped, skipped, faults, artifacts, history>>
   BY DEF Recorded, artifacts, history
<1>2. Persists /\ Grows
   BY <1>1, PersistsPlain, GrowsPlain DEF BundleCore
<1>3. ArtifactsTyped' /\ LogTyped'
   BY <1>1, TypedPlain DEF BundleCore, BundleTyped, LogTyped
<1>4. Sets' = Sets /\ Renderings' = Renderings /\ Requests' = Requests /\ Operations' = Operations
   BY <1>1, SameShape
<1>5. Undisturbed' <=> Undisturbed
   BY <1>1 DEF Undisturbed
<1>6. \A d, k : Hashes(d, k)' = Hashes(d, k) /\ (Blank(d, k)' <=> Blank(d, k))
   BY <1>1 DEF Hashes, Blank
<1>7. AllBlank' <=> AllBlank
   BY <1>4, <1>6 DEF AllBlank
<1>8. \A d : InOnePiece(d)' <=> InOnePiece(d)
   BY <1>1, <1>4, <1>6 DEF InOnePiece, Event
<1>9. Succeeded' = Succeeded /\ \A d : Unavailable(d)' = Unavailable(d)
   BY DEF Succeeded, Unavailable, Event
<1>10. \A x : LoneRun(x)' <=> LoneRun(x)
   BY <1>1 DEF LoneRun
<1>11. \A x : QuietRun(x)' <=> QuietRun(x)
   BY <1>1, <1>4, <1>6, <1>9 DEF QuietRun, Event
<1>12. QED
   BY <1>2, <1>3, <1>4, <1>5, <1>7, <1>8, <1>9, <1>10, <1>11

\* A step that touches no run.
LEMMA NoRunStep ==
   ASSUME BundleCore, UNCHANGED Recorded, UNCHANGED run, OperationsTyped', RequestsTyped', OperatorTyped',
          \A q \in Requests : Answered(q)
   PROVE  BundleCore'
<1>1. UNCHANGED <<shape, gap, log, overlapped>>
   BY DEF Recorded
<1>2. BundleTyped'
   <2>1. ASSUME NEW n \in Messages
         PROVE  run'[n] \in RunRecords' /\ RunFits(run[n])'
      <3>1. PICK x \in RunRecords : x = run[n] /\ RunFits(x)
         BY RunFacts DEF BundleCore
      <3>2. RunFits(x)' /\ run'[n] = x /\ RunRecords' = RunRecords
         BY <1>1, <3>1, FitsStill, RecordedStill, SameShape DEF BundleCore
      <3>3. QED
         BY <3>2 DEF RunFits
   <2>2. run' = [n \in Messages |-> run'[n]]
      BY DEF BundleCore, BundleTyped, RunsTyped
   <2>3. RunsTyped'
      BY <2>1, <2>2 DEF RunsTyped
   <2>4. QED
      BY <1>1, <2>3, RecordedStill DEF BundleCore, BundleTyped, Persists
<1>3. AnyInv'
   <2>1. PICK m \in Messages : TRUE
      BY DEF Messages
   <2>2. PICK t \in RunRecords : t = run[m] /\ AnyRun(t)
      BY CoreRun
   <2>3. Becomes(m, t)
      BY <2>2 DEF Becomes, BundleCore, BundleTyped, RunsTyped
   <2>4. t.set \in Sets
      BY DEF RunRecords
   <2>5. AnyRun(t)'
      BY <2>2, <2>4, RecordedStill, AnyStill
   <2>6. Grows
      BY RecordedStill
   <2>7. Succeeded \in log' => Succeeded \in log
      BY <1>1
   <2>8. QED
      BY <2>3, <2>5, <2>6, <2>7, AnyStep DEF BundleCore
<1>4. Busy' = Busy
   BY DEF Busy
<1>5. \A n \in Messages : (LoneRun(run[n])' <=> LoneRun(run[n])) /\ (QuietRun(run[n])' <=> QuietRun(run[n]))
   <2>1. ASSUME NEW n \in Messages
         PROVE  (LoneRun(run[n])' <=> LoneRun(run[n])) /\ (QuietRun(run[n])' <=> QuietRun(run[n]))
      <3>1. PICK x : x = run[n] /\ x = run'[n]
         OBVIOUS
      <3>2. (LoneRun(x)' <=> LoneRun(x)) /\ (QuietRun(x)' <=> QuietRun(x))
         BY RecordedStill
      <3>3. QED
         BY <3>1, <3>2 DEF LoneRun, QuietRun
   <2>2. QED
      BY <2>1
<1>6. LoneInv'
   <2>1. UNCHANGED <<row, object>>
      BY DEF Recorded
   <2>2. QED
      BY <1>1, <1>4, <1>5, <2>1, RecordedStill DEF BundleCore, LoneInv
<1>7. QuietInv'
   <2>1. \A n \in Messages : QuietRun(run[n])' <=> QuietRun(run[n])
      BY <1>5
   <2>2. Undisturbed => \A n \in Messages : QuietRun(run[n])
      BY DEF BundleCore, QuietInv
   <2>3. Undisturbed => (Busy = {} /\ Succeeded \notin log => AllBlank)
      BY DEF BundleCore, QuietInv, AllBlank
   <2>4. Undisturbed => \A d \in Sets : Unavailable(d) \in log \/ InOnePiece(d)
      BY DEF BundleCore, QuietInv
   <2>5. Undisturbed' => /\ \A n \in Messages : QuietRun(run[n])'
                         /\ (Busy' = {} /\ Succeeded' \notin log' => AllBlank')
                         /\ \A d \in Sets' : Unavailable(d)' \in log' \/ InOnePiece(d)'
      BY <1>1, <1>4, <2>1, <2>2, <2>3, <2>4, RecordedStill
   <2>6. QED
      BY <2>5 DEF QuietInv, AllBlank
<1>8. QED
   BY <1>2, <1>3, <1>6, <1>7 DEF BundleCore

\* A message is published that is not under way.
LEMMA MessageStep ==
   ASSUME BundleCore, UNCHANGED Recorded, UNCHANGED <<operation, request>>,
          NEW m \in Messages, run[m].pc \notin Running, NEW o \in Operations,
          run' = [run EXCEPT ![m] = [Unpublished EXCEPT !.pc = "queued", !.carried = o]], OperatorTyped'
   PROVE  BundleCore'
<1>1. PICK t : Forgets(m, t, "queued") /\ t.try = 0
   BY PublishEffect DEF BundleCore
<1>2. Becomes(m, t) /\ t.pc = "queued"
   BY <1>1 DEF Forgets
<1>3. UNCHANGED <<shape, row, object, gap, log, overlapped, faults>>
   BY DEF Recorded
<1>4. /\ run' \in [Messages -> RunRecords] /\ run'[m] = t
      /\ \A n \in Messages : n # m => run'[n] = run[n]
   BY <1>2, Replaced DEF BundleCore
<1>5. BundleTyped'
   <2>1. 0 =< faults'
      BY <1>3, ShapeFacts DEF BundleCore, BundleTyped
   <2>2. RunFits(t)'
      BY <1>1, <2>1, ForgetFits
   <2>3. ASSUME NEW n \in Messages
         PROVE  RunFits(run[n])'
      <3>1. CASE n = m
         BY <1>4, <2>2, <3>1 DEF RunFits
      <3>2. CASE n # m
         <4>1. PICK x \in RunRecords : x = run[n] /\ RunFits(x)
            BY RunFacts DEF BundleCore
         <4>2. RunFits(x)' /\ run'[n] = x
            BY <1>4, <3>2, <4>1, FitsStill, RecordedStill DEF BundleCore
         <4>3. QED
            BY <4>2 DEF RunFits
      <3>3. QED
         BY <3>1, <3>2
   <2>4. RunsTyped'
      BY <1>3, <1>4, <2>3, SameShape DEF RunsTyped
   <2>5. OperationsTyped' /\ RequestsTyped'
      BY <1>3, TypedPlain DEF BundleCore
   <2>6. QED
      BY <1>3, <2>4, <2>5, RecordedStill DEF BundleCore, BundleTyped, Persists
<1>6. AnyInv'
   <2>1. AnyRun(t)'
      BY <1>2 DEF AnyRun, Running, InDataset
   <2>2. Succeeded \in log' => Succeeded \in log
      BY <1>3
   <2>3. \A q \in Requests : Answered(q)
      BY DEF Answered
   <2>4. QED
      BY <1>2, <2>1, <2>2, <2>3, AnyStep, RecordedStill DEF BundleCore
<1>7. Busy' = Busy
   BY <1>2, <1>4 DEF Busy, Running, InDataset
<1>8. ASSUME NEW n \in Messages
      PROVE  (LoneRun(run[n]) => LoneRun(run[n])') /\ (QuietRun(run[n]) => QuietRun(run[n])')
   <2>1. CASE n = m
      BY <1>2, <1>4, <2>1 DEF LoneRun, QuietRun, WithAnswer, Running, InDataset
   <2>2. CASE n # m
      <3>1. PICK x : x = run[n] /\ x = run'[n]
         BY <1>4, <2>2
      <3>2. (LoneRun(x)' <=> LoneRun(x)) /\ (QuietRun(x)' <=> QuietRun(x))
         BY RecordedStill
      <3>3. QED
         BY <3>1, <3>2 DEF LoneRun, QuietRun
   <2>3. QED
      BY <2>1, <2>2
<1>9. LoneInv'
   BY <1>3, <1>7, <1>8, RecordedStill DEF BundleCore, LoneInv
<1>10. QuietInv'
   <2>1. Undisturbed => \A n \in Messages : QuietRun(run[n])'
      BY <1>8 DEF BundleCore, QuietInv
   <2>2. Undisturbed => (Busy = {} /\ Succeeded \notin log => AllBlank)
      BY DEF BundleCore, QuietInv, AllBlank
   <2>3. Undisturbed => \A d \in Sets : Unavailable(d) \in log \/ InOnePiece(d)
      BY DEF BundleCore, QuietInv
   <2>4. Undisturbed' => /\ \A n \in Messages : QuietRun(run[n])'
                         /\ (Busy' = {} /\ Succeeded' \notin log' => AllBlank')
                         /\ \A d \in Sets' : Unavailable(d)' \in log' \/ InOnePiece(d)'
      BY <1>3, <1>7, <2>1, <2>2, <2>3, RecordedStill
   <2>5. QED
      BY <2>4 DEF QuietInv, AllBlank
<1>11. QED
   BY <1>5, <1>6, <1>9, <1>10 DEF BundleCore

LEMMA ChooseStep ==
   ASSUME BundleCore, ChooseRequests, UNCHANGED shape
   PROVE  BundleCore'
<1>1. UNCHANGED Recorded /\ UNCHANGED <<run, request>>
   BY DEF ChooseRequests, Recorded, artifacts, history
<1>2. OperationsTyped'
   <2>1. Retry \in Operations
      BY BundleOperations DEF BundleCore, BundleTyped
   <2>2. QED
      BY <2>1, OperationSet DEF ChooseRequests, BundleCore
<1>3. OperatorTyped'
   <2>1. PICK chosen \in SUBSET Requests : operator' = [pc |-> "move", chosen |-> chosen]
      BY DEF ChooseRequests
   <2>2. Requests' = Requests
      BY SameShape
   <2>3. run["retry"].pc = "none"
      BY DEF BundleCore, BundleTyped, OperatorTyped, ChooseRequests
   <2>4. QED
      BY <1>1, <2>1, <2>2, <2>3 DEF OperatorTyped
<1>4. RequestsTyped' /\ \A q \in Requests : Answered(q)
   BY <1>1, TypedPlain DEF Answered, BundleCore
<1>5. QED
   BY <1>1, <1>2, <1>3, <1>4, NoRunStep

LEMMA MoveStep ==
   ASSUME BundleCore, MoveRequests, UNCHANGED shape
   PROVE  BundleCore'
<1>1. UNCHANGED Recorded /\ UNCHANGED <<run, operation>>
   BY DEF MoveRequests, Recorded, artifacts, history
<1>2. PICK mine : request' = [q \in Requests |-> IF q \in mine THEN [status |-> "in_progress", op |-> Retry]
                                                           ELSE request[q]]
   BY DEF MoveRequests
<1>3. OperatorTyped'
   <2>1. Requests' = Requests
      BY SameShape
   <2>2. run["retry"].pc = "none"
      BY DEF BundleCore, BundleTyped, OperatorTyped, MoveRequests
   <2>3. operator' = [pc |-> "publish", chosen |-> {}]
      BY DEF MoveRequests
   <2>4. QED
      BY <1>1, <2>1, <2>2, <2>3 DEF OperatorTyped
<1> DEFINE z == [status |-> "in_progress", op |-> Retry]
<1>4. z \in RequestRecords /\ z.status = "in_progress"
   BY BundleOperations DEF RequestRecords, BundleCore, BundleTyped
<1> HIDE DEF z
<1>5. request' = [q \in Requests |-> IF q \in mine THEN z ELSE request[q]]
   BY <1>2 DEF z
<1>6. request \in [Requests -> RequestRecords] /\ RequestRecords' = RequestRecords /\ Requests' = Requests
   BY SameShape DEF BundleCore, BundleTyped, RequestsTyped
<1>7. RequestsTyped'
   BY <1>4, <1>5, <1>6 DEF RequestsTyped
<1>8. \A q \in Requests : Answered(q)
   BY <1>4, <1>5 DEF Answered
<1>9. OperationsTyped'
   BY <1>1, TypedPlain DEF BundleCore
<1>10. QED
   BY <1>1, <1>3, <1>7, <1>8, <1>9, NoRunStep

LEMMA RetryStep ==
   ASSUME BundleCore, PublishRetry, UNCHANGED shape
   PROVE  BundleCore'
<1>1. UNCHANGED Recorded /\ UNCHANGED <<request, operation>>
   BY DEF PublishRetry, Recorded, artifacts, history
<1>2. "retry" \in Messages /\ Retry \in Operations /\ run["retry"].pc = "none"
   BY BundleNames, BundleOperations DEF BundleCore, BundleTyped, OperatorTyped, PublishRetry
<1>3. OperatorTyped'
   <2>1. Requests' = Requests
      BY SameShape
   <2>2. operator' \in [pc : {"over"}, chosen : SUBSET Requests]
      BY DEF PublishRetry, BundleCore, BundleTyped, OperatorTyped
   <2>3. QED
      BY <2>1, <2>2 DEF OperatorTyped
<1>4. QED
   BY <1>1, <1>2, <1>3, MessageStep DEF PublishRetry, Running, InDataset

\* The bundle keeps its invariant.
LEMMA BundleStep ==
   ASSUME BundleCore, BundleNext
   PROVE  BundleCore'
<1>1. UNCHANGED shape
   BY DEF BundleNext
<1>2. ASSUME NEW m \in Messages, Work(m)
      PROVE  BundleCore'
   <2>1. CASE SkipDuplicate(m) \/ Start(m) \/ OpenOperation(m) \/ RefuseUnmapped(m)
      BY <1>1, <2>1, SkipStep, StartStep, OpenStep, RefuseStep
   <2>2. CASE FindRequest(m) \/ Fetch(m) \/ DatasetFails(m) \/ Put(m) \/ Announce(m)
      BY <1>1, <2>2, FindStep, FetchStep, FailStep, PutStep, AnnounceStep
   <2>3. CASE SaveArtifact(m) \/ SaveConflict(m) \/ Fulfil(m)
      BY <1>1, <2>3, SaveStep, ConflictStep, FulfilStep
   <2>4. CASE EmitUnavailable(m) \/ DocumentGap(m) \/ Succeed(m) \/ Finalize(m)
      BY <1>1, <2>4, EmitStep, GapStep, SucceedStep, FinalizeStep
   <2>5. QED
      BY <1>2, <2>1, <2>2, <2>3, <2>4 DEF Work
<1>3. ASSUME NEW m \in Messages, Interrupt(m)
      PROVE  BundleCore'
   BY <1>1, <1>3, FailStep, LimitStep, RaiseStep, LostStep DEF Interrupt
<1>4. CASE ChooseRequests
   BY <1>1, <1>4, ChooseStep
<1>5. CASE Requeue
   BY <1>1, <1>5, MoveStep, RetryStep DEF Requeue
<1>6. QED
   BY <1>2, <1>3, <1>4, <1>5 DEF BundleNext

\* A message's work is on its own run.
LEMMA OwnRun ==
   ASSUME BundleTyped, NEW m \in Messages, Work(m) \/ Interrupt(m), NEW n \in Messages \ {m}
   PROVE  run[m].pc # "none" /\ run'[n] = run[n]
<1> USE DEF BundleTyped, RunsTyped
<1>1. ASSUME NEW pc, Goto(m, pc) PROVE run'[n] = run[n]
   BY <1>1 DEF Goto
<1>2. ASSUME NEW pc, End(m, pc) PROVE run'[n] = run[n]
   BY <1>2 DEF End
<1>3. ASSUME NEW k, Redeliver(m, k) PROVE run'[n] = run[n]
   BY <1>3 DEF Redeliver
<1>4. ASSUME NextSet(m) PROVE run'[n] = run[n]
   BY <1>4 DEF NextSet
<1>5. ASSUME NEW k, NEW a, Render(m, k, a) PROVE run'[n] = run[n]
   BY <1>5 DEF Render
<1>6. CASE OpenOperation(m) \/ FindRequest(m)
   BY <1>6 DEF OpenOperation, FindRequest, At
<1>7. CASE Fetch(m) \/ SaveArtifact(m)
   BY <1>5, <1>7 DEF Fetch, SaveArtifact, At
<1>8. CASE SkipDuplicate(m) \/ RefuseUnmapped(m) \/ SaveConflict(m) \/ Finalize(m)
   BY <1>2, <1>8 DEF SkipDuplicate, RefuseUnmapped, SaveConflict, Finalize, At
<1>9. CASE Start(m) \/ DatasetFails(m) \/ Put(m) \/ Announce(m) \/ EmitUnavailable(m) \/ Succeed(m)
   BY <1>1, <1>9 DEF Start, DatasetFails, Put, Announce, EmitUnavailable, Succeed, At
<1>10. CASE Fulfil(m) \/ DocumentGap(m)
   BY <1>4, <1>10 DEF Fulfil, DocumentGap, At
<1>11. CASE TimeLimitInDataset(m) \/ TimeLimitInRequest(m)
   BY <1>1, <1>11 DEF TimeLimitInDataset, TimeLimitInRequest, At, InDataset
<1>12. CASE RunRaises(m) \/ WorkerLost(m)
   BY <1>2, <1>3, <1>12 DEF RunRaises, WorkerLost, Running, InDataset
<1>13. QED
   BY <1>6, <1>7, <1>8, <1>9, <1>10, <1>11, <1>12 DEF Work, Interrupt

\* Nothing happens to the bundle's first message before it is published: what may
\* run is a retry of requests that the office has made.
LEMMA FirstWaits ==
   ASSUME BundleTyped, BundleNext, run["first"].pc = "none"
   PROVE  run'["first"].pc = "none"
<1>1. Messages = {"first", "retry"}
   BY BundleNames
<1>2. ASSUME NEW m \in Messages, Work(m) \/ Interrupt(m)
      PROVE  run'["first"] = run["first"]
   <2>1. CASE m = "retry"
      BY <1>1, <1>2, <2>1, OwnRun
   <2>2. CASE m = "first"
      BY <1>1, <1>2, <2>2, OwnRun
   <2>3. QED
      BY <1>1, <2>1, <2>2
<1>3. ASSUME ChooseRequests \/ Requeue
      PROVE  run'["first"] = run["first"]
   BY <1>1, <1>3 DEF ChooseRequests, Requeue, MoveRequests, PublishRetry, BundleTyped, RunsTyped
<1>4. QED
   BY <1>2, <1>3 DEF BundleNext

-----------------------------------------------------------------------------
(* The office's handler.                                                   *)

LEMMA OpenRequestsStep ==
   ASSUME BundleCore, OfficeTyped, OpenRequests
   PROVE  BundleCore' /\ OfficeTyped'
<1>1. UNCHANGED Recorded /\ UNCHANGED <<shape, run, operation, operator, log>>
   BY DEF OpenRequests, Recorded, artifacts, history
<1> DEFINE z == [status |-> "open", op |-> NoOperation]
<1>2. z \in RequestRecords /\ z.status = "open"
   BY DEF RequestRecords
<1> HIDE DEF z
<1>3. request' = [q \in Requests |-> IF q[1] = First /\ q[3] = 1 THEN z ELSE request[q]]
   BY DEF OpenRequests, z
<1>4. request \in [Requests -> RequestRecords] /\ RequestRecords' = RequestRecords /\ Requests' = Requests
   BY <1>1, SameShape DEF BundleCore, BundleTyped, RequestsTyped
<1>5. RequestsTyped'
   BY <1>2, <1>3, <1>4 DEF RequestsTyped
<1>6. \A q \in Requests : Answered(q)
   BY <1>2, <1>3 DEF Answered
<1>7. OperationsTyped' /\ OperatorTyped'
   BY <1>1, <1>4, TypedPlain DEF BundleCore, BundleTyped, OperatorTyped
<1>8. BundleCore'
   BY <1>1, <1>5, <1>6, <1>7, NoRunStep
<1>9. QED
   BY <1>1, <1>8 DEF OfficeTyped, OpenRequests, Office, Unbegun

LEMMA QueueBundleStep ==
   ASSUME BundleCore, OfficeTyped, QueueBundle
   PROVE  BundleCore' /\ OfficeTyped'
<1>1. UNCHANGED Recorded /\ UNCHANGED <<shape, run, request, operator, log>>
   BY DEF QueueBundle, Recorded, artifacts, history
<1>2. OperationsTyped'
   <2>1. First \in Operations
      BY BundleOperations DEF BundleCore, BundleTyped
   <2>2. QED
      BY <1>1, <2>1, OperationSet DEF QueueBundle, BundleCore
<1>3. RequestsTyped' /\ OperatorTyped'
   BY <1>1, SameShape, TypedPlain DEF BundleCore, BundleTyped, OperatorTyped
<1>4. \A q \in Requests : Answered(q)
   BY <1>1 DEF Answered
<1>5. BundleCore'
   BY <1>1, <1>2, <1>3, <1>4, NoRunStep
<1>6. QED
   BY <1>1, <1>5 DEF OfficeTyped, QueueBundle, Office, Unbegun

LEMMA LinkRequestsStep ==
   ASSUME BundleCore, OfficeTyped, LinkRequests
   PROVE  BundleCore' /\ OfficeTyped'
<1>1. UNCHANGED Recorded /\ UNCHANGED <<shape, run, operation, operator, log>>
   BY DEF LinkRequests, Recorded, artifacts, history
<1> DEFINE z == [status |-> "in_progress", op |-> First]
<1>2. z \in RequestRecords /\ z.status = "in_progress"
   BY BundleOperations DEF RequestRecords, BundleCore, BundleTyped
<1> HIDE DEF z
<1>3. request' = [q \in Requests |-> IF q[1] = First /\ q[3] = 1 THEN z ELSE request[q]]
   BY DEF LinkRequests, z
<1>4. request \in [Requests -> RequestRecords] /\ RequestRecords' = RequestRecords /\ Requests' = Requests
   BY <1>1, SameShape DEF BundleCore, BundleTyped, RequestsTyped
<1>5. RequestsTyped'
   BY <1>2, <1>3, <1>4 DEF RequestsTyped
<1>6. \A q \in Requests : Answered(q)
   BY <1>2, <1>3 DEF Answered
<1>7. OperationsTyped' /\ OperatorTyped'
   BY <1>1, <1>4, TypedPlain DEF BundleCore, BundleTyped, OperatorTyped
<1>8. BundleCore'
   BY <1>1, <1>5, <1>6, <1>7, NoRunStep
<1>9. QED
   BY <1>1, <1>8 DEF OfficeTyped, LinkRequests, Office, Unbegun

LEMMA PublishBundleStep ==
   ASSUME BundleCore, OfficeTyped, PublishBundle
   PROVE  BundleCore' /\ OfficeTyped'
<1>1. UNCHANGED Recorded /\ UNCHANGED <<shape, operation, request, operator>>
   BY DEF PublishBundle, Recorded, artifacts, history
<1>2. "first" \in Messages /\ First \in Operations
   BY BundleNames, BundleOperations DEF BundleCore, BundleTyped
<1>3. run["first"].pc = "none"
   BY DEF PublishBundle, Office, OfficeTyped, Unbegun
<1>4. run' = [run EXCEPT !["first"] = [Unpublished EXCEPT !.pc = "queued", !.carried = First]]
   BY DEF PublishBundle
<1>5. OperatorTyped'
   <2>1. run'["retry"] = run["retry"]
      BY <1>4, BundleNames DEF BundleCore, BundleTyped, RunsTyped
   <2>2. QED
      BY <1>1, <2>1, SameShape DEF BundleCore, BundleTyped, OperatorTyped
<1>6. BundleCore'
   BY <1>1, <1>2, <1>3, <1>4, <1>5, MessageStep DEF Running, InDataset
<1>7. QED
   BY <1>6 DEF OfficeTyped, PublishBundle, Office, Unbegun

\* Steps of the office and of others that leave the bundle alone.
LEMMA BundleStill ==
   ASSUME BundleCore, UNCHANGED bundleVars
   PROVE  BundleCore'
<1>1. UNCHANGED Recorded /\ UNCHANGED <<shape, run, operation, request, operator>>
   BY DEF bundleVars, Recorded, artifacts, history
<1>2. RequestsTyped' /\ OperatorTyped' /\ OperationsTyped'
   BY <1>1, SameShape, TypedPlain DEF BundleCore, BundleTyped, OperatorTyped
<1>3. \A q \in Requests : Answered(q)
   BY <1>1 DEF Answered
<1>4. QED
   BY <1>1, <1>2, <1>3, NoRunStep

LEMMA OfficeStill ==
   ASSUME OfficeTyped, UNCHANGED <<bundleVars, office>>
   PROVE  OfficeTyped'
BY DEF bundleVars, OfficeTyped, Unbegun

LEMMA BundleInvStep == BundleInv /\ [Next]_vars => BundleInv'
<1> SUFFICES ASSUME BundleCore, OfficeTyped, [Next]_vars
             PROVE  BundleCore' /\ OfficeTyped'
   BY DEF BundleInv, BundleCore
<1>1. CASE OfficeNext
   <2>1. CASE OpenRequests \/ QueueBundle \/ LinkRequests \/ PublishBundle
      BY <2>1, OpenRequestsStep, QueueBundleStep, LinkRequestsStep, PublishBundleStep
   <2>2. CASE QueueHistory \/ PublishHistory \/ EmitAttempted \/ OfficeGivesUp
      <3>1. BundleCore'
         BY <2>2, BundleStill DEF QueueHistory, PublishHistory, EmitAttempted, OfficeGivesUp
      <3>2. office' \in {"send", "attempt", "over"}
         BY <2>2 DEF QueueHistory, PublishHistory, EmitAttempted, OfficeGivesUp, Office
      <3>3. QED
         BY <3>1, <3>2 DEF OfficeTyped, Unbegun
   <2>3. QED
      BY <1>1, <2>1, <2>2 DEF OfficeNext, BeginCaptures
<1>2. CASE BundleNext /\ UNCHANGED officeVars
   <2>1. office' = office /\ (office \in Unbegun => run'["first"].pc = "none")
      BY <1>2, FirstWaits DEF officeVars, OfficeTyped, BundleCore
   <2>2. QED
      BY <1>2, <2>1, BundleStep DEF OfficeTyped, Unbegun
<1>3. CASE UNCHANGED <<bundleVars, officeVars>>
   BY <1>3, BundleStill, OfficeStill DEF officeVars
<1>4. QED
   BY <1>1, <1>2, <1>3 DEF Next, vars

LEMMA BundleInvInit == Init => BundleInv
<1> SUFFICES ASSUME Init
             PROVE  BundleInv
   OBVIOUS
<1>1. PICK n \in Instances : /\ shape = n.shape /\ BundleInit(n.origin)
                             /\ office = IF n.origin = "office" THEN "create" ELSE "over"
   BY DEF Init
<1>2. n.origin \in {"driver", "office", "over"} /\ shape \in Shapes
   BY <1>1, InstancesAssumption DEF Shapes
<1>3. PICK u \in RunRecords : u = Unpublished
   BY <1>2, UnpublishedFacts
<1>4. /\ u.pc = "none" /\ u.try = 0 /\ u.set = 1 /\ u.req = NoReq /\ faults = 0
      /\ overlapped = FALSE /\ skipped = {} /\ log = {} /\ gap = {}
      /\ mapped \in BOOLEAN /\ operator = [pc |-> "idle", chosen |-> {}]
   BY <1>1, <1>2, <1>3, UnpublishedFacts DEF BundleInit
<1> DEFINE v == [u EXCEPT !.pc = IF n.origin = "driver" THEN "queued" ELSE "over"]
<1>5. v \in RunRecords /\ v.pc \in {"queued", "over"} /\ v.try = 0 /\ v.set = 1 /\ v.req = NoReq
   BY <1>3, <1>4 DEF RunRecords, Pcs
<1>6. run = [m \in Messages |-> IF m = "retry" \/ n.origin = "office" THEN u ELSE v]
   BY <1>1, <1>3 DEF BundleInit
<1> HIDE DEF v
<1>7. \A m \in Messages : /\ run[m] \in RunRecords /\ run[m].pc \in {"none", "queued", "over"}
                          /\ run[m].try = 0 /\ run[m].set = 1 /\ run[m].req = NoReq
   BY <1>4, <1>5, <1>6
<1>8. BundleTyped
   <2>1. RunsTyped
      <3>1. \A m \in Messages : RunFits(run[m])
         BY <1>4, <1>7 DEF RunFits, Running, InDataset, WithRequest, WithAnswer
      <3>2. QED
         BY <1>6, <1>7, <3>1 DEF RunsTyped
   <2>2. OperationsTyped
      BY <1>1 DEF BundleInit, OperationsTyped
   <2>3. RequestsTyped
      BY <1>1 DEF BundleInit, RequestsTyped, RequestRecords, NoRequest
   <2>4. ArtifactsTyped
      BY <1>1 DEF BundleInit, ArtifactsTyped
   <2>5. OperatorTyped
      BY <1>4, <1>6, BundleNames DEF OperatorTyped
   <2>6. LogTyped
      BY <1>4 DEF LogTyped
   <2>7. faults \in 0..shape.faults
      BY <1>2, <1>4, ShapeFacts
   <2>8. QED
      BY <1>2, <2>1, <2>2, <2>3, <2>4, <2>5, <2>6, <2>7 DEF BundleTyped
<1>9. \A d \in Sets : \A k \in Renderings : Blank(d, k)
   BY <1>1, <1>4 DEF BundleInit, Blank, Hashes
<1>10. \A m \in Messages : run[m].pc \notin Running
   BY <1>7 DEF Running, InDataset
<1>11. AnyInv
   <2>1. \A m \in Messages : AnyRun(run[m])
      BY <1>10 DEF AnyRun
   <2>2. BundleIsDocumented
      BY <1>4 DEF BundleIsDocumented
   <2>3. RequestsAnswerTruly
      BY <1>1 DEF BundleInit, RequestsAnswerTruly, NoRequest
   <2>4. QED
      BY <2>1, <2>2, <2>3 DEF AnyInv
<1>12. LoneInv
   BY <1>9, <1>10 DEF LoneInv, LoneRun, Busy, Blank, WithAnswer, Running, InDataset
<1>13. QuietInv
   BY <1>9, <1>10 DEF QuietInv, QuietRun, InOnePiece, Blank
<1>14. OfficeTyped
   <2>1. office \in Unbegun => n.origin = "office"
      BY <1>1 DEF Unbegun
   <2>2. n.origin = "office" => run["first"].pc = "none"
      BY <1>4, <1>6, BundleNames
   <2>3. QED
      BY <1>1, <2>1, <2>2 DEF OfficeTyped, Unbegun
<1>15. QED
   BY <1>8, <1>11, <1>12, <1>13, <1>14 DEF BundleInv

LEMMA BundleInvMeans == BundleInv => BundleIsHonest
<1> SUFFICES ASSUME BundleInv
             PROVE  BundleIsHonest
   OBVIOUS
<1>1. shape \in Shapes /\ faults \in 0..shape.faults /\ shape.faults \in Nat
   BY ShapeFacts DEF BundleInv, BundleTyped
<1>2. BundleTypeOK
   <2>1. ASSUME NEW m \in Messages
         PROVE  run[m] \in [pc : Pcs, try : 0..shape.faults, retries : 0..MaxRetries,
                            carried : Operations \cup {NoOperation}, op : Operations \cup {NoOperation},
                            set : Sets, rendering : Renderings, req : Requests \cup {NoReq},
                            answer : Answers \cup {None}]
      <3>1. PICK x \in RunRecords : x = run[m] /\ RunFits(x)
         BY RunFacts DEF BundleInv
      <3>2. x.try \in 0..shape.faults
         BY <1>1, <3>1 DEF RunFits, RunRecords
      <3>3. QED
         BY <3>1, <3>2 DEF RunRecords
   <2>2. Unpublished.req = NoReq /\ run = [m \in Messages |-> run[m]]
      BY <1>1, UnpublishedFacts DEF BundleInv, BundleTyped, RunsTyped
   <2>3. run \in [Messages ->
         [pc : {"none", "queued", "over", "dead"} \cup Running, try : 0..shape.faults,
          retries : 0..MaxRetries, carried : Operations \cup {NoOperation},
          op : Operations \cup {NoOperation}, set : Sets, rendering : Renderings,
          req : Requests \cup {Unpublished.req}, answer : Answers \cup {None}]]
      BY <2>1, <2>2 DEF Pcs
   <2>4. QED
      BY <1>1, <2>3 DEF BundleTypeOK, BundleInv, BundleTyped, OperationsTyped, RequestsTyped, RequestRecords, ArtifactsTyped,
         OperatorTyped, LogTyped, EventRecords
<1>3. RenderingsAgree
   <2>1. SUFFICES ASSUME NEW d \in Sets, NEW k \in Renderings, row[d][k] # None, Unavailable(d) \notin log, Undisturbed
                  PROVE  /\ object[d][k] = row[d][k]
                         /\ Hashes(d, k) = {Event("hashed", d, k, row[d][k])}
                         /\ \A j \in Renderings : row[d][j] \in {None, row[d][k]}
      BY <1>1 DEF RenderingsAgree, Undisturbed
   <2>2. InOnePiece(d)
      BY <2>1 DEF BundleInv, QuietInv
   <2>3. object[d][k] = row[d][k]
      BY <2>1 DEF BundleInv, LoneInv, Undisturbed
   <2>4. QED
      BY <2>1, <2>2, <2>3 DEF InOnePiece
<1>4. QED
   BY <1>2, <1>3 DEF BundleIsHonest, BundleInv, AnyInv

\* What a telematics bundle reports is there, in one piece: tasks/evidence_tasks.py,
\* capture_telematics_bundle, and services/telematics_capture_service.py, however many
\* datasets, formats, answers, retries and faults there are, and whoever began it.
THEOREM BundleStaysHonest == Spec => []BundleIsHonest
BY BundleInvInit, BundleInvStep, BundleInvMeans, PTL DEF Spec
-----------------------------------------------------------------------------
(* The synchronisation: types, and the unit history's rows.                *)

UnitRows == UnitIds \X Feed
SyncRows == (TrailerIds \X {Nil}) \cup UnitRows
SyncRecords ==
   [pc : {"queued", "select", "look", "write", "finish", "over"}, entity : {"trailer", "driver_unit_history"},
    pending : SUBSET SyncRows, row : SyncRows \cup {<<Nil, Nil>>}, found : BOOLEAN, failed : BOOLEAN]

\* The rows at hand are the entity's.
SyncFits(x) ==
   x.entity = "driver_unit_history" =>
      x.pending \subseteq UnitRows /\ (x.pc = "write" => x.row \in UnitRows)

UnitsStarted == \A u \in UnitIds : units[u] # Nil => Given(units[u].start)

SyncInv ==
   /\ connection \in [status : {"active", "error"}, synced : BOOLEAN]
   /\ sync \in [Syncs -> SyncRecords] /\ \A s \in Syncs : SyncFits(sync[s])
   /\ DOMAIN units = UnitIds /\ UnitsStarted
-----------------------------------------------------------------------------
(* The history: types.                                                     *)

TaskPcs ==
   {"none", "queued", "cached", "store", "match", "tell", "fulfil", "succeed", "failed", "fail", "over"}
Pulling == {"store", "match", "tell", "fulfil", "succeed"}
Answering == {"tell", "fulfil", "succeed"}
PullRecords == [Reports -> Pulled[scope.sample] \cup {Nil}]

HistoryTyped ==
   /\ task \in [Cases -> [pc : TaskPcs, snapshot : Nat]]
   /\ capture \in [Cases -> {"none", "queued", "running", "succeeded", "failed"}]
   /\ evidence \in [Cases -> {"none", "in_progress", "fulfilled", "failed"}]
   /\ DOMAIN link = Cases /\ DOMAIN basis = Cases /\ told \subseteq Cases
   /\ inspections \in PullRecords
   /\ pulls \in Seq(PullRecords) /\ cache \in 0..Len(pulls)
   /\ stored \in Seq(Nat) /\ \A at \in 1..Len(stored) : stored[at] \in 1..Len(pulls)
   /\ losses \in Nat
   /\ \A i \in Cases : task[i].pc \in Pulling => task[i].snapshot \in 1..Len(pulls)
-----------------------------------------------------------------------------
(* What is stored is what was pulled, the latest first.                    *)

PulledAs(kept, at, r, found) == \E later \in at..Len(kept) : found = pulls[kept[later]][r]

StoredKept ==
   \A at \in 1..Len(stored) : \A r \in Reports :
      pulls[stored[at]][r] # Nil => PulledAs(stored, at, r, inspections[r])

BasisKept(b) ==
   /\ b.stored \in Seq(Nat) /\ \A at \in 1..Len(b.stored) : b.stored[at] \in 1..Len(pulls)
   /\ b.promised \subseteq Reports
   /\ \A at \in 1..Len(b.stored) : b.stored[at] = b.snapshot =>
         \A r \in b.promised : PulledAs(b.stored, at, r, b.inspections[r])

KeptInv == StoredKept /\ \A i \in Cases : BasisKept(basis[i])
-----------------------------------------------------------------------------
(* A snapshot is stored, or a run has yet to store it, or that run was     *)
(* lost.                                                                   *)

Stores(i, s) == task[i].pc = "store" /\ task[i].snapshot = s
Accounted(s) == Contains(stored, s) \/ LeftUnstored(s) \/ \E i \in Cases : Stores(i, s)

Relied(i) ==
   \/ Contains(basis[i].stored, basis[i].snapshot) \/ basis[i].snapshot \in basis[i].pending
   \/ LeftUnstored(basis[i].snapshot)

Vouched(i) == task[i].pc \in Answering \/ i \in told => Relied(i)

AccountInv == (\A s \in 1..Len(pulls) : Accounted(s)) /\ \A i \in Cases : Vouched(i)
-----------------------------------------------------------------------------
(* What the records of an incident say of its run.                         *)

Told(i) ==
   /\ capture[i] \in {"succeeded", "failed"} => task[i].pc = "over"
   /\ capture[i] = "succeeded" => evidence[i] = "fulfilled" /\ i \in told /\ basis[i] # NoBasis
   /\ capture[i] = "failed" => evidence[i] = "failed" /\ (basis[i] = NoBasis \/ WasLost(i))
   /\ task[i].pc \in Answering => basis[i] # NoBasis
   /\ task[i].pc \in {"fulfil", "succeed"} => i \in told
   /\ task[i].pc = "succeed" => evidence[i] = "fulfilled"
   /\ task[i].pc = "fail" => evidence[i] = "failed"
   /\ task[i].pc \notin Answering \cup {"over"} => basis[i] = NoBasis \/ WasLost(i)
   /\ task[i].pc # "none" => evidence[i] # "none"

ToldInv == \A i \in Cases : Told(i)
-----------------------------------------------------------------------------
(* What the office's handler has done so far.                              *)

Linked ==
   /\ run["first"].pc # "none" /\ operation[First] # "none"
   /\ \A d \in Sets : request[<<First, d, 1>>].op # NoOperation

OfficeInv ==
   /\ office \in Unbegun \cup {"history", "send"} => cache = 0 /\ \A i \in Cases : task[i].pc = "none"
   /\ office \in Unbegun \cup {"history"} => \A i \in Cases : capture[i] = "none"
   /\ office = "send" => /\ evidence[NewCase] # "none"
                         /\ \A i \in Cases : capture[i] # "none" => i = NewCase
   /\ office \in Unbegun \cup {"history", "send", "attempt"} =>
         ~gaveUp /\ ~attempted /\ (NoHistory \/ NewCase \in scope.cases)
   /\ office \in {"history", "send"} => ~NoHistory
   /\ office \in {"link", "publish"} => operation[First] # "none"
   /\ office = "publish" => \A d \in Sets : request[<<First, d, 1>>].op # NoOperation
   /\ office \in {"history", "send", "attempt"} \/ attempted => Linked
   /\ office = "attempt" \/ attempted =>
         NoHistory \/ (task[NewCase].pc # "none" /\ evidence[NewCase] # "none")
   /\ office = "attempt" \/ (office = "over" /\ ~gaveUp) =>
         \A i \in Cases : capture[i] # "none" => task[i].pc # "none"
   /\ office = "over" /\ ~gaveUp => run["first"].pc # "none"

CapturesInv ==
   /\ BundleInv
   /\ SyncInv /\ HistoryTyped /\ KeptInv /\ BriefIsDefensible /\ AccountInv /\ ToldInv /\ OfficeInv
-----------------------------------------------------------------------------
(* The synchronisation keeps its rows' starts.                             *)

LEMMA NotStartedFacts ==
   /\ NotStarted \in SyncRecords /\ SyncFits(NotStarted)
   /\ [NotStarted EXCEPT !.pc = "over"] \in SyncRecords /\ SyncFits([NotStarted EXCEPT !.pc = "over"])
BY DEF NotStarted, SyncRecords, SyncFits

LEMMA SyncRun ==
   ASSUME SyncInv, NEW s \in Syncs
   PROVE  sync[s] \in SyncRecords /\ SyncFits(sync[s])
BY DEF SyncInv

\* One task's record is replaced.
LEMMA SyncReplaced ==
   ASSUME SyncInv, NEW s \in Syncs, NEW t \in SyncRecords, SyncFits(t), sync' = [sync EXCEPT ![s] = t]
   PROVE  sync' \in [Syncs -> SyncRecords] /\ \A z \in Syncs : SyncFits(sync'[z])
BY DEF SyncInv

LEMMA SyncOverEffect ==
   ASSUME SyncInv, NEW s \in Syncs, SyncOver(s)
   PROVE  sync' \in [Syncs -> SyncRecords] /\ \A z \in Syncs : SyncFits(sync'[z])
BY NotStartedFacts, SyncReplaced DEF SyncOver

LEMMA NextEntityEffect ==
   ASSUME SyncInv, NEW s \in Syncs, NEW failed \in BOOLEAN, NextEntity(s, failed)
   PROVE  sync' \in [Syncs -> SyncRecords] /\ \A z \in Syncs : SyncFits(sync'[z])
<1>1. PICK x \in SyncRecords : x = sync[s]
   BY SyncRun
<1>2. PICK pc \in {"select", "finish"} : pc = IF x.entity = "trailer" THEN "select" ELSE "finish"
   OBVIOUS
<1> DEFINE t == [x EXCEPT !.pc = pc, !.entity = "driver_unit_history", !.pending = {}, !.row = <<Nil, Nil>>,
                          !.found = FALSE, !.failed = failed]
<1>3. sync' = [sync EXCEPT ![s] = t]
   BY <1>1, <1>2 DEF NextEntity, SyncInv
<1>4. t \in SyncRecords /\ t.pending = {} /\ t.pc = pc
   BY <1>1, <1>2 DEF SyncRecords
<1> HIDE DEF t
<1>5. SyncFits(t)
   BY <1>2, <1>4 DEF SyncFits
<1>6. QED
   BY <1>3, <1>4, <1>5, SyncReplaced

\* A sync's own step, the units' rows left alone.
LEMMA SyncInvFrom ==
   ASSUME SyncInv, sync' \in [Syncs -> SyncRecords], \A z \in Syncs : SyncFits(sync'[z]), UNCHANGED units,
          connection' \in [status : {"active", "error"}, synced : BOOLEAN]
   PROVE  SyncInv'
<1>1. \A z : SyncFits(sync[z])' <=> SyncFits(sync'[z])
   BY DEF SyncFits
<1>2. QED
   BY <1>1 DEF SyncInv, UnitsStarted

LEMMA ResolveStep ==
   ASSUME SyncInv, NEW s \in Syncs, ResolveSecret(s)
   PROVE  SyncInv'
<1>1. PICK x \in SyncRecords : x = sync[s] /\ SyncFits(x) /\ x.pc = "queued"
   BY SyncRun DEF ResolveSecret, SyncAt
<1>2. CASE sync' = [sync EXCEPT ![s].pc = "select"] /\ UNCHANGED connection
   <2> DEFINE t == [x EXCEPT !.pc = "select"]
   <2>1. sync' = [sync EXCEPT ![s] = t]
      BY <1>1, <1>2 DEF SyncInv
   <2>2. t \in SyncRecords /\ t.pc = "select" /\ t.entity = x.entity /\ t.pending = x.pending /\ t.row = x.row
      BY <1>1 DEF SyncRecords
   <2> HIDE DEF t
   <2>3. SyncFits(t)
      BY <1>1, <2>2 DEF SyncFits
   <2>4. connection' \in [status : {"active", "error"}, synced : BOOLEAN]
      BY <1>2 DEF SyncInv
   <2>5. QED
      BY <2>1, <2>2, <2>3, <2>4, SyncReplaced, SyncInvFrom DEF ResolveSecret
<1>3. CASE connection' = [connection EXCEPT !.status = "error"] /\ SyncOver(s)
   <2>1. connection' \in [status : {"active", "error"}, synced : BOOLEAN]
      BY <1>3 DEF SyncInv
   <2>2. QED
      BY <1>3, <2>1, SyncOverEffect, SyncInvFrom DEF ResolveSecret
<1>4. QED
   BY <1>2, <1>3 DEF ResolveSecret

LEMMA SelectStep ==
   ASSUME SyncInv, NEW s \in Syncs, SelectRows(s)
   PROVE  SyncInv'
<1>1. PICK x \in SyncRecords : x = sync[s] /\ SyncFits(x) /\ x.pc = "select"
   BY SyncRun DEF SelectRows, SyncAt
<1>2. x.failed \in BOOLEAN
   BY DEF SyncRecords
<1>3. connection' \in [status : {"active", "error"}, synced : BOOLEAN] /\ UNCHANGED units
   BY DEF SelectRows, SyncInv
<1>4. CASE NextEntity(s, TRUE) \/ NextEntity(s, x.failed)
   BY <1>2, <1>3, <1>4, NextEntityEffect, SyncInvFrom
<1>5. ASSUME NEW rows, rows \in IF x.entity = "trailer" THEN {{<<t, Nil>> : t \in TrailerIds}}
                                ELSE {{<<u, f[u]>> : u \in UnitIds} : f \in [UnitIds -> Feed]},
             sync' = [sync EXCEPT ![s].pc = "look", ![s].pending = rows]
      PROVE  SyncInv'
   <2>1. rows \subseteq SyncRows /\ (x.entity = "driver_unit_history" => rows \subseteq UnitRows)
      <3>1. CASE x.entity = "trailer"
         BY <1>5, <3>1 DEF SyncRows
      <3>2. CASE x.entity # "trailer"
         <4>1. PICK f \in [UnitIds -> Feed] : rows = {<<u, f[u]>> : u \in UnitIds}
            BY <1>5, <3>2
         <4>2. rows \subseteq UnitRows
            BY <4>1 DEF UnitRows
         <4>3. QED
            BY <4>2 DEF SyncRows
      <3>3. QED
         BY <3>1, <3>2
   <2> DEFINE t == [x EXCEPT !.pc = "look", !.pending = rows]
   <2>2. sync' = [sync EXCEPT ![s] = t]
      BY <1>1, <1>5 DEF SyncInv
   <2>3. t \in SyncRecords /\ t.pc = "look" /\ t.entity = x.entity /\ t.pending = rows
      BY <1>1, <2>1 DEF SyncRecords
   <2> HIDE DEF t
   <2>4. SyncFits(t)
      BY <2>1, <2>3 DEF SyncFits
   <2>5. QED
      BY <1>3, <2>2, <2>3, <2>4, SyncReplaced, SyncInvFrom
<1>6. QED
   BY <1>1, <1>4, <1>5 DEF SelectRows

LEMMA LookStep ==
   ASSUME SyncInv, NEW s \in Syncs, LookUpRow(s)
   PROVE  SyncInv'
<1>1. PICK x \in SyncRecords : x = sync[s] /\ SyncFits(x)
   BY SyncRun
<1>2. connection' \in [status : {"active", "error"}, synced : BOOLEAN] /\ UNCHANGED units
   BY DEF LookUpRow, SyncInv
<1>3. PICK entry \in x.pending :
         sync' = [sync EXCEPT ![s].pc = "write", ![s].row = entry,
                              ![s].found = Present(x.entity, entry[1]), ![s].pending = @ \ {entry}]
   BY <1>1 DEF LookUpRow
<1>4. PICK found \in BOOLEAN : found = Present(x.entity, entry[1])
   <2>1. CASE x.entity = "trailer"
      <3>1. Present(x.entity, entry[1]) = (entry[1] \in trailers)
         BY <2>1, Zenon DEF Present
      <3>2. (entry[1] \in trailers) \in BOOLEAN
         OBVIOUS
      <3>3. QED
         BY <3>1, <3>2, Zenon
   <2>2. CASE x.entity # "trailer"
      <3>1. Present(x.entity, entry[1]) = (units[entry[1]] # Nil)
         BY <2>2, Zenon DEF Present
      <3>2. QED
         BY <3>1
   <2>3. QED
      BY <2>1, <2>2
<1> DEFINE t == [x EXCEPT !.pc = "write", !.row = entry, !.found = found, !.pending = x.pending \ {entry}]
<1>5. sync' = [sync EXCEPT ![s] = t]
   BY <1>1, <1>3, <1>4 DEF SyncInv
<1>6. /\ t \in SyncRecords /\ t.pc = "write" /\ t.entity = x.entity /\ t.row = entry
      /\ t.pending = x.pending \ {entry}
   BY <1>1, <1>3, <1>4 DEF SyncRecords
<1> HIDE DEF t
<1>7. SyncFits(t)
   BY <1>1, <1>6 DEF SyncFits
<1>8. QED
   BY <1>2, <1>5, <1>6, <1>7, SyncReplaced, SyncInvFrom

LEMMA AfterRowEffect ==
   ASSUME SyncInv, NEW s \in Syncs, sync[s].pc = "write", AfterRow(s)
   PROVE  sync' \in [Syncs -> SyncRecords] /\ \A z \in Syncs : SyncFits(sync'[z])
<1>1. PICK x \in SyncRecords : x = sync[s] /\ SyncFits(x) /\ x.pc = "write"
   BY SyncRun
<1>2. CASE x.pending = {}
   <2>1. x.failed \in BOOLEAN /\ NextEntity(s, x.failed)
      BY <1>1, <1>2 DEF AfterRow, SyncRecords
   <2>2. QED
      BY <2>1, NextEntityEffect
<1>3. CASE x.pending # {}
   <2> DEFINE t == [x EXCEPT !.pc = "look", !.row = <<Nil, Nil>>, !.found = FALSE]
   <2>1. sync' = [sync EXCEPT ![s] = t]
      BY <1>1, <1>3 DEF AfterRow, SyncInv
   <2>2. t \in SyncRecords /\ t.pc = "look" /\ t.entity = x.entity /\ t.pending = x.pending
      BY <1>1 DEF SyncRecords
   <2> HIDE DEF t
   <2>3. SyncFits(t)
      BY <1>1, <2>2 DEF SyncFits
   <2>4. QED
      BY <2>1, <2>2, <2>3, SyncReplaced
<1>4. QED
   BY <1>2, <1>3

\* A row merged with one that has a start has one.
LEMMA MergedStarts ==
   ASSUME NEW id, NEW fields \in Feed, units[id] = Nil => Given(fields.start),
          units[id] # Nil => Given(units[id].start)
   PROVE  Given(Merged(id, fields).start)
<1>1. "start" \in DOMAIN fields
   BY FeedAssumption
<1> DEFINE kept == [f \in DOMAIN fields |-> IF Given(fields[f]) \/ units[id] = Nil THEN fields[f] ELSE units[id][f]]
<1>2. Merged(id, fields).start = kept["start"]
   BY <1>1 DEF Merged
<1>3. kept["start"] = IF Given(fields.start) \/ units[id] = Nil THEN fields.start ELSE units[id].start
   BY <1>1
<1>4. QED
   BY <1>2, <1>3

LEMMA UpsertStep ==
   ASSUME SyncInv, NEW s \in Syncs, UpsertRow(s)
   PROVE  SyncInv'
<1>1. PICK x \in SyncRecords : x = sync[s] /\ SyncFits(x) /\ x.pc = "write"
   BY SyncRun DEF UpsertRow, SyncAt
<1>2. sync' \in [Syncs -> SyncRecords] /\ \A z \in Syncs : SyncFits(sync'[z])
   BY <1>1, AfterRowEffect DEF UpsertRow
<1>3. connection' \in [status : {"active", "error"}, synced : BOOLEAN]
   BY DEF UpsertRow, SyncInv
<1>4. CASE x.entity = "trailer"
   <2>1. UNCHANGED units
      BY <1>1, <1>4 DEF UpsertRow
   <2>2. QED
      BY <1>2, <1>3, <2>1, SyncInvFrom
<1>5. CASE x.entity # "trailer"
   <2>1. x.row \in UnitRows
      BY <1>1, <1>5 DEF SyncFits, SyncRecords
   <2>2. PICK id \in UnitIds, fields \in Feed : x.row[1] = id /\ x.row[2] = fields
      BY <2>1 DEF UnitRows
   <2>3. units' = IF units[id] = Nil /\ ~Given(fields.start) THEN units
                  ELSE [units EXCEPT ![id] = Merged(id, fields)]
      BY <1>1, <1>5, <2>2 DEF UpsertRow
   <2>4. CASE units[id] = Nil /\ ~Given(fields.start)
      <3>1. UNCHANGED units
         BY <2>3, <2>4
      <3>2. QED
         BY <1>2, <1>3, <3>1, SyncInvFrom
   <2>5. CASE ~(units[id] = Nil /\ ~Given(fields.start))
      <3>1. PICK unit : unit = Merged(id, fields) /\ Given(unit.start)
         BY <2>2, <2>5, MergedStarts DEF SyncInv, UnitsStarted
      <3>2. units' = [units EXCEPT ![id] = unit]
         BY <2>3, <2>5, <3>1
      <3>3. DOMAIN units' = UnitIds /\ \A u \in UnitIds : units'[u] # Nil => Given(units'[u].start)
         BY <3>1, <3>2 DEF SyncInv, UnitsStarted
      <3>4. \A z : SyncFits(sync[z])' <=> SyncFits(sync'[z])
         BY DEF SyncFits
      <3>5. QED
         BY <1>2, <1>3, <3>3, <3>4 DEF SyncInv, UnitsStarted
   <2>6. QED
      BY <2>4, <2>5
<1>6. QED
   BY <1>4, <1>5

LEMMA SyncStep == SyncInv /\ [TmsNext]_tmsVars => SyncInv'
<1> SUFFICES ASSUME SyncInv, [TmsNext]_tmsVars
             PROVE  SyncInv'
   OBVIOUS
<1>1. ASSUME NEW s \in Syncs, Synchronise(s)
      PROVE  SyncInv'
   <2>1. CASE SyncBreaks(s)
      <3>1. connection' \in [status : {"active", "error"}, synced : BOOLEAN] /\ UNCHANGED units
         BY <2>1 DEF SyncBreaks, SyncInv
      <3>2. QED
         BY <2>1, <3>1, SyncOverEffect, SyncInvFrom DEF SyncBreaks
   <2>2. CASE FinishSync(s)
      <3>1. connection' \in [status : {"active", "error"}, synced : BOOLEAN] /\ UNCHANGED units
         BY <2>2 DEF FinishSync
      <3>2. QED
         BY <2>2, <3>1, SyncOverEffect, SyncInvFrom DEF FinishSync
   <2>3. QED
      BY <1>1, <2>1, <2>2, ResolveStep, SelectStep, LookStep, UpsertStep DEF Synchronise
<1>2. CASE UNCHANGED tmsVars
   <2>1. UNCHANGED <<connection, sync, units>>
      BY <1>2 DEF tmsVars
   <2>2. \A s : SyncFits(sync[s])' <=> SyncFits(sync[s])
      BY <2>1 DEF SyncFits
   <2>3. QED
      BY <2>1, <2>2 DEF SyncInv, UnitsStarted
<1>3. QED
   BY <1>1, <1>2 DEF TmsNext
-----------------------------------------------------------------------------
(* The steps of an incident's run.                                         *)

TaskRecords == [pc : TaskPcs, snapshot : Nat]

TaskBecomes(i, pc, snapshot) ==
   /\ task' \in [Cases -> TaskRecords]
   /\ task'[i].pc = pc /\ task'[i].snapshot = snapshot
   /\ \A j \in Cases : j # i => task'[j] = task[j]

LEMMA TaskToEffect ==
   ASSUME HistoryTyped, NEW i \in Cases, NEW pc \in TaskPcs, TaskTo(i, pc)
   PROVE  TaskBecomes(i, pc, task[i].snapshot)
<1>1. PICK x \in TaskRecords : x = task[i]
   BY DEF HistoryTyped, TaskRecords
<1> DEFINE t == [x EXCEPT !.pc = pc]
<1>2. task' = [task EXCEPT ![i] = t]
   BY <1>1 DEF TaskTo, HistoryTyped
<1>3. t \in TaskRecords /\ t.pc = pc /\ t.snapshot = x.snapshot
   BY <1>1 DEF TaskRecords
<1> HIDE DEF t
<1>4. task \in [Cases -> TaskRecords]
   BY DEF HistoryTyped, TaskRecords
<1>5. QED
   BY <1>1, <1>2, <1>3, <1>4 DEF TaskBecomes

LEMMA TaskSetEffect ==
   ASSUME HistoryTyped, NEW i \in Cases, NEW pc \in TaskPcs, NEW snapshot \in Nat,
          task' = [task EXCEPT ![i] = [pc |-> pc, snapshot |-> snapshot]]
   PROVE  TaskBecomes(i, pc, snapshot)
<1> DEFINE t == [pc |-> pc, snapshot |-> snapshot]
<1>1. t \in TaskRecords /\ t.pc = pc /\ t.snapshot = snapshot
   BY DEF TaskRecords
<1> HIDE DEF t
<1>2. task \in [Cases -> TaskRecords] /\ task' = [task EXCEPT ![i] = t]
   BY DEF HistoryTyped, TaskRecords, t
<1>3. QED
   BY <1>1, <1>2 DEF TaskBecomes

LEMMA IdleOver ==
   /\ TaskIdle = [pc |-> "queued", snapshot |-> 0]
   /\ TaskOver = [pc |-> "over", snapshot |-> 0]
   /\ [TaskIdle EXCEPT !.pc = "none"] = [pc |-> "none", snapshot |-> 0]
BY DEF TaskIdle, TaskOver

LEMMA CaseFacts ==
   ASSUME HistoryTyped, NEW i \in Cases
   PROVE  /\ task[i].pc \in TaskPcs /\ task[i].snapshot \in Nat
          /\ task[i].pc \in Pulling => task[i].snapshot \in 1..Len(pulls)
BY DEF HistoryTyped

\* A step that pulls, stores and matches nothing.
LEMMA TypedQuiet ==
   ASSUME HistoryTyped, UNCHANGED <<scope, link, pulls, inspections, stored, basis>>, NEW i \in Cases,
          NEW pc \in TaskPcs, NEW snapshot \in Nat, TaskBecomes(i, pc, snapshot),
          pc \in Pulling => snapshot \in 1..Len(pulls), cache' \in {0, cache}, losses' \in {losses, losses + 1},
          capture' \in [Cases -> {"none", "queued", "running", "succeeded", "failed"}],
          evidence' \in [Cases -> {"none", "in_progress", "fulfilled", "failed"}], told' \subseteq Cases
   PROVE  HistoryTyped'
<1>1. PullRecords' = PullRecords
   BY DEF PullRecords
<1>2. losses' \in Nat /\ cache' \in 0..Len(pulls')
   BY DEF HistoryTyped
<1>3. \A j \in Cases : task'[j].pc \in Pulling => task'[j].snapshot \in 1..Len(pulls')
   BY DEF HistoryTyped, TaskBecomes
<1>4. task' \in [Cases -> [pc : TaskPcs, snapshot : Nat]]
   BY DEF TaskBecomes, TaskRecords
<1>5. QED
   BY <1>1, <1>2, <1>3, <1>4 DEF HistoryTyped

LEMMA KeptQuiet ==
   ASSUME KeptInv, UNCHANGED <<pulls, inspections, stored, basis>>
   PROVE  KeptInv'
<1>1. \A kept, at, r, found : PulledAs(kept, at, r, found)' <=> PulledAs(kept, at, r, found)
   BY DEF PulledAs
<1>2. StoredKept'
   BY <1>1 DEF KeptInv, StoredKept
<1>3. \A b : BasisKept(b)' <=> BasisKept(b)
   BY <1>1 DEF BasisKept
<1>4. \A i \in Cases : BasisKept(basis[i])'
   <2>1. ASSUME NEW i \in Cases
         PROVE  BasisKept(basis[i])'
      <3>1. PICK b : b = basis[i] /\ b = basis'[i]
         OBVIOUS
      <3>2. BasisKept(b)'
         BY <1>3, <3>1 DEF KeptInv
      <3>3. QED
         BY <3>1, <3>2 DEF BasisKept, PulledAs
   <2>2. QED
      BY <2>1
<1>5. QED
   BY <1>2, <1>4 DEF KeptInv

\* The brief, one run at a time.
Defensible(b, l) ==
   \A r \in Reports :
      LET used == b.inspections[r]
          able == {u \in b.units : used # Nil /\ Explains(used, u)}
      IN IF able = {} THEN l[r] = NoMatch
         ELSE /\ \E u \in able : l[r] = Match(used, u)
              /\ \A u \in able : Rank(Match(used, u).confidence) =< Rank(l[r].confidence)

LEMMA BriefSays == BriefIsDefensible <=> \A i \in Cases : Defensible(basis[i], link[i])
BY Zenon DEF BriefIsDefensible, Defensible

LEMMA BriefSaysNext == BriefIsDefensible' <=> \A i \in Cases : Defensible(basis'[i], link'[i])
BY Zenon DEF BriefIsDefensible, Defensible

LEMMA BriefQuiet ==
   ASSUME BriefIsDefensible, UNCHANGED <<link, basis>>
   PROVE  BriefIsDefensible'
BY BriefSays, BriefSaysNext

\* A run that was lost stays so.
LEMMA LossStays ==
   ASSUME lostRuns \subseteq lostRuns', NEW x
   PROVE  (WasLost(x) => WasLost(x)') /\ (LeftUnstored(x) => LeftUnstored(x)')
BY DEF WasLost, LeftUnstored

\* What the records of the other incidents say stays so.
LEMMA ToldStep ==
   ASSUME ToldInv, NEW i \in Cases, Told(i)', lostRuns \subseteq lostRuns',
          \A j \in Cases : j # i => /\ task'[j] = task[j] /\ capture'[j] = capture[j] /\ evidence'[j] = evidence[j]
                                    /\ (j \in told' <=> j \in told) /\ basis'[j] = basis[j]
   PROVE  ToldInv'
<1>1. NoBasis' = NoBasis
   BY DEF NoBasis
<1>2. ASSUME NEW j \in Cases, j # i
      PROVE  Told(j)'
   BY <1>1, <1>2, LossStays DEF ToldInv, Told
<1>3. QED
   BY <1>2 DEF ToldInv

LEMMA ReliedStays ==
   ASSUME lostRuns \subseteq lostRuns', NEW i, basis'[i] = basis[i], Relied(i)
   PROVE  Relied(i)'
BY LossStays DEF Relied

\* A step of one run that stores nothing, unless the run is lost on the way.
LEMMA AccountedStays ==
   ASSUME AccountInv, UNCHANGED <<pulls, stored>>, lostRuns \subseteq lostRuns', NEW i \in Cases,
          task[i].pc # "store" \/ (\E l \in lostRuns' : l[2] = task[i].snapshot), \A j \in Cases : j # i => task'[j] = task[j],
          NEW s \in 1..Len(pulls')
   PROVE  Accounted(s)'
<1>1. Accounted(s)
   BY DEF AccountInv
<1>2. CASE Contains(stored, s) \/ LeftUnstored(s)
   BY <1>2, LossStays DEF Accounted
<1>3. CASE \E j \in Cases : Stores(j, s)
   <2>1. PICK j \in Cases : Stores(j, s)
      BY <1>3
   <2>2. CASE j = i
      <3>1. \E l \in lostRuns' : l[2] = s
         BY <2>1, <2>2 DEF Stores
      <3>2. QED
         BY <3>1 DEF Accounted, LeftUnstored
   <2>3. CASE j # i
      BY <2>1, <2>3 DEF Stores, Accounted
   <2>4. QED
      BY <2>2, <2>3
<1>4. QED
   BY <1>1, <1>2, <1>3 DEF Accounted

LEMMA AccountStep ==
   ASSUME AccountInv, lostRuns \subseteq lostRuns', NEW i \in Cases, Vouched(i)',
          \A s \in 1..Len(pulls') : Accounted(s)',
          \A j \in Cases : j # i => task'[j] = task[j] /\ (j \in told' <=> j \in told) /\ basis'[j] = basis[j]
   PROVE  AccountInv'
<1>1. ASSUME NEW j \in Cases, j # i
      PROVE  Vouched(j)'
   <2>1. Vouched(j)
      BY DEF AccountInv
   <2>2. QED
      BY <1>1, <2>1, ReliedStays DEF Vouched, Answering
<1>2. QED
   BY <1>1 DEF AccountInv
-----------------------------------------------------------------------------
(* Steps of a run that pull, store and match nothing.                      *)

HistoryCore == HistoryTyped /\ KeptInv /\ BriefIsDefensible /\ AccountInv /\ ToldInv

\* The records of the other incidents stay as they are.
OthersKeep(i) ==
   \A j \in Cases : j # i => capture'[j] = capture[j] /\ evidence'[j] = evidence[j] /\ (j \in told' <=> j \in told)

RecordsFit ==
   /\ capture' \in [Cases -> {"none", "queued", "running", "succeeded", "failed"}]
   /\ evidence' \in [Cases -> {"none", "in_progress", "fulfilled", "failed"}]
   /\ told' \subseteq Cases

LEMMA RunQuiet ==
   ASSUME HistoryCore, UNCHANGED <<scope, link, pulls, inspections, stored, basis>>, NEW i \in Cases,
          task[i].pc # "none", NEW pc \in TaskPcs, NEW snapshot \in Nat, TaskBecomes(i, pc, snapshot),
          pc \in Pulling => snapshot \in 1..Len(pulls), cache' \in {0, cache}, losses' \in {losses, losses + 1},
          RecordsFit, OthersKeep(i), Told(i)', Vouched(i)', lostRuns \subseteq lostRuns',
          task[i].pc # "store" \/ \E l \in lostRuns' : l[2] = task[i].snapshot
   PROVE  HistoryCore'
<1>1. HistoryTyped'
   BY TypedQuiet DEF HistoryCore, RecordsFit
<1>2. KeptInv' /\ BriefIsDefensible'
   BY KeptQuiet, BriefQuiet DEF HistoryCore
<1>3. \A j \in Cases : j # i => /\ task'[j] = task[j] /\ capture'[j] = capture[j] /\ evidence'[j] = evidence[j]
                                /\ (j \in told' <=> j \in told) /\ basis'[j] = basis[j]
   BY DEF TaskBecomes, OthersKeep
<1>4. \A s \in 1..Len(pulls') : Accounted(s)'
   BY <1>3, AccountedStays DEF HistoryCore
<1>5. ToldInv'
   BY <1>3, ToldStep DEF HistoryCore
<1>6. AccountInv'
   BY <1>3, <1>4, AccountStep DEF HistoryCore
<1>7. QED
   BY <1>1, <1>2, <1>5, <1>6 DEF HistoryCore

LEMMA CaptureFacts ==
   ASSUME HistoryCore, NEW i \in Cases
   PROVE  /\ task[i].pc \in TaskPcs /\ task[i].snapshot \in Nat
          /\ task[i].pc \in Pulling => task[i].snapshot \in 1..Len(pulls)
          /\ Told(i) /\ Vouched(i) /\ losses \in Nat /\ cache \in 0..Len(pulls) /\ Len(pulls) \in Nat
<1>1. Told(i) /\ Vouched(i)
   BY DEF HistoryCore, ToldInv, AccountInv
<1>2. losses \in Nat /\ cache \in 0..Len(pulls) /\ Len(pulls) \in Nat
   BY DEF HistoryCore, HistoryTyped
<1>3. QED
   BY <1>1, <1>2, CaseFacts DEF HistoryCore

LEMMA RecordsStand ==
   ASSUME HistoryCore, UNCHANGED <<capture, evidence, told>>
   PROVE  RecordsFit /\ \A i : OthersKeep(i)
BY DEF HistoryCore, HistoryTyped, RecordsFit, OthersKeep

LEMMA ReliedStands ==
   ASSUME UNCHANGED <<basis, lostRuns>>, NEW i
   PROVE  Relied(i)' <=> Relied(i)
BY DEF Relied, LeftUnstored

LEMMA AccountsStand ==
   ASSUME AccountInv, UNCHANGED <<task, told, pulls, stored, basis, lostRuns>>
   PROVE  AccountInv'
BY DEF AccountInv, Accounted, Stores, Vouched, Relied, LeftUnstored

LEMMA BeginStep ==
   ASSUME HistoryCore, UNCHANGED scope, NEW i \in Cases, BeginCapture(i)
   PROVE  HistoryCore'
<1>1. TaskBecomes(i, "cached", task[i].snapshot)
   BY TaskToEffect DEF BeginCapture, HistoryCore, TaskPcs
<1>2. task[i].pc = "queued"
   BY DEF BeginCapture, TaskAt
<1>3. RecordsFit /\ OthersKeep(i) /\ capture'[i] = "running"
   BY DEF BeginCapture, HistoryCore, HistoryTyped, RecordsFit, OthersKeep
<1>4. Told(i)'
   BY <1>1, <1>2, <1>3, CaptureFacts DEF BeginCapture, Told, TaskBecomes, Answering, NoBasis, WasLost
<1>5. Vouched(i)'
   BY <1>1, <1>2, CaptureFacts, ReliedStands DEF BeginCapture, Vouched, TaskBecomes, Answering
<1>6. QED
   BY <1>1, <1>2, <1>3, <1>4, <1>5, RunQuiet, CaptureFacts DEF BeginCapture, TaskPcs, Pulling

LEMMA UseStep ==
   ASSUME HistoryCore, UNCHANGED scope, NEW i \in Cases, UseCache(i)
   PROVE  HistoryCore'
<1>1. task[i].pc = "cached" /\ cache \in 1..Len(pulls) /\ cache \in Nat
   BY CaptureFacts DEF UseCache, TaskAt
<1>2. TaskBecomes(i, "match", cache)
   BY <1>1, TaskSetEffect DEF UseCache, HistoryCore, TaskPcs
<1>3. RecordsFit /\ OthersKeep(i)
   BY RecordsStand DEF UseCache
<1>4. Told(i)'
   BY <1>1, <1>2, CaptureFacts DEF UseCache, Told, TaskBecomes, Answering, NoBasis, WasLost
<1>5. Vouched(i)'
   BY <1>1, <1>2, CaptureFacts, ReliedStands DEF UseCache, Vouched, TaskBecomes, Answering
<1>6. QED
   BY <1>1, <1>2, <1>3, <1>4, <1>5, RunQuiet DEF UseCache, TaskPcs

LEMMA FailsStep ==
   ASSUME HistoryCore, UNCHANGED scope, NEW i \in Cases, PullFails(i)
   PROVE  HistoryCore'
<1>1. TaskBecomes(i, "failed", task[i].snapshot)
   BY TaskToEffect DEF PullFails, HistoryCore, TaskPcs
<1>2. task[i].pc = "cached"
   BY DEF PullFails, TaskAt
<1>3. RecordsFit /\ OthersKeep(i)
   BY RecordsStand DEF PullFails
<1>4. Told(i)'
   BY <1>1, <1>2, CaptureFacts DEF PullFails, Told, TaskBecomes, Answering, NoBasis, WasLost
<1>5. Vouched(i)'
   BY <1>1, <1>2, CaptureFacts, ReliedStands DEF PullFails, Vouched, TaskBecomes, Answering
<1>6. QED
   BY <1>1, <1>2, <1>3, <1>4, <1>5, RunQuiet, CaptureFacts DEF PullFails, TaskPcs, Pulling

LEMMA TellStep ==
   ASSUME HistoryCore, UNCHANGED scope, NEW i \in Cases, TellCaptured(i)
   PROVE  HistoryCore'
<1>1. TaskBecomes(i, "fulfil", task[i].snapshot)
   BY TaskToEffect DEF TellCaptured, HistoryCore, TaskPcs
<1>2. task[i].pc = "tell"
   BY DEF TellCaptured, TaskAt
<1>3. RecordsFit /\ OthersKeep(i) /\ i \in told'
   BY DEF TellCaptured, HistoryCore, HistoryTyped, RecordsFit, OthersKeep
<1>4. Told(i)'
   BY <1>1, <1>2, <1>3, CaptureFacts DEF TellCaptured, Told, TaskBecomes, Answering, NoBasis, WasLost
<1>5. Vouched(i)'
   BY <1>1, <1>2, CaptureFacts, ReliedStands DEF TellCaptured, Vouched, TaskBecomes, Answering
<1>6. QED
   BY <1>1, <1>2, <1>3, <1>4, <1>5, RunQuiet, CaptureFacts DEF TellCaptured, TaskPcs, Pulling

LEMMA SettleEvidenceStep ==
   ASSUME HistoryCore, UNCHANGED scope, NEW i \in Cases, SettleEvidence(i)
   PROVE  HistoryCore'
<1>1. PICK pc \in {"succeed", "fail"} : pc = IF TaskAt(i, "fulfil") THEN "succeed" ELSE "fail"
   OBVIOUS
<1>2. TaskBecomes(i, pc, task[i].snapshot)
   BY <1>1, TaskToEffect DEF SettleEvidence, HistoryCore, TaskPcs
<1>3. /\ pc = "succeed" => task[i].pc = "fulfil"
      /\ pc = "fail" => task[i].pc = "failed"
   BY <1>1 DEF SettleEvidence, TaskAt
<1>4. RecordsFit /\ OthersKeep(i) /\ evidence'[i] = IF pc = "succeed" THEN "fulfilled" ELSE "failed"
   BY <1>1 DEF SettleEvidence, HistoryCore, HistoryTyped, RecordsFit, OthersKeep
<1>5. Told(i)'
   <2>1. UNCHANGED <<capture, told, basis, lostRuns, losses>> /\ Told(i)
      BY CaptureFacts DEF SettleEvidence
   <2>2. CASE pc = "succeed"
      BY <1>2, <1>3, <1>4, <2>1, <2>2 DEF Told, TaskBecomes, Answering, NoBasis, WasLost
   <2>3. CASE pc = "fail"
      BY <1>2, <1>3, <1>4, <2>1, <2>3 DEF Told, TaskBecomes, Answering, NoBasis, WasLost
   <2>4. QED
      BY <1>1, <2>2, <2>3
<1>6. Vouched(i)'
   BY <1>2, <1>3, CaptureFacts, ReliedStands DEF SettleEvidence, Vouched, TaskBecomes, Answering
<1>7. pc \in Pulling => task[i].snapshot \in 1..Len(pulls)
   BY <1>3, CaptureFacts DEF Pulling
<1>8. QED
   BY <1>2, <1>3, <1>4, <1>5, <1>6, <1>7, RunQuiet, CaptureFacts DEF SettleEvidence, TaskPcs

LEMMA EndCaptureStep ==
   ASSUME HistoryCore, UNCHANGED scope, NEW i \in Cases, EndCapture(i)
   PROVE  HistoryCore'
<1>1. TaskBecomes(i, "over", 0)
   BY TaskSetEffect, IdleOver DEF EndCapture, HistoryCore, TaskPcs
<1>2. task[i].pc \in {"succeed", "fail"}
   BY DEF EndCapture
<1>3. RecordsFit /\ OthersKeep(i) /\ capture'[i] = IF task[i].pc = "succeed" THEN "succeeded" ELSE "failed"
   BY DEF EndCapture, TaskAt, HistoryCore, HistoryTyped, RecordsFit, OthersKeep
<1>4. Told(i)'
   <2>1. UNCHANGED <<evidence, told, basis, lostRuns, losses>> /\ Told(i)
      BY CaptureFacts DEF EndCapture
   <2>2. CASE task[i].pc = "succeed"
      BY <1>1, <1>3, <2>1, <2>2 DEF Told, TaskBecomes, Answering, NoBasis, WasLost
   <2>3. CASE task[i].pc = "fail"
      BY <1>1, <1>3, <2>1, <2>3 DEF Told, TaskBecomes, Answering, NoBasis, WasLost
   <2>4. QED
      BY <1>2, <2>2, <2>3
<1>5. Vouched(i)'
   BY <1>1, <1>2, CaptureFacts, ReliedStands DEF EndCapture, Vouched, TaskBecomes, Answering
<1>6. QED
   BY <1>1, <1>2, <1>3, <1>4, <1>5, RunQuiet DEF EndCapture, TaskPcs, Pulling

LEMMA CaptureLostStep ==
   ASSUME HistoryCore, UNCHANGED scope, NEW i \in Cases, CaptureLost(i)
   PROVE  HistoryCore'
<1>1. TaskBecomes(i, "queued", 0)
   BY TaskSetEffect, IdleOver DEF CaptureLost, HistoryCore, TaskPcs
<1>2. task[i].pc \notin {"none", "over"} /\ losses' = losses + 1
   BY DEF CaptureLost
<1>3. RecordsFit /\ OthersKeep(i)
   BY RecordsStand DEF CaptureLost
<1>4. lostRuns \subseteq lostRuns' /\ WasLost(i)' /\ (task[i].pc = "store" => \E l \in lostRuns' : l[2] = task[i].snapshot)
   <2>1. PICK l : l = <<i, IF task[i].pc = "store" THEN task[i].snapshot ELSE 0>>
      OBVIOUS
   <2>2. lostRuns' = lostRuns \cup {l}
      BY <2>1 DEF CaptureLost, TaskAt
   <2>3. l[1] = i /\ (task[i].pc = "store" => l[2] = task[i].snapshot)
      BY <2>1
   <2>4. WasLost(i)'
      BY <2>2, <2>3 DEF WasLost
   <2>5. QED
      BY <2>2, <2>3, <2>4
<1>5. Told(i)'
   BY <1>1, <1>2, <1>4, CaptureFacts DEF CaptureLost, Told, TaskBecomes, Answering
<1>6. Vouched(i)'
   BY <1>1, <1>2, <1>4, CaptureFacts, ReliedStays DEF CaptureLost, Vouched, TaskBecomes, Answering
<1>7. "queued" \in TaskPcs /\ "queued" \notin Pulling /\ 0 \in Nat
   BY DEF TaskPcs, Pulling
<1>8. QED
   BY <1>1, <1>2, <1>3, <1>4, <1>5, <1>6, <1>7, RunQuiet DEF CaptureLost

\* The cache's own steps.
LEMMA CacheStep ==
   ASSUME HistoryCore, UNCHANGED scope, RefreshCarrier \/ WarmCache \/ CacheExpires
   PROVE  HistoryCore'
<1>1. UNCHANGED <<task, capture, evidence, link, told, pulls, inspections, stored, basis, lostRuns, losses>> /\ cache' \in {0, cache}
   BY DEF RefreshCarrier, WarmCache, CacheExpires
<1>2. HistoryTyped'
   <2>1. PullRecords' = PullRecords
      BY DEF PullRecords
   <2>2. QED
      BY <1>1, <2>1 DEF HistoryCore, HistoryTyped
<1>3. KeptInv' /\ BriefIsDefensible'
   BY <1>1, KeptQuiet, BriefQuiet DEF HistoryCore
<1>4. ToldInv'
   BY <1>1 DEF HistoryCore, ToldInv, Told, NoBasis, WasLost
<1>5. AccountInv'
   BY <1>1, AccountsStand DEF HistoryCore
<1>6. QED
   BY <1>2, <1>3, <1>4, <1>5 DEF HistoryCore
-----------------------------------------------------------------------------
(* A pull and the storing of what it brought.                              *)

\* A further pull leaves what was kept of the earlier ones.
LEMMA PulledStays ==
   ASSUME HistoryTyped, NEW answer \in PullRecords, pulls' = Append(pulls, answer), NEW kept \in Seq(Nat),
          \A at \in 1..Len(kept) : kept[at] \in 1..Len(pulls)
   PROVE  /\ \A at \in 1..Len(kept) : kept[at] \in 1..Len(pulls')
          /\ \A at \in 1..Len(kept) : pulls'[kept[at]] = pulls[kept[at]]
          /\ \A at \in 1..Len(kept) : \A r, found : PulledAs(kept, at, r, found) => PulledAs(kept, at, r, found)'
<1>1. pulls \in Seq(PullRecords) /\ Len(pulls) \in Nat /\ Len(kept) \in Nat
   BY DEF HistoryTyped
<1>2. Len(pulls') = Len(pulls) + 1 /\ \A k \in 1..Len(pulls) : pulls'[k] = pulls[k]
   BY <1>1
<1>3. \A at \in 1..Len(kept) : kept[at] \in 1..Len(pulls') /\ pulls'[kept[at]] = pulls[kept[at]]
   BY <1>1, <1>2
<1>4. ASSUME NEW at \in 1..Len(kept), NEW r, NEW found, PulledAs(kept, at, r, found)
      PROVE  PulledAs(kept, at, r, found)'
   <2>1. PICK later \in at..Len(kept) : found = pulls[kept[later]][r]
      BY <1>4 DEF PulledAs
   <2>2. later \in 1..Len(kept)
      BY <1>1
   <2>3. found = pulls'[kept[later]][r]
      BY <1>3, <2>1, <2>2
   <2>4. QED
      BY <2>3 DEF PulledAs
<1>5. QED
   BY <1>3, <1>4

LEMMA BasisAt ==
   ASSUME NEW b, NEW i, basis'[i] = b, BasisKept(b)'
   PROVE  BasisKept(basis[i])'
<1>1. \A kept, at, r, found : PulledAs(kept, at, r, found)' <=> \E later \in at..Len(kept) : found = pulls'[kept[later]][r]
   BY DEF PulledAs
<1>2. /\ b.stored \in Seq(Nat) /\ \A at \in 1..Len(b.stored) : b.stored[at] \in 1..Len(pulls')
      /\ b.promised \subseteq Reports
      /\ \A at \in 1..Len(b.stored) : b.stored[at] = b.snapshot =>
            \A r \in b.promised : \E later \in at..Len(b.stored) : b.inspections[r] = pulls'[b.stored[later]][r]
   BY <1>1 DEF BasisKept
<1>3. /\ basis'[i].stored \in Seq(Nat) /\ \A at \in 1..Len(basis'[i].stored) : basis'[i].stored[at] \in 1..Len(pulls')
      /\ basis'[i].promised \subseteq Reports
      /\ \A at \in 1..Len(basis'[i].stored) : basis'[i].stored[at] = basis'[i].snapshot =>
            \A r \in basis'[i].promised :
               \E later \in at..Len(basis'[i].stored) : basis'[i].inspections[r] = pulls'[basis'[i].stored[later]][r]
   BY <1>2, Zenon
<1>4. QED
   BY <1>3, Zenon DEF BasisKept, PulledAs

LEMMA KeptGrows ==
   ASSUME HistoryTyped, KeptInv, NEW answer \in PullRecords, pulls' = Append(pulls, answer),
          UNCHANGED <<inspections, stored, basis>>
   PROVE  KeptInv'
<1>1. StoredKept'
   <2>1. stored \in Seq(Nat) /\ \A at \in 1..Len(stored) : stored[at] \in 1..Len(pulls)
      BY DEF HistoryTyped
   <2>2. ASSUME NEW at \in 1..Len(stored), NEW r \in Reports, pulls'[stored[at]][r] # Nil
         PROVE  \E later \in at..Len(stored) : inspections[r] = pulls'[stored[later]][r]
      <3>1. PulledAs(stored, at, r, inspections[r])
         BY <2>1, <2>2, PulledStays DEF KeptInv, StoredKept
      <3>2. PICK s, found : s = stored /\ found = inspections[r]
         OBVIOUS
      <3>3. PulledAs(s, at, r, found)'
         BY <2>1, <3>1, <3>2, PulledStays
      <3>4. QED
         BY <3>2, <3>3 DEF PulledAs
   <2>3. QED
      BY <2>2 DEF StoredKept, PulledAs
<1>2. ASSUME NEW i \in Cases
      PROVE  BasisKept(basis[i])'
   <2>1. PICK b : b = basis[i] /\ b = basis'[i] /\ BasisKept(b)
      BY DEF KeptInv
   <2>2. BasisKept(b)'
      <3>1. b.stored \in Seq(Nat) /\ \A at \in 1..Len(b.stored) : b.stored[at] \in 1..Len(pulls)
         BY <2>1 DEF BasisKept
      <3>2. \A at \in 1..Len(b.stored) : b.stored[at] \in 1..Len(pulls')
         BY <3>1, PulledStays
      <3>3. \A at \in 1..Len(b.stored) : b.stored[at] = b.snapshot =>
               \A r \in b.promised : PulledAs(b.stored, at, r, b.inspections[r])'
         BY <2>1, <3>1, PulledStays DEF BasisKept
      <3>4. QED
         BY <2>1, <3>1, <3>2, <3>3 DEF BasisKept
   <2>3. basis'[i] = b
      BY <2>1
   <2>4. QED
      BY <2>2, <2>3, BasisAt
<1>3. QED
   BY <1>1, <1>2 DEF KeptInv

LEMMA PullStep ==
   ASSUME HistoryCore, UNCHANGED scope, NEW i \in Cases, PullInspections(i)
   PROVE  HistoryCore'
<1>1. PICK answer \in PullRecords : pulls' = Append(pulls, answer)
   BY DEF PullInspections, PullRecords
<1>2. pulls \in Seq(PullRecords) /\ Len(pulls) \in Nat
   BY DEF HistoryCore, HistoryTyped
<1>3. /\ pulls' \in Seq(PullRecords) /\ Len(pulls') = Len(pulls) + 1 /\ PullRecords' = PullRecords
      /\ Len(pulls) + 1 \in 1..Len(pulls') /\ Len(pulls) + 1 \in Nat
      /\ \A k \in 1..Len(pulls) : k \in 1..Len(pulls')
   BY <1>1, <1>2 DEF PullRecords
<1>4. TaskBecomes(i, "store", Len(pulls) + 1) /\ task[i].pc = "cached" /\ cache' = Len(pulls) + 1
   BY <1>3, TaskSetEffect DEF PullInspections, HistoryCore, TaskPcs, TaskAt
<1>5. UNCHANGED <<capture, evidence, link, told, inspections, stored, basis, lostRuns, losses>>
   BY DEF PullInspections
<1>6. HistoryTyped'
   <2>1. \A at \in 1..Len(stored') : stored'[at] \in 1..Len(pulls')
      BY <1>3, <1>5 DEF HistoryCore, HistoryTyped
   <2>2. \A j \in Cases : task'[j].pc \in Pulling => task'[j].snapshot \in 1..Len(pulls')
      BY <1>3, <1>4 DEF HistoryCore, HistoryTyped, TaskBecomes
   <2>3. cache' \in 0..Len(pulls')
      BY <1>2, <1>3, <1>4
   <2>4. task' \in [Cases -> [pc : TaskPcs, snapshot : Nat]]
      BY <1>4 DEF TaskBecomes, TaskRecords
   <2>5. QED
      BY <1>3, <1>5, <2>1, <2>2, <2>3, <2>4 DEF HistoryCore, HistoryTyped
<1>7. KeptInv' /\ BriefIsDefensible'
   BY <1>1, <1>5, KeptGrows, BriefQuiet DEF HistoryCore
<1>8. Told(i)'
   BY <1>4, <1>5, CaptureFacts DEF Told, TaskBecomes, Answering, NoBasis, WasLost
<1>9. Vouched(i)'
   BY <1>4, <1>5, CaptureFacts, ReliedStands DEF Vouched, TaskBecomes, Answering
<1>10. ToldInv'
   BY <1>4, <1>5, <1>8, ToldStep DEF HistoryCore, TaskBecomes
<1>11. AccountInv'
   <2>1. ASSUME NEW k \in 1..Len(pulls')
         PROVE  Accounted(k)'
      <3>1. k = Len(pulls) + 1 \/ k \in 1..Len(pulls)
         BY <1>2, <1>3
      <3>2. CASE k = Len(pulls) + 1
         BY <1>4, <3>2 DEF Accounted, Stores, TaskBecomes
      <3>3. CASE k \in 1..Len(pulls)
         <4>1. Accounted(k)
            BY <3>3 DEF HistoryCore, AccountInv
         <4>2. \A j \in Cases : Stores(j, k) => Stores(j, k)'
            BY <1>4 DEF Stores, TaskBecomes
         <4>3. QED
            BY <1>5, <4>1, <4>2 DEF Accounted, LeftUnstored
      <3>4. QED
         BY <3>1, <3>2, <3>3
   <2>2. QED
      BY <1>4, <1>5, <1>9, <2>1, AccountStep DEF HistoryCore, TaskBecomes
<1>12. QED
   BY <1>6, <1>7, <1>10, <1>11 DEF HistoryCore

LEMMA StoreStep ==
   ASSUME HistoryCore, UNCHANGED scope, NEW i \in Cases, StoreInspections(i)
   PROVE  HistoryCore'
<1> DEFINE k == task[i].snapshot
           merged == [r \in Reports |-> IF pulls[k][r] = Nil THEN inspections[r] ELSE pulls[k][r]]
<1>1. inspections' = merged /\ stored' = Append(stored, k) /\ TaskBecomes(i, "match", k) /\ task[i].pc = "store"
   BY TaskToEffect DEF StoreInspections, HistoryCore, TaskPcs, TaskAt
<1>2. UNCHANGED <<capture, evidence, link, told, cache, pulls, basis, lostRuns, losses>>
   BY DEF StoreInspections
<1>3. k \in 1..Len(pulls) /\ k \in Nat
   BY <1>1, CaptureFacts DEF Pulling
<1>4. /\ pulls \in Seq(PullRecords) /\ stored \in Seq(Nat) /\ inspections \in PullRecords
      /\ \A at \in 1..Len(stored) : stored[at] \in 1..Len(pulls)
   BY DEF HistoryCore, HistoryTyped
<1>5. pulls[k] \in PullRecords
   BY <1>3, <1>4
<1>6. \A r \in Reports : merged[r] = IF pulls[k][r] = Nil THEN inspections[r] ELSE pulls[k][r]
   OBVIOUS
<1>7. merged \in PullRecords /\ PullRecords' = PullRecords
   BY <1>4, <1>5 DEF PullRecords
<1> HIDE DEF k, merged
<1>8. /\ stored' \in Seq(Nat) /\ Len(stored') = Len(stored) + 1 /\ stored'[Len(stored) + 1] = k /\ Len(stored) \in Nat
      /\ \A at \in 1..Len(stored) : stored'[at] = stored[at]
   BY <1>1, <1>3, <1>4
<1>9. \A at \in 1..Len(stored') : stored'[at] \in 1..Len(pulls)
   <2>1. \A at \in 1..Len(stored') : at = Len(stored) + 1 \/ at \in 1..Len(stored)
      BY <1>8
   <2>2. QED
      BY <1>3, <1>4, <1>8, <2>1
<1>10. HistoryTyped'
   <2>1. \A j \in Cases : task'[j].pc \in Pulling => task'[j].snapshot \in 1..Len(pulls')
      BY <1>1, <1>2, <1>3 DEF HistoryCore, HistoryTyped, TaskBecomes
   <2>2. task' \in [Cases -> [pc : TaskPcs, snapshot : Nat]]
      BY <1>1 DEF TaskBecomes, TaskRecords
   <2>3. QED
      BY <1>1, <1>2, <1>7, <1>8, <1>9, <2>1, <2>2 DEF HistoryCore, HistoryTyped
<1>11. KeptInv'
   <2>1. ASSUME NEW at \in 1..Len(stored'), NEW r \in Reports, pulls[stored'[at]][r] # Nil
         PROVE  \E later \in at..Len(stored') : inspections'[r] = pulls[stored'[later]][r]
      <3>1. CASE pulls[k][r] # Nil
         <4>1. inspections'[r] = pulls[k][r]
            BY <1>1, <1>6, <3>1
         <4>2. Len(stored') \in at..Len(stored')
            BY <1>8
         <4>3. QED
            BY <1>8, <4>1, <4>2
      <3>2. CASE pulls[k][r] = Nil
         <4>1. inspections'[r] = inspections[r]
            BY <1>1, <1>6, <3>2
         <4>2. at \in 1..Len(stored)
            <5>1. at # Len(stored) + 1
               BY <1>8, <2>1, <3>2
            <5>2. QED
               BY <1>8, <5>1
         <4>3. PulledAs(stored, at, r, inspections[r])
            BY <1>8, <2>1, <4>2 DEF HistoryCore, KeptInv, StoredKept
         <4>4. PICK later \in at..Len(stored) : inspections[r] = pulls[stored[later]][r]
            BY <4>3 DEF PulledAs
         <4>5. later \in at..Len(stored') /\ later \in 1..Len(stored)
            BY <1>8
         <4>6. QED
            BY <1>8, <4>1, <4>4, <4>5
      <3>3. QED
         BY <3>1, <3>2
   <2>2. StoredKept'
      BY <1>2, <2>1 DEF StoredKept, PulledAs
   <2>3. ASSUME NEW j \in Cases
         PROVE  BasisKept(basis[j])'
      <3>1. PICK b : b = basis[j] /\ b = basis'[j] /\ BasisKept(b)
         BY <1>2 DEF HistoryCore, KeptInv
      <3>2. QED
         BY <1>2, <3>1 DEF BasisKept, PulledAs
   <2>4. QED
      BY <2>2, <2>3 DEF KeptInv
<1>12. Told(i)'
   BY <1>1, <1>2, CaptureFacts DEF Told, TaskBecomes, Answering, NoBasis, WasLost
<1>13. Vouched(i)'
   BY <1>1, <1>2, CaptureFacts, ReliedStands DEF Vouched, TaskBecomes, Answering
<1>14. ToldInv'
   BY <1>1, <1>2, <1>12, ToldStep DEF HistoryCore, TaskBecomes
<1>15. AccountInv'
   <2>1. Contains(stored', k) /\ \A x : Contains(stored, x) => Contains(stored', x)
      <3>1. Len(stored) + 1 \in 1..Len(stored') /\ \A at \in 1..Len(stored) : at \in 1..Len(stored')
         BY <1>8
      <3>2. QED
         BY <1>8, <3>1 DEF Contains
   <2>2. ASSUME NEW x \in 1..Len(pulls')
         PROVE  Accounted(x)'
      <3>1. Accounted(x)
         BY <1>2, <2>2 DEF HistoryCore, AccountInv
      <3>2. \A j \in Cases : Stores(j, x) => Stores(j, x)' \/ x = k
         BY <1>1 DEF Stores, TaskBecomes, k
      <3>3. QED
         BY <1>2, <2>1, <3>1, <3>2 DEF Accounted, LeftUnstored
   <2>3. QED
      BY <1>1, <1>2, <1>13, <2>2, AccountStep DEF HistoryCore, TaskBecomes
<1>16. QED
   BY <1>2, <1>10, <1>11, <1>14, <1>15, BriefQuiet DEF HistoryCore
-----------------------------------------------------------------------------
(* What the matcher stores for a run.                                      *)

LEMMA AdmitsExplains ==
   ASSUME NEW inspection, NEW unit
   PROVE  Admits(inspection, unit) <=> Explains(inspection, unit)
BY Zenon DEF Admits, Explains, VehicleMatch

\* An order of a finite set's members has each of them.
LEMMA OrderIsOnto ==
   ASSUME NEW S, IsFiniteSet(S), NEW order \in SetToSeqs(S)
   PROVE  /\ Cardinality(S) \in Nat /\ DOMAIN order = 1..Cardinality(S)
          /\ \A at \in DOMAIN order : order[at] \in S
          /\ \A u \in S : \E at \in DOMAIN order : order[at] = u
<1> DEFINE D == 1..Cardinality(S)
<1>1. Cardinality(S) \in Nat
   BY FS_CardinalityType
<1>2. order \in [D -> S] /\ \A i, j \in D : i # j => order[i] # order[j]
   BY DEF SetToSeqs
<1>3. IsFiniteSet(D) /\ Cardinality(D) = Cardinality(S)
   <2>1. Cardinality(D) = IF 1 > Cardinality(S) THEN 0 ELSE Cardinality(S) - 1 + 1
      BY <1>1, FS_Interval
   <2>2. QED
      BY <1>1, <2>1, FS_Interval
<1> HIDE DEF D
<1>4. order \in Injection(D, S)
   BY <1>2 DEF Injection, IsInjective
<1>5. order \in Surjection(D, S)
   BY <1>3, <1>4, FS_Injection
<1>6. \A u \in S : \E at \in D : order[at] = u
   BY <1>5 DEF Surjection
<1>7. QED
   BY <1>1, <1>2, <1>6 DEF D

LEMMA UnitsFinite == IsFiniteSet(DriversUnits)
<1> DEFINE V == {v \in UnitIds : units[v] # Nil /\ units[v].driver = Driver}
           f == [v \in V |-> units[v]]
<1>1. IsFiniteSet(V)
   BY FeedAssumption, FS_Subset
<1>2. f \in Surjection(V, DriversUnits)
   BY DEF DriversUnits, Surjection
<1> HIDE DEF V, f
<1>3. QED
   BY <1>1, <1>2, FS_Surjection

\* The first of the best, in whatever order the vehicles come.
LEMMA AttributedDefensible ==
   ASSUME NEW S, IsFiniteSet(S), NEW order \in SetToSeqs(S), NEW used, NEW match, match = Attribute(used, order)
   PROVE  LET able == {u \in S : Explains(used, u)}
          IN IF able = {} THEN match = NoMatch
             ELSE /\ \E u \in able : match = Match(used, u)
                  /\ \A u \in able : Rank(Match(used, u).confidence) =< Rank(match.confidence)
<1> DEFINE able == {u \in S : Explains(used, u)}
           at == Able(used, order, DOMAIN order)
<1>1. Chosen(used, order, DOMAIN order, match)
   BY OrderIsOnto, AttributionIsBest
<1>2. \A k \in at : order[k] \in able
   BY OrderIsOnto, AdmitsExplains DEF Able
<1>3. \A u \in able : \E k \in at : order[k] = u
   BY OrderIsOnto, AdmitsExplains DEF Able
<1> HIDE DEF able, at
<1>4. CASE at = {}
   <2>1. match = NoMatch
      BY <1>1, <1>4 DEF Chosen, at
   <2>2. able = {}
      BY <1>3, <1>4
   <2>3. QED
      BY <2>1, <2>2 DEF able
<1>5. CASE at # {}
   <2>1. /\ \E k \in at : match = Match(used, order[k])
         /\ \A k \in at : RankAt(used, order, k) =< Rank(match.confidence)
      BY <1>1, <1>5 DEF Chosen, at
   <2>2. \E u \in able : match = Match(used, u)
      BY <1>2, <2>1
   <2>3. ASSUME NEW u \in able
         PROVE  Rank(Match(used, u).confidence) =< Rank(match.confidence)
      <3>1. PICK k \in at : order[k] = u
         BY <1>3
      <3>2. QED
         BY <2>1, <3>1 DEF RankAt
   <2>4. able # {}
      BY <2>2
   <2>5. QED
      BY <2>2, <2>3, <2>4 DEF able
<1>6. QED
   BY <1>4, <1>5

LEMMA MatchStep ==
   ASSUME HistoryCore, UNCHANGED scope, NEW i \in Cases, MatchInspections(i)
   PROVE  HistoryCore'
<1> DEFINE k == task[i].snapshot
           promised == {r \in Reports : pulls[k][r] # Nil}
           base == [snapshot |-> k, stored |-> stored, pending |-> Pending, promised |-> promised,
                    inspections |-> inspections, units |-> DriversUnits]
<1>1. PICK order \in SetToSeqs(DriversUnits) :
         link' = [link EXCEPT ![i] = [r \in Reports |-> IF inspections[r] = Nil THEN NoMatch
                                                        ELSE Attribute(inspections[r], order)]]
   BY DEF MatchInspections
<1> DEFINE matches == [r \in Reports |-> IF inspections[r] = Nil THEN NoMatch ELSE Attribute(inspections[r], order)]
<1>2. link' = [link EXCEPT ![i] = matches]
   BY <1>1
<1>3. basis' = [basis EXCEPT ![i] = base]
   BY DEF MatchInspections
<1>4. TaskBecomes(i, "tell", k) /\ task[i].pc = "match"
   BY TaskToEffect DEF MatchInspections, HistoryCore, TaskPcs, TaskAt
<1>5. UNCHANGED <<capture, evidence, told, cache, pulls, inspections, stored, lostRuns, losses>>
   BY DEF MatchInspections
<1>6. k \in 1..Len(pulls) /\ Len(pulls) \in Nat
   BY <1>4, CaptureFacts DEF Pulling
<1>7. \A r \in Reports : matches[r] = IF inspections[r] = Nil THEN NoMatch ELSE Attribute(inspections[r], order)
   OBVIOUS
<1> HIDE DEF k, promised, matches
<1>8. /\ base.snapshot = k /\ base.stored = stored /\ base.pending = Pending /\ base.promised = promised
       /\ base.inspections = inspections /\ base.units = DriversUnits
   OBVIOUS
<1> HIDE DEF base
<1>9. PICK b : /\ b = base /\ b.snapshot = k /\ b.stored = stored /\ b.pending = Pending /\ b.promised = promised
               /\ b.inspections = inspections /\ b.units = DriversUnits
   BY <1>8
<1>10. /\ DOMAIN link' = Cases /\ link'[i] = matches /\ \A j \in Cases : j # i => link'[j] = link[j]
      /\ DOMAIN basis' = Cases /\ basis'[i] = b /\ \A j \in Cases : j # i => basis'[j] = basis[j]
   BY <1>2, <1>3, <1>9 DEF HistoryCore, HistoryTyped
<1>11. HistoryTyped'
   <2>1. PullRecords' = PullRecords
      BY DEF PullRecords
   <2>2. \A j \in Cases : task'[j].pc \in Pulling => task'[j].snapshot \in 1..Len(pulls')
      BY <1>4, <1>5, <1>6 DEF HistoryCore, HistoryTyped, TaskBecomes
   <2>3. task' \in [Cases -> [pc : TaskPcs, snapshot : Nat]]
      BY <1>4 DEF TaskBecomes, TaskRecords
   <2>4. QED
      BY <1>5, <1>10, <2>1, <2>2, <2>3 DEF HistoryCore, HistoryTyped
<1>12. KeptInv'
   <2>1. \A kept, at, r, found : PulledAs(kept, at, r, found)' <=> PulledAs(kept, at, r, found)
      BY <1>5 DEF PulledAs
   <2>2. StoredKept'
      BY <1>5, <2>1 DEF HistoryCore, KeptInv, StoredKept
   <2>3. BasisKept(b)
      <3>1. b.stored \in Seq(Nat) /\ \A at \in 1..Len(b.stored) : b.stored[at] \in 1..Len(pulls)
         BY <1>9 DEF HistoryCore, HistoryTyped
      <3>2. ASSUME NEW at \in 1..Len(b.stored), b.stored[at] = b.snapshot, NEW r \in b.promised
            PROVE  PulledAs(b.stored, at, r, b.inspections[r])
         <4>1. r \in Reports /\ pulls[stored[at]][r] # Nil
            BY <1>9, <3>2 DEF promised
         <4>2. PulledAs(stored, at, r, inspections[r])
            BY <1>9, <4>1 DEF HistoryCore, KeptInv, StoredKept
         <4>3. QED
            BY <1>9, <4>2
      <3>3. b.promised \subseteq Reports
         BY <1>9 DEF promised
      <3>4. QED
         BY <3>1, <3>2, <3>3 DEF BasisKept
   <2>4. \A x : BasisKept(x)' <=> BasisKept(x)
      BY <1>5, <2>1 DEF BasisKept
   <2>5. ASSUME NEW j \in Cases
         PROVE  BasisKept(basis[j])'
      <3>1. PICK x : basis'[j] = x /\ BasisKept(x)
         BY <1>10, <2>3 DEF HistoryCore, KeptInv
      <3>2. QED
         BY <2>4, <3>1, BasisAt
   <2>6. QED
      BY <2>2, <2>5 DEF KeptInv
<1>13. Defensible(b, matches)
   <2>1. ASSUME NEW r \in Reports
         PROVE  LET used == b.inspections[r]
                    able == {u \in b.units : used # Nil /\ Explains(used, u)}
                IN IF able = {} THEN matches[r] = NoMatch
                   ELSE /\ \E u \in able : matches[r] = Match(used, u)
                        /\ \A u \in able : Rank(Match(used, u).confidence) =< Rank(matches[r].confidence)
      <3>1. CASE inspections[r] = Nil
         BY <1>7, <1>9, <3>1
      <3>2. CASE inspections[r] # Nil
         <4>1. PICK used, match : used = inspections[r] /\ match = matches[r]
            OBVIOUS
         <4>2. match = Attribute(used, order) /\ used # Nil
            BY <1>7, <3>2, <4>1
         <4>3. LET able == {u \in DriversUnits : Explains(used, u)}
               IN IF able = {} THEN match = NoMatch
                  ELSE /\ \E u \in able : match = Match(used, u)
                       /\ \A u \in able : Rank(Match(used, u).confidence) =< Rank(match.confidence)
            BY <4>2, UnitsFinite, AttributedDefensible
         <4>4. {u \in DriversUnits : used # Nil /\ Explains(used, u)} = {u \in DriversUnits : Explains(used, u)}
            BY <4>2
         <4>5. b.inspections[r] = used /\ b.units = DriversUnits
            BY <1>9, <4>1
         <4>6. QED
            BY <4>1, <4>3, <4>4, <4>5, Zenon
      <3>3. QED
         BY <3>1, <3>2
   <2>2. QED
      BY <2>1, Zenon DEF Defensible
<1>14. BriefIsDefensible'
   <2>1. ASSUME NEW j \in Cases
         PROVE  Defensible(basis'[j], link'[j])
      BY <1>10, <1>13, BriefSays DEF HistoryCore
   <2>2. QED
      BY <2>1, BriefSaysNext
<1>15. basis'[i] # NoBasis
   BY <1>6, <1>9, <1>10 DEF NoBasis
<1>16. Told(i)'
   <2>1. NoBasis' = NoBasis
      BY DEF NoBasis
   <2>2. Told(i)
      BY CaptureFacts
   <2>3. QED
      BY <1>4, <1>5, <1>15, <2>1, <2>2 DEF Told, TaskBecomes, Answering
<1>17. Vouched(i)'
   <2>1. Accounted(k)
      BY <1>6 DEF HistoryCore, AccountInv
   <2>2. (\E j \in Cases : Stores(j, k)) => k \in Pending
      BY DEF Stores, Pending, TaskAt
   <2>3. Relied(i)'
      BY <1>5, <1>9, <1>10, <2>1, <2>2 DEF Relied, Accounted, LeftUnstored
   <2>4. QED
      BY <2>3 DEF Vouched
<1>18. ToldInv'
   BY <1>4, <1>5, <1>10, <1>16, ToldStep DEF HistoryCore, TaskBecomes
<1>19. AccountInv'
   <2>1. \A x \in 1..Len(pulls') : Accounted(x)'
      BY <1>4, <1>5, AccountedStays DEF HistoryCore, TaskBecomes
   <2>2. QED
      BY <1>4, <1>5, <1>10, <1>17, <2>1, AccountStep DEF HistoryCore, TaskBecomes
<1>20. QED
   BY <1>11, <1>12, <1>14, <1>18, <1>19 DEF HistoryCore

LEMMA HistoryStep ==
   ASSUME HistoryCore, UNCHANGED scope, CaptureNext
   PROVE  HistoryCore'
<1>1. ASSUME NEW i \in Cases, Capture(i)
      PROVE  HistoryCore'
   BY <1>1, BeginStep, UseStep, PullStep, FailsStep, StoreStep, MatchStep, TellStep, SettleEvidenceStep,
      EndCaptureStep DEF Capture
<1>2. QED
   BY <1>1, CaptureLostStep, CacheStep DEF CaptureNext
-----------------------------------------------------------------------------
(* What a step of the bundle keeps of what the office's handler did.       *)

\* A message that was published stays so.
Onward == \A n \in Messages : run[n].pc # "none" => run'[n].pc # "none"

\* So do an operation that was made and a request that has one.
Linking ==
   /\ \A o \in Operations : operation[o] # "none" => operation'[o] # "none"
   /\ \A q \in Requests : request[q].op # NoOperation => request'[q].op # NoOperation

LEMMA BecomesOnward ==
   ASSUME BundleTyped, NEW m \in Messages, NEW t, Becomes(m, t), t.pc # "none"
   PROVE  Onward
BY Replaced DEF Onward

LEMMA GotoOnward ==
   ASSUME BundleTyped, NEW m \in Messages, NEW pc \in Running, Goto(m, pc)
   PROVE  Onward
<1>1. pc \in Pcs /\ pc # "none"
   BY DEF Pcs, Running, InDataset
<1>2. PICK t : Moves(m, t, pc)
   BY <1>1, GotoEffect
<1>3. QED
   BY <1>1, <1>2, BecomesOnward DEF Moves, Keeps

LEMMA EndOnward ==
   ASSUME BundleTyped, NEW m \in Messages, NEW pc \in {"over", "dead"}, End(m, pc)
   PROVE  Onward
<1>1. pc \in Pcs /\ pc # "none"
   BY DEF Pcs
<1>2. PICK t : Forgets(m, t, pc)
   BY <1>1, EndEffect
<1>3. QED
   BY <1>1, <1>2, BecomesOnward DEF Forgets

LEMMA AdvanceOnward ==
   ASSUME BundleTyped, NEW m \in Messages, NextSet(m)
   PROVE  Onward
<1>1. PICK t : Advances(m, t)
   BY NextSetEffect
<1>2. Becomes(m, t) /\ t.pc # "none"
   BY <1>1 DEF Advances, Keeps
<1>3. QED
   BY <1>2, BecomesOnward

LEMMA RenderOnward ==
   ASSUME BundleTyped, NEW m \in Messages, NEW k \in Nat, NEW a \in Answers, Render(m, k, a)
   PROVE  Onward
<1>1. PICK t : Renders(m, t, k, a)
   BY RenderEffect
<1>2. Becomes(m, t) /\ t.pc # "none"
   BY <1>1 DEF Renders, Keeps
<1>3. QED
   BY <1>2, BecomesOnward

LEMMA RedeliverOnward ==
   ASSUME BundleTyped, NEW m \in Messages, NEW retries \in 0..MaxRetries, Redeliver(m, retries)
   PROVE  Onward
<1>1. PICK t : Forgets(m, t, "queued")
   BY RedeliverEffect
<1>2. QED
   BY <1>1, BecomesOnward DEF Forgets

LEMMA WorkOnward ==
   ASSUME BundleTyped, NEW m \in Messages, Work(m)
   PROVE  Onward
<1>1. PICK x \in RunRecords : x = run[m] /\ RunFits(x)
   BY RunFacts
<1>2. CASE SkipDuplicate(m) \/ RefuseUnmapped(m) \/ SaveConflict(m) \/ Finalize(m)
   BY <1>2, EndOnward DEF SkipDuplicate, RefuseUnmapped, SaveConflict, Finalize
<1>3. CASE Start(m) \/ DatasetFails(m) \/ Put(m) \/ Announce(m) \/ EmitUnavailable(m) \/ Succeed(m)
   <2>1. \E pc \in Running : Goto(m, pc)
      BY <1>3 DEF Start, DatasetFails, Put, Announce, EmitUnavailable, Succeed, Running, InDataset
   <2>2. QED
      BY <2>1, GotoOnward
<1>4. CASE OpenOperation(m)
   BY <1>4, OpenEffect, BecomesOnward
<1>5. CASE FindRequest(m)
   <2>1. PICK t, q : Finds(m, t, q)
      BY <1>5, FindEffect
   <2>2. QED
      BY <2>1, BecomesOnward DEF Finds
<1>6. CASE Fetch(m)
   <2>1. 1 \in Nat
      OBVIOUS
   <2>2. QED
      BY <1>6, <2>1, RenderOnward DEF Fetch
<1>7. CASE SaveArtifact(m)
   <2>1. x.pc = "save" /\ Render(m, x.rendering + 1, x.answer)
      BY <1>1, <1>7 DEF SaveArtifact, At, Rendering
   <2>2. x.answer \in Answers /\ x.rendering \in Nat
      BY <1>1, <2>1, ShapeFacts DEF RunFits, WithAnswer, RunRecords, BundleTyped
   <2>3. x.rendering + 1 \in Nat
      BY <2>2
   <2>4. QED
      BY <2>1, <2>2, <2>3, RenderOnward
<1>8. CASE Fulfil(m) \/ DocumentGap(m)
   BY <1>8, AdvanceOnward DEF Fulfil, DocumentGap
<1>9. QED
   BY <1>2, <1>3, <1>4, <1>5, <1>6, <1>7, <1>8 DEF Work

LEMMA InterruptOnward ==
   ASSUME BundleTyped, NEW m \in Messages, Interrupt(m)
   PROVE  Onward
<1>1. PICK x \in RunRecords : x = run[m]
   BY RunFacts
<1>2. CASE TimeLimitInDataset(m) \/ TimeLimitInRequest(m)
   BY <1>2, GotoOnward DEF TimeLimitInDataset, TimeLimitInRequest, Running
<1>3. CASE RunRaises(m)
   <2>1. CASE End(m, "dead")
      BY <2>1, EndOnward
   <2>2. CASE x.retries < MaxRetries /\ Redeliver(m, x.retries + 1)
      <3>1. x.retries + 1 \in 0..MaxRetries
         BY <2>2, BundleNames DEF RunRecords
      <3>2. QED
         BY <2>2, <3>1, RedeliverOnward
   <2>3. QED
      BY <1>1, <1>3, <2>1, <2>2 DEF RunRaises
<1>4. CASE WorkerLost(m)
   <2>1. x.retries \in 0..MaxRetries
      BY DEF RunRecords
   <2>2. QED
      BY <1>1, <1>4, <2>1, RedeliverOnward DEF WorkerLost
<1>5. QED
   BY <1>2, <1>3, <1>4 DEF Interrupt

LEMMA RunsStand ==
   ASSUME UNCHANGED run
   PROVE  Onward
BY DEF Onward

LEMMA LinksStand ==
   ASSUME UNCHANGED operation, UNCHANGED request
   PROVE  Linking
BY DEF Linking

LEMMA OperationsLink ==
   ASSUME BundleTyped, NEW o \in Operations, NEW status \in {"queued", "running", "succeeded", "failed"},
          operation' = [operation EXCEPT ![o] = status], UNCHANGED request
   PROVE  Linking
BY DEF BundleTyped, OperationsTyped, Linking

LEMMA SettleLinks ==
   ASSUME BundleTyped, UNCHANGED <<shape, operation>>, NEW m \in Messages, run[m].req \in Requests,
          NEW status \in {"fulfilled", "failed"}, Settle(m, status)
   PROVE  Linking
BY SettleEffect DEF Linking

LEMMA WorkLinks ==
   ASSUME BundleTyped, UNCHANGED shape, NEW m \in Messages, Work(m)
   PROVE  Linking
<1>1. PICK x \in RunRecords : x = run[m] /\ RunFits(x)
   BY RunFacts
<1>2. CASE UNCHANGED <<operation, request>>
   BY <1>2 DEF Linking
<1>3. CASE OpenOperation(m) \/ RefuseUnmapped(m) \/ Finalize(m)
   <2>1. Named(m) \in Operations /\ (Finalize(m) => x.op \in Operations)
      BY <1>1, NamedFacts DEF Finalize, At, RunFits, Running
   <2>2. \E o \in Operations : \E status \in {"running", "failed", "succeeded"} :
            operation' = [operation EXCEPT ![o] = status]
      BY <1>1, <1>3, <2>1 DEF OpenOperation, RefuseUnmapped, Finalize, Named, Operation
   <2>3. UNCHANGED request
      BY <1>3 DEF OpenOperation, RefuseUnmapped, Finalize
   <2>4. QED
      BY <2>2, <2>3, OperationsLink
<1>4. CASE FindRequest(m)
   <2>1. PICK q \in Requests : \E t : Finds(m, t, q)
      BY <1>4, FindEffect
   <2>2. PICK o \in Operations : o = x.op
      BY <1>1, <1>4 DEF FindRequest, At, RunFits, Running
   <2>3. \/ UNCHANGED request
         \/ request' = [request EXCEPT ![q] = [status |-> "in_progress", op |-> o]]
      BY <1>1, <2>1, <2>2 DEF Finds
   <2>4. o # NoOperation
      BY <2>2, BundleNames
   <2>5. \A p \in Requests : request'[p] = request[p] \/ request'[p].op = o
      BY <2>3 DEF BundleTyped, RequestsTyped
   <2>6. QED
      BY <1>4, <2>4, <2>5 DEF FindRequest, Linking
<1>5. CASE Fulfil(m) \/ (DocumentGap(m) /\ x.req # NoReq)
   <2>1. run[m].req \in Requests
      BY <1>1, <1>5 DEF Fulfil, At, RunFits, RunRecords, InDataset
   <2>2. \E status \in {"fulfilled", "failed"} : Settle(m, status)
      BY <1>1, <1>5, UnpublishedFacts DEF Fulfil, DocumentGap, BundleTyped
   <2>3. UNCHANGED operation
      BY <1>5 DEF Fulfil, DocumentGap
   <2>4. QED
      BY <2>1, <2>2, <2>3, SettleLinks
<1>6. DocumentGap(m) /\ x.req = NoReq => UNCHANGED <<operation, request>>
   BY <1>1, UnpublishedFacts DEF DocumentGap, BundleTyped
<1>7. QED
   BY <1>2, <1>3, <1>4, <1>5, <1>6 DEF Work, SkipDuplicate, Start, Fetch, DatasetFails, Put, Announce, SaveArtifact,
      SaveConflict, EmitUnavailable, Succeed

LEMMA InterruptLinks ==
   ASSUME BundleTyped, UNCHANGED shape, NEW m \in Messages, Interrupt(m)
   PROVE  Linking
<1>1. PICK x \in RunRecords : x = run[m] /\ RunFits(x)
   BY RunFacts
<1>2. CASE UNCHANGED <<operation, request>>
   BY <1>2, LinksStand
<1>3. CASE RunRaises(m) /\ x.op # NoOperation
   <2>1. x.op \in Operations
      BY <1>3 DEF RunRecords
   <2>2. QED
      BY <1>1, <1>3, <2>1, OperationsLink DEF RunRaises, Operation
<1>4. CASE TimeLimitInRequest(m) /\ Make(NewRequest(m))
   <2>1. x.op \in Operations /\ x.op # NoOperation
      BY <1>1, <1>4, BundleNames DEF TimeLimitInRequest, At, RunFits, Running
   <2>2. \A q \in Requests : request'[q] = request[q] \/ request'[q].op = x.op
      BY <1>1, <1>4, <2>1, MakeRequests
   <2>3. QED
      BY <1>4, <2>1, <2>2 DEF TimeLimitInRequest, Linking
<1>5. QED
   BY <1>1, <1>2, <1>3, <1>4 DEF Interrupt, TimeLimitInDataset, TimeLimitInRequest, RunRaises, WorkerLost, Operation

LEMMA BundleKeeps ==
   ASSUME BundleTyped, BundleNext
   PROVE  Onward /\ Linking /\ UNCHANGED shape
<1>1. UNCHANGED shape
   BY DEF BundleNext
<1>2. ASSUME NEW m \in Messages, Work(m) \/ Interrupt(m)
      PROVE  Onward /\ Linking
   BY <1>1, <1>2, WorkOnward, InterruptOnward, WorkLinks, InterruptLinks
<1>3. Retry \in Operations
   BY BundleOperations DEF BundleTyped
<1>4. CASE ChooseRequests
   <2>1. UNCHANGED <<run, request>> /\ operation' = [operation EXCEPT ![Retry] = "queued"]
      BY <1>4 DEF ChooseRequests
   <2>2. QED
      BY <1>1, <1>3, <2>1, OperationsLink, RunsStand
<1>5. CASE MoveRequests
   <2>1. PICK mine : request' = [q \in Requests |-> IF q \in mine THEN [status |-> "in_progress", op |-> Retry]
                                                              ELSE request[q]]
      BY <1>5 DEF MoveRequests
   <2>2. Retry # NoOperation
      BY <1>3, BundleNames
   <2>3. \A q \in Requests : request[q].op # NoOperation => request'[q].op # NoOperation
      BY <2>1, <2>2
   <2>4. UNCHANGED <<run, operation>>
      BY <1>5 DEF MoveRequests
   <2>5. QED
      BY <1>1, <2>3, <2>4, RunsStand DEF Linking
<1>6. CASE PublishRetry
   <2>1. "retry" \in Messages /\ UNCHANGED <<operation, request>>
      BY <1>6, BundleNames DEF PublishRetry
   <2>2. PICK t : Forgets("retry", t, "queued")
      BY <1>3, <1>6, <2>1, PublishEffect DEF PublishRetry
   <2>3. Onward
      BY <2>1, <2>2, BecomesOnward DEF Forgets
   <2>4. QED
      BY <1>1, <2>1, <2>3, LinksStand
<1>7. QED
   BY <1>1, <1>2, <1>4, <1>5, <1>6 DEF BundleNext, Requeue
-----------------------------------------------------------------------------
(* What a step of the history keeps of it.                                 *)

HistoryKeeps ==
   /\ \A i \in Cases :
         /\ task[i].pc # "none" => task'[i].pc # "none"
         /\ evidence[i] # "none" => evidence'[i] # "none"
         /\ capture'[i] = capture[i] \/ task[i].pc # "none"
   /\ (\A i \in Cases : task[i].pc = "none") =>
         /\ cache' \in {0, cache}
         /\ \A i \in Cases : task'[i].pc = "none" /\ capture'[i] = capture[i] /\ evidence'[i] = evidence[i]

LEMMA HistoryStands ==
   ASSUME UNCHANGED historyVars
   PROVE  HistoryKeeps
BY DEF HistoryKeeps, historyVars

LEMMA CaptureKeeps ==
   ASSUME HistoryTyped, CaptureNext
   PROVE  HistoryKeeps
<1>1. ASSUME NEW i \in Cases, Capture(i) \/ CaptureLost(i)
      PROVE  /\ task[i].pc # "none"
             /\ \E pc \in TaskPcs \ {"none"}, snapshot \in Nat : TaskBecomes(i, pc, snapshot)
             /\ \A j \in Cases : evidence[j] # "none" => evidence'[j] # "none"
             /\ \A j \in Cases : j # i => capture'[j] = capture[j]
   <2>1. task[i].pc # "none"
      BY <1>1 DEF Capture, BeginCapture, UseCache, PullInspections, PullFails, StoreInspections, MatchInspections,
         TellCaptured, SettleEvidence, EndCapture, CaptureLost, TaskAt
   <2>2. \A j \in Cases : evidence[j] # "none" => evidence'[j] # "none"
      <3>1. CASE UNCHANGED evidence
         BY <3>1
      <3>2. CASE SettleEvidence(i)
         BY <3>2 DEF SettleEvidence, HistoryTyped
      <3>3. QED
         BY <1>1, <3>1, <3>2 DEF Capture, BeginCapture, UseCache, PullInspections, PullFails, StoreInspections,
            MatchInspections, TellCaptured, EndCapture, CaptureLost
   <2>3. \A j \in Cases : j # i => capture'[j] = capture[j]
      <3>1. CASE UNCHANGED capture
         BY <3>1
      <3>2. CASE BeginCapture(i) \/ EndCapture(i)
         BY <3>2 DEF BeginCapture, EndCapture, HistoryTyped
      <3>3. QED
         BY <1>1, <3>1, <3>2 DEF Capture, UseCache, PullInspections, PullFails, StoreInspections,
            MatchInspections, TellCaptured, SettleEvidence, CaptureLost
   <2>4. \E pc \in TaskPcs \ {"none"}, snapshot \in Nat : TaskBecomes(i, pc, snapshot)
      <3>1. ASSUME NEW pc \in TaskPcs \ {"none"}, TaskTo(i, pc)
            PROVE  \E p \in TaskPcs \ {"none"}, snapshot \in Nat : TaskBecomes(i, p, snapshot)
         BY <3>1, CaseFacts, TaskToEffect
      <3>2. ASSUME NEW pc \in TaskPcs \ {"none"}, NEW snapshot \in Nat,
                   task' = [task EXCEPT ![i] = [pc |-> pc, snapshot |-> snapshot]]
            PROVE  \E p \in TaskPcs \ {"none"}, s \in Nat : TaskBecomes(i, p, s)
         BY <3>2, TaskSetEffect
      <3>3. {"cached", "match", "store", "failed", "tell", "fulfil", "succeed", "fail", "over", "queued"}
               \subseteq TaskPcs \ {"none"}
         BY DEF TaskPcs
      <3>4. CASE BeginCapture(i) \/ PullFails(i) \/ StoreInspections(i) \/ MatchInspections(i) \/ TellCaptured(i)
                 \/ SettleEvidence(i)
         <4>1. \E pc \in TaskPcs \ {"none"} : TaskTo(i, pc)
            BY <3>3, <3>4 DEF BeginCapture, PullFails, StoreInspections, MatchInspections, TellCaptured, SettleEvidence
         <4>2. QED
            BY <3>1, <4>1
      <3>5. CASE UseCache(i) \/ PullInspections(i) \/ EndCapture(i) \/ CaptureLost(i)
         <4>1. cache \in Nat /\ Len(pulls) + 1 \in Nat /\ 0 \in Nat
            BY DEF HistoryTyped
         <4>2. \E pc \in TaskPcs \ {"none"}, snapshot \in Nat :
                  task' = [task EXCEPT ![i] = [pc |-> pc, snapshot |-> snapshot]]
            BY <3>3, <3>5, <4>1, IdleOver DEF UseCache, PullInspections, EndCapture, CaptureLost
         <4>3. QED
            BY <3>2, <4>2
      <3>6. QED
         BY <1>1, <3>4, <3>5 DEF Capture
   <2>5. QED
      BY <2>1, <2>2, <2>3, <2>4
<1>2. CASE \E i \in Cases : Capture(i) \/ CaptureLost(i)
   <2>1. PICK i \in Cases : Capture(i) \/ CaptureLost(i)
      BY <1>2
   <2>2. PICK pc \in TaskPcs \ {"none"}, snapshot \in Nat : TaskBecomes(i, pc, snapshot)
      BY <1>1, <2>1
   <2>3. /\ task[i].pc # "none" /\ task'[i].pc # "none"
         /\ \A j \in Cases : evidence[j] # "none" => evidence'[j] # "none"
         /\ \A j \in Cases : j # i => capture'[j] = capture[j] /\ task'[j] = task[j]
      BY <1>1, <2>1, <2>2 DEF TaskBecomes
   <2>4. QED
      BY <2>3 DEF HistoryKeeps
<1>3. CASE RefreshCarrier \/ WarmCache \/ CacheExpires
   <2>1. UNCHANGED <<task, capture, evidence>> /\ cache' \in {0, cache}
      BY <1>3 DEF RefreshCarrier, WarmCache, CacheExpires
   <2>2. QED
      BY <2>1 DEF HistoryKeeps
<1>4. QED
   BY <1>2, <1>3 DEF CaptureNext
-----------------------------------------------------------------------------
(* The handler: what it has done stays done.                               *)

LEMMA LinkedStays ==
   ASSUME BundleTyped, UNCHANGED shape, Onward, Linking, Linked
   PROVE  Linked'
<1>1. "first" \in Messages /\ First \in Operations /\ Sets' = Sets /\ First' = First
   BY BundleNames, BundleOperations, SameShape DEF BundleTyped, First
<1>2. \A d \in Sets : <<First, d, 1>> \in Requests
   BY <1>1, NewRequests
<1>3. NoOperation' = NoOperation
   BY DEF NoOperation
<1>4. QED
   BY <1>1, <1>2, <1>3 DEF Linked, Onward, Linking

LEMMA OfficeHolds ==
   ASSUME OfficeInv, BundleTyped, UNCHANGED <<shape, scope, office, attempted, gaveUp>>, Onward, Linking,
          HistoryKeeps
   PROVE  OfficeInv'
<1>1. /\ Sets' = Sets /\ Unbegun' = Unbegun /\ First' = First /\ (NoHistory' <=> NoHistory)
      /\ "first" \in Messages /\ NoOperation' = NoOperation /\ NewCase \in Cases
   BY BundleNames, SameShape, InstancesAssumption DEF Unbegun, First, NoHistory, NoOperation
<1>2. office \in {"history", "send", "attempt"} \/ attempted => Linked'
   BY LinkedStays DEF OfficeInv
<1>3. office \in Unbegun \cup {"history", "send"} =>
         /\ cache' = 0
         /\ \A i \in Cases : task'[i].pc = "none" /\ capture'[i] = capture[i] /\ evidence'[i] = evidence[i]
   BY DEF OfficeInv, HistoryKeeps
<1>4. /\ office' \in Unbegun \cup {"history", "send"} => cache' = 0 /\ \A i \in Cases : task'[i].pc = "none"
      /\ office' \in Unbegun \cup {"history"} => \A i \in Cases : capture'[i] = "none"
      /\ office' = "send" => /\ evidence'[NewCase] # "none"
                             /\ \A i \in Cases : capture'[i] # "none" => i = NewCase
   BY <1>1, <1>3 DEF OfficeInv
<1>5. /\ office' \in {"link", "publish"} => operation'[First] # "none"
      /\ office' = "publish" => \A d \in Sets : request'[<<First, d, 1>>].op # NoOperation
   <2>1. First \in Operations /\ \A d \in Sets : <<First, d, 1>> \in Requests
      BY BundleOperations, NewRequests DEF BundleTyped
   <2>2. QED
      BY <1>1, <2>1 DEF OfficeInv, Linking
<1>6. office' = "attempt" \/ attempted' => NoHistory \/ (task'[NewCase].pc # "none" /\ evidence'[NewCase] # "none")
   BY <1>1 DEF OfficeInv, HistoryKeeps
<1>7. office' = "attempt" \/ (office' = "over" /\ ~gaveUp') =>
         \A i \in Cases : capture'[i] # "none" => task'[i].pc # "none"
   BY <1>1 DEF OfficeInv, HistoryKeeps
<1>8. office' = "over" /\ ~gaveUp' => run'["first"].pc # "none"
   BY <1>1 DEF OfficeInv, Onward
<1>9. office' \in Unbegun \cup {"history", "send", "attempt"} =>
         ~gaveUp' /\ ~attempted' /\ (NoHistory \/ NewCase \in scope'.cases)
   BY DEF OfficeInv
<1>10. office' \in {"history", "send"} => ~NoHistory
   BY DEF OfficeInv
<1>11. QED
   BY <1>1, <1>2, <1>4, <1>5, <1>6, <1>7, <1>8, <1>9, <1>10 DEF OfficeInv
-----------------------------------------------------------------------------
(* The handler's own steps.                                                *)

LEMMA OfficeNames ==
   ASSUME BundleTyped, UNCHANGED shape, UNCHANGED scope
   PROVE  /\ Sets' = Sets /\ Unbegun' = Unbegun /\ First' = First /\ (NoHistory' <=> NoHistory)
          /\ NoOperation' = NoOperation /\ "first" \in Messages /\ NewCase \in Cases
          /\ First \in Operations /\ First # NoOperation /\ \A d \in Sets : <<First, d, 1>> \in Requests
          /\ Unbegun = {"create", "operation", "link", "publish"}
<1>1. First \in Operations
   BY BundleOperations DEF BundleTyped
<1>2. Sets' = Sets /\ Unbegun' = Unbegun /\ First' = First /\ (NoHistory' <=> NoHistory)
      /\ NoOperation' = NoOperation
   BY SameShape DEF Unbegun, First, NoHistory, NoOperation
<1>3. QED
   BY <1>1, <1>2, BundleNames, NewRequests, InstancesAssumption DEF Unbegun

\* The steps up to the bundle's message leave the history alone.
LEMMA BeginOffice ==
   ASSUME BundleTyped, OfficeInv, OpenRequests \/ QueueBundle \/ LinkRequests
   PROVE  OfficeInv'
<1>1. UNCHANGED historyVars /\ UNCHANGED <<shape, scope, run, attempted, gaveUp>>
   BY DEF OpenRequests, QueueBundle, LinkRequests, historyVars
<1>2. UNCHANGED <<cache, task, capture, evidence>>
   BY <1>1 DEF historyVars
<1>3. office \in {"create", "operation", "link"} /\ office' \in {"operation", "link", "publish"}
   BY DEF OpenRequests, QueueBundle, LinkRequests, Office
<1>4. /\ cache' = 0 /\ ~gaveUp' /\ ~attempted' /\ (NoHistory \/ NewCase \in scope'.cases)
      /\ \A i \in Cases : task'[i].pc = "none" /\ capture'[i] = "none"
   BY <1>1, <1>2, <1>3, OfficeNames DEF OfficeInv
<1>5. request \in [Requests -> RequestRecords] /\ DOMAIN operation = Operations
   BY DEF BundleTyped, RequestsTyped, OperationsTyped
<1>6. /\ office' \in {"link", "publish"} => operation'[First] # "none"
      /\ office' = "publish" => \A d \in Sets : request'[<<First, d, 1>>].op # NoOperation
   <2>1. CASE OpenRequests
      BY <2>1 DEF OpenRequests, Office
   <2>2. CASE QueueBundle
      <3>1. office = "operation" /\ office' = "link" /\ UNCHANGED request
         BY <2>2 DEF QueueBundle, Office
      <3>2. operation'[First] = "queued"
         BY <1>1, <1>5, <2>2, OfficeNames DEF QueueBundle
      <3>3. QED
         BY <3>1, <3>2 DEF OfficeInv
   <2>3. CASE LinkRequests
      <3>1. office = "link" /\ office' = "publish" /\ UNCHANGED operation
         BY <2>3 DEF LinkRequests, Office
      <3>2. ASSUME NEW q \in Requests, q[1] = First, q[3] = 1
            PROVE  request'[q].op = First
         BY <2>3, <3>2 DEF LinkRequests
      <3>3. \A d \in Sets : request'[<<First, d, 1>>].op = First
         BY <1>1, <3>2, OfficeNames
      <3>4. operation[First] # "none"
         BY <3>1 DEF OfficeInv
      <3>5. QED
         BY <1>1, <3>1, <3>3, <3>4, OfficeNames
   <2>4. QED
      BY <2>1, <2>2, <2>3
<1>7. QED
   BY <1>1, <1>3, <1>4, <1>6, OfficeNames DEF OfficeInv

LEMMA PublishOffice ==
   ASSUME BundleTyped, OfficeInv, PublishBundle
   PROVE  OfficeInv'
<1>1. UNCHANGED historyVars /\ UNCHANGED <<shape, scope, operation, request, attempted, gaveUp>>
   BY DEF PublishBundle, historyVars
<1>2. UNCHANGED <<cache, task, capture, evidence>>
   BY <1>1 DEF historyVars
<1>3. office = "publish" /\ office' = IF NoHistory THEN "attempt" ELSE "history"
   BY DEF PublishBundle, Office
<1>4. /\ cache' = 0 /\ ~gaveUp' /\ ~attempted' /\ (NoHistory \/ NewCase \in scope'.cases)
      /\ \A i \in Cases : task'[i].pc = "none" /\ capture'[i] = "none"
      /\ operation[First] # "none" /\ \A d \in Sets : request[<<First, d, 1>>].op # NoOperation
   BY <1>1, <1>2, <1>3, OfficeNames DEF OfficeInv
<1>5. run'["first"].pc # "none"
   <2>1. PICK t : Forgets("first", t, "queued")
      BY <1>1, OfficeNames, PublishEffect DEF PublishBundle
   <2>2. QED
      BY <1>1, <2>1, OfficeNames, Replaced DEF Forgets
<1>6. Linked'
   BY <1>1, <1>4, <1>5, OfficeNames DEF Linked
<1>7. QED
   BY <1>1, <1>3, <1>4, <1>6, OfficeNames DEF OfficeInv

LEMMA QueueOffice ==
   ASSUME BundleTyped, OfficeInv, HistoryTyped, QueueHistory
   PROVE  OfficeInv'
<1>1. UNCHANGED bundleVars /\ UNCHANGED <<scope, task, cache, attempted, gaveUp>>
   BY DEF QueueHistory
<1>2. UNCHANGED <<shape, run, operation, request>>
   BY <1>1 DEF bundleVars
<1>3. office = "history" /\ office' = "send"
   BY DEF QueueHistory, Office
<1>4. capture' = [capture EXCEPT ![NewCase] = "queued"] /\ evidence' = [evidence EXCEPT ![NewCase] = "in_progress"]
   BY DEF QueueHistory
<1>5. /\ cache' = 0 /\ ~gaveUp' /\ ~attempted' /\ (NoHistory \/ NewCase \in scope'.cases) /\ ~NoHistory
      /\ \A i \in Cases : task'[i].pc = "none" /\ capture[i] = "none"
   BY <1>1, <1>2, <1>3, OfficeNames DEF OfficeInv
<1>6. evidence'[NewCase] # "none" /\ \A i \in Cases : capture'[i] # "none" => i = NewCase
   BY <1>1, <1>2, <1>4, <1>5, OfficeNames DEF HistoryTyped
<1>7. Linked'
   <2>1. Onward /\ Linking
      BY <1>2, RunsStand, LinksStand
   <2>2. QED
      BY <1>2, <1>3, <2>1, LinkedStays DEF OfficeInv
<1>8. QED
   BY <1>1, <1>2, <1>3, <1>5, <1>6, <1>7, OfficeNames DEF OfficeInv

LEMMA SendOffice ==
   ASSUME BundleTyped, OfficeInv, HistoryTyped, PublishHistory
   PROVE  OfficeInv'
<1>1. UNCHANGED bundleVars /\ UNCHANGED <<scope, capture, evidence, cache, attempted, gaveUp>>
   BY DEF PublishHistory
<1>2. UNCHANGED <<shape, run, operation, request>>
   BY <1>1 DEF bundleVars
<1>3. office = "send" /\ office' = "attempt"
   BY DEF PublishHistory, Office
<1>4. /\ ~gaveUp' /\ ~attempted' /\ (NoHistory \/ NewCase \in scope'.cases) /\ evidence'[NewCase] # "none"
      /\ \A i \in Cases : capture'[i] # "none" => i = NewCase
   BY <1>1, <1>2, <1>3, OfficeNames DEF OfficeInv
<1>5. task'[NewCase].pc # "none"
   <2>1. TaskBecomes(NewCase, "queued", 0)
      <3>1. "queued" \in TaskPcs /\ 0 \in Nat
         BY DEF TaskPcs
      <3>2. QED
         BY <3>1, TaskSetEffect, IdleOver, InstancesAssumption DEF PublishHistory
   <2>2. QED
      BY <2>1 DEF TaskBecomes
<1>6. Linked'
   <2>1. Onward /\ Linking
      BY <1>2, RunsStand, LinksStand
   <2>2. QED
      BY <1>2, <1>3, <2>1, LinkedStays DEF OfficeInv
<1>7. QED
   BY <1>1, <1>2, <1>3, <1>4, <1>5, <1>6, OfficeNames DEF OfficeInv

LEMMA EndOffice ==
   ASSUME BundleTyped, OfficeTyped, OfficeInv, EmitAttempted \/ OfficeGivesUp
   PROVE  OfficeInv'
<1>1. UNCHANGED <<bundleVars, historyVars>> /\ office' = "over"
   BY DEF EmitAttempted, OfficeGivesUp, Office
<1>2. UNCHANGED <<shape, run, operation, request, scope, task, capture, evidence, cache>>
   BY <1>1 DEF bundleVars, historyVars
<1>3. CASE EmitAttempted
   <2>1. office = "attempt" /\ attempted' /\ ~gaveUp'
      BY <1>3 DEF EmitAttempted, Office, OfficeInv
   <2>2. Linked'
      <3>1. Onward /\ Linking
         BY <1>2, RunsStand, LinksStand
      <3>2. QED
         BY <1>2, <2>1, <3>1, LinkedStays DEF OfficeInv
   <2>3. /\ NoHistory \/ (task'[NewCase].pc # "none" /\ evidence'[NewCase] # "none")
         /\ \A i \in Cases : capture'[i] # "none" => task'[i].pc # "none"
      BY <1>2, <2>1 DEF OfficeInv
   <2>4. run'["first"].pc # "none"
      BY <2>2 DEF Linked
   <2>5. QED
      BY <1>1, <1>2, <2>2, <2>3, <2>4, OfficeNames DEF OfficeInv
<1>4. CASE OfficeGivesUp
   <2>1. gaveUp' /\ ~attempted'
      BY <1>4 DEF OfficeGivesUp, OfficeTyped, OfficeInv
   <2>2. QED
      BY <1>1, <1>2, <2>1, OfficeNames DEF OfficeInv
<1>5. QED
   BY <1>3, <1>4

LEMMA OfficeStep ==
   ASSUME BundleTyped, OfficeTyped, OfficeInv, HistoryTyped, OfficeNext
   PROVE  OfficeInv'
BY BeginOffice, PublishOffice, QueueOffice, SendOffice, EndOffice DEF OfficeNext, BeginCaptures
-----------------------------------------------------------------------------
(* The history in the steps of the others.                                 *)

LEMMA HistoryStill ==
   ASSUME HistoryCore, UNCHANGED historyVars
   PROVE  HistoryCore'
<1>1. UNCHANGED <<scope, task, capture, evidence, link, told, cache, pulls, inspections, stored, basis, lostRuns, losses>>
   BY DEF historyVars
<1>2. HistoryTyped'
   <2>1. PullRecords' = PullRecords
      BY <1>1 DEF PullRecords
   <2>2. QED
      BY <1>1, <2>1 DEF HistoryCore, HistoryTyped
<1>3. KeptInv' /\ BriefIsDefensible'
   BY <1>1, KeptQuiet, BriefQuiet DEF HistoryCore
<1>4. ToldInv'
   BY <1>1 DEF HistoryCore, ToldInv, Told, NoBasis, WasLost
<1>5. AccountInv'
   BY <1>1, AccountsStand DEF HistoryCore
<1>6. QED
   BY <1>2, <1>3, <1>4, <1>5 DEF HistoryCore

LEMMA QueueHistoryStep ==
   ASSUME HistoryCore, OfficeInv, QueueHistory
   PROVE  HistoryCore'
<1>1. UNCHANGED <<scope, task, link, told, cache, pulls, inspections, stored, basis, lostRuns, losses>> /\ office = "history"
   BY DEF QueueHistory, Office
<1>2. capture' = [capture EXCEPT ![NewCase] = "queued"] /\ evidence' = [evidence EXCEPT ![NewCase] = "in_progress"]
   BY DEF QueueHistory
<1>3. \A i \in Cases : task[i].pc = "none" /\ capture[i] = "none"
   BY <1>1 DEF OfficeInv
<1>4. HistoryTyped'
   <2>1. PullRecords' = PullRecords
      BY <1>1 DEF PullRecords
   <2>2. /\ capture' \in [Cases -> {"none", "queued", "running", "succeeded", "failed"}]
         /\ evidence' \in [Cases -> {"none", "in_progress", "fulfilled", "failed"}]
      BY <1>2 DEF HistoryCore, HistoryTyped
   <2>3. QED
      BY <1>1, <2>1, <2>2 DEF HistoryCore, HistoryTyped
<1>5. KeptInv' /\ BriefIsDefensible'
   BY <1>1, KeptQuiet, BriefQuiet DEF HistoryCore
<1>6. ToldInv'
   <2>1. ASSUME NEW i \in Cases
         PROVE  Told(i)'
      <3>1. capture'[i] \in {"none", "queued"} /\ task'[i].pc = "none" /\ NoBasis' = NoBasis
         BY <1>1, <1>2, <1>3 DEF HistoryCore, HistoryTyped, NoBasis
      <3>2. basis[i] = NoBasis \/ WasLost(i)
         BY <1>3 DEF HistoryCore, ToldInv, Told, Answering
      <3>3. QED
         BY <1>1, <3>1, <3>2 DEF Told, Answering, WasLost
   <2>2. QED
      BY <2>1 DEF ToldInv
<1>7. AccountInv'
   BY <1>1, AccountsStand DEF HistoryCore
<1>8. QED
   BY <1>4, <1>5, <1>6, <1>7 DEF HistoryCore

LEMMA SendHistoryStep ==
   ASSUME HistoryCore, OfficeInv, PublishHistory
   PROVE  HistoryCore'
<1>1. UNCHANGED <<scope, capture, evidence, link, told, cache, pulls, inspections, stored, basis, lostRuns, losses>>
      /\ office = "send" /\ NewCase \in Cases
   BY InstancesAssumption DEF PublishHistory, Office
<1>2. /\ cache = 0 /\ evidence[NewCase] # "none" /\ NewCase \in scope.cases
      /\ \A i \in Cases : task[i].pc = "none"
   BY <1>1 DEF OfficeInv
<1>3. TaskBecomes(NewCase, "queued", 0)
   <2>1. "queued" \in TaskPcs /\ 0 \in Nat
      BY DEF TaskPcs
   <2>2. QED
      BY <1>1, <2>1, TaskSetEffect, IdleOver DEF PublishHistory, HistoryCore
<1>4. HistoryTyped'
   <2>1. RecordsFit
      BY <1>1, RecordsStand
   <2>2. "queued" \in TaskPcs /\ "queued" \notin Pulling /\ 0 \in Nat
      BY DEF TaskPcs, Pulling
   <2>3. QED
      BY <1>1, <1>3, <2>1, <2>2, TypedQuiet DEF HistoryCore, RecordsFit
<1>5. KeptInv' /\ BriefIsDefensible'
   BY <1>1, KeptQuiet, BriefQuiet DEF HistoryCore
<1>6. ToldInv'
   <2>1. Told(NewCase)'
      BY <1>1, <1>2, <1>3, CaptureFacts DEF Told, TaskBecomes, Answering, NoBasis, WasLost
   <2>2. QED
      BY <1>1, <1>3, <2>1, ToldStep DEF HistoryCore, TaskBecomes
<1>7. AccountInv'
   <2>1. Vouched(NewCase)'
      BY <1>1, <1>3, CaptureFacts, ReliedStands DEF Vouched, TaskBecomes, Answering
   <2>2. \A x \in 1..Len(pulls') : Accounted(x)'
      BY <1>1, <1>2, <1>3, AccountedStays DEF HistoryCore, TaskBecomes
   <2>3. QED
      BY <1>1, <1>3, <2>1, <2>2, AccountStep DEF HistoryCore, TaskBecomes
<1>8. QED
   BY <1>4, <1>5, <1>6, <1>7 DEF HistoryCore
-----------------------------------------------------------------------------
(* The captures, together.                                                 *)

LEMMA CapturesInvSplits ==
   CapturesInv <=> BundleInv /\ SyncInv /\ HistoryCore /\ OfficeInv
BY DEF CapturesInv, HistoryCore

LEMMA TmsStarts ==
   ASSUME NEW n \in Instances, scope = n.scope, TmsInit(n.scope.syncs, Known[n.scope.sample])
   PROVE  SyncInv
<1>1. units \in Known[n.scope.sample] /\ connection = [status |-> "active", synced |-> FALSE]
      /\ sync = [s \in Syncs |-> IF s \in n.scope.syncs THEN NotStarted ELSE [NotStarted EXCEPT !.pc = "over"]]
   BY DEF TmsInit
<1>2. DOMAIN units = UnitIds /\ UnitsStarted
   BY <1>1, InstancesAssumption DEF UnitsStarted
<1>3. sync \in [Syncs -> SyncRecords] /\ \A s \in Syncs : SyncFits(sync[s])
   BY <1>1, NotStartedFacts
<1>4. connection \in [status : {"active", "error"}, synced : BOOLEAN]
   BY <1>1
<1>5. QED
   BY <1>2, <1>3, <1>4 DEF SyncInv

LEMMA HistoryStarts ==
   ASSUME NEW n \in Instances, scope = n.scope, NEW asked, asked \subseteq n.scope.cases, HistoryInit(asked)
   PROVE  /\ HistoryCore /\ cache = 0
          /\ \A i \in Cases : /\ task[i].pc = IF i \in asked THEN "queued" ELSE "none"
                              /\ capture[i] = IF i \in asked THEN "queued" ELSE "none"
<1>1. IsFiniteSet(scope.cases) /\ scope.cases \subseteq Cases
   BY InstancesAssumption
<1> DEFINE x == [pc |-> "queued", snapshot |-> 0]
           y == [pc |-> "none", snapshot |-> 0]
<1>2. x \in TaskRecords /\ y \in TaskRecords /\ x.pc = "queued" /\ y.pc = "none"
   BY DEF TaskRecords, TaskPcs
<1> HIDE DEF x, y
<1>3. task = [i \in Cases |-> IF i \in asked THEN x ELSE y]
   BY IdleOver DEF HistoryInit, x, y
<1>4. /\ capture = [i \in Cases |-> IF i \in asked THEN "queued" ELSE "none"]
      /\ evidence = [i \in Cases |-> IF i \in asked THEN "in_progress" ELSE "none"]
      /\ link = [i \in Cases |-> Unmatched] /\ told = {} /\ cache = 0 /\ pulls = <<>>
      /\ inspections = [r \in Reports |-> Nil] /\ stored = <<>>
      /\ basis = [i \in Cases |-> NoBasis] /\ lostRuns = {} /\ losses = 0
   BY DEF HistoryInit
<1>5. \A i \in Cases : /\ task[i].pc = IF i \in asked THEN "queued" ELSE "none"
                       /\ capture[i] = IF i \in asked THEN "queued" ELSE "none"
                       /\ evidence[i] = IF i \in asked THEN "in_progress" ELSE "none"
                       /\ basis[i] = NoBasis /\ link[i] = Unmatched
   BY <1>2, <1>3, <1>4
<1>6. HistoryTyped
   <2>1. task \in [Cases -> [pc : TaskPcs, snapshot : Nat]]
      BY <1>2, <1>3 DEF TaskRecords
   <2>2. /\ capture \in [Cases -> {"none", "queued", "running", "succeeded", "failed"}]
         /\ evidence \in [Cases -> {"none", "in_progress", "fulfilled", "failed"}]
         /\ DOMAIN link = Cases /\ DOMAIN basis = Cases /\ told \subseteq Cases /\ losses \in Nat
      BY <1>4
   <2>3. inspections \in PullRecords /\ pulls \in Seq(PullRecords) /\ cache \in 0..Len(pulls)
         /\ stored \in Seq(Nat) /\ \A at \in 1..Len(stored) : stored[at] \in 1..Len(pulls)
      BY <1>4 DEF PullRecords
   <2>4. \A i \in Cases : task[i].pc \notin Pulling
      BY <1>5 DEF Pulling
   <2>5. QED
      BY <2>1, <2>2, <2>3, <2>4 DEF HistoryTyped
<1>7. KeptInv
   <2>1. StoredKept
      BY <1>4 DEF StoredKept
   <2>2. \A b : b = NoBasis => b.stored = <<>> /\ b.promised = {}
      BY DEF NoBasis
   <2>3. \A b : b = NoBasis => BasisKept(b)
      <3>1. <<>> \in Seq(Nat) /\ Len(<<>>) = 0 /\ 1..0 = {}
         OBVIOUS
      <3>2. QED
         BY <2>2, <3>1 DEF BasisKept
   <2>4. QED
      BY <1>5, <2>1, <2>3 DEF KeptInv
<1>8. BriefIsDefensible
   <2>1. NoBasis.units = {} /\ \A r \in Reports : Unmatched[r] = NoMatch
      BY DEF NoBasis, Unmatched
   <2>2. \A b, l : b.units = {} /\ (\A r \in Reports : l[r] = NoMatch) => Defensible(b, l)
      BY DEF Defensible
   <2>3. \A i \in Cases : Defensible(basis[i], link[i])
      BY <1>5, <2>1, <2>2
   <2>4. QED
      BY <2>3, BriefSays
<1>9. AccountInv
   BY <1>4, <1>5 DEF AccountInv, Vouched, Answering
<1>10. ToldInv
   BY <1>4, <1>5 DEF ToldInv, Told, Answering
<1>11. QED
   BY <1>4, <1>5, <1>6, <1>7, <1>8, <1>9, <1>10 DEF HistoryCore

LEMMA CapturesInvInit == Init => CapturesInv
<1> SUFFICES ASSUME Init
             PROVE  CapturesInv
   OBVIOUS
<1>1. BundleInv
   BY BundleInvInit
<1>2. PICK n \in Instances : /\ scope = n.scope /\ BundleInit(n.origin)
                             /\ HistoryInit(IF n.origin = "office" THEN {} ELSE n.scope.cases)
                             /\ TmsInit(n.scope.syncs, Known[n.scope.sample])
                             /\ office = IF n.origin = "office" THEN "create" ELSE "over"
   BY DEF Init
<1>3. attempted = FALSE /\ gaveUp = FALSE
   BY DEF Init
<1>4. SyncInv
   BY <1>2, TmsStarts
<1>5. PICK asked : asked = (IF n.origin = "office" THEN {} ELSE n.scope.cases) /\ HistoryInit(asked)
   BY <1>2
<1>6. /\ HistoryCore /\ cache = 0
      /\ \A i \in Cases : /\ task[i].pc = IF i \in asked THEN "queued" ELSE "none"
                          /\ capture[i] = IF i \in asked THEN "queued" ELSE "none"
   BY <1>2, <1>5, HistoryStarts
<1>7. CASE n.origin = "office"
   <2>1. office = "create" /\ asked = {} /\ (NoHistory \/ NewCase \in scope.cases)
      BY <1>2, <1>5, <1>7, InstancesAssumption DEF NoHistory
   <2>2. OfficeInv
      BY <1>3, <1>6, <2>1 DEF OfficeInv, Unbegun
   <2>3. QED
      BY <1>1, <1>4, <1>6, <2>2, CapturesInvSplits
<1>8. CASE n.origin # "office"
   <2>1. office = "over"
      BY <1>2, <1>8
   <2>2. run["first"].pc # "none"
      <3>1. PICK u \in RunRecords : u = Unpublished
         BY <1>1, UnpublishedFacts DEF BundleInv, BundleTyped
      <3>2. PICK pc \in {"queued", "over"} : pc = IF n.origin = "driver" THEN "queued" ELSE "over"
         OBVIOUS
      <3>3. run["first"] = [u EXCEPT !.pc = pc]
         BY <1>2, <1>8, <3>1, <3>2, BundleNames DEF BundleInit
      <3>4. [u EXCEPT !.pc = pc].pc = pc
         BY <3>1 DEF RunRecords
      <3>5. QED
         BY <3>2, <3>3, <3>4
   <2>3. OfficeInv
      BY <1>3, <1>6, <2>1, <2>2 DEF OfficeInv, Unbegun
   <2>4. QED
      BY <1>1, <1>4, <1>6, <2>3, CapturesInvSplits
<1>9. QED
   BY <1>7, <1>8

LEMMA CapturesInvStep == CapturesInv /\ [Next]_vars => CapturesInv'
<1> SUFFICES ASSUME BundleInv, SyncInv, HistoryCore, OfficeInv, [Next]_vars
             PROVE  BundleInv' /\ SyncInv' /\ HistoryCore' /\ OfficeInv'
   BY CapturesInvSplits DEF CapturesInv, HistoryCore
<1>1. BundleInv'
   BY BundleInvStep
<1>2. BundleTyped /\ OfficeTyped /\ HistoryTyped
   BY DEF BundleInv, HistoryCore
<1>3. SyncInv'
   <2>1. [TmsNext]_tmsVars
      BY DEF Next, OfficeNext, vars
   <2>2. QED
      BY <2>1, SyncStep
<1>4. CASE OfficeNext
   <2>1. HistoryCore'
      <3>1. CASE QueueHistory \/ PublishHistory
         BY <3>1, QueueHistoryStep, SendHistoryStep
      <3>2. CASE ~(QueueHistory \/ PublishHistory)
         <4>1. UNCHANGED historyVars
            BY <1>4, <3>2 DEF OfficeNext, BeginCaptures, OpenRequests, QueueBundle, LinkRequests, PublishBundle,
               EmitAttempted, OfficeGivesUp
         <4>2. QED
            BY <4>1, HistoryStill
      <3>3. QED
         BY <3>1, <3>2
   <2>2. QED
      BY <1>1, <1>2, <1>3, <1>4, <2>1, OfficeStep
<1>5. CASE BundleNext /\ UNCHANGED <<historyVars, tmsVars, officeVars>>
   <2>1. HistoryCore'
      BY <1>5, HistoryStill
   <2>2. Onward /\ Linking /\ UNCHANGED <<shape, scope, office, attempted, gaveUp>>
      BY <1>2, <1>5, BundleKeeps DEF historyVars, officeVars
   <2>3. HistoryKeeps
      BY <1>5, HistoryStands
   <2>4. QED
      BY <1>1, <1>2, <1>3, <2>1, <2>2, <2>3, OfficeHolds
<1>6. CASE CaptureNext /\ UNCHANGED <<scope, bundleVars, tmsVars, officeVars>>
   <2>1. HistoryCore'
      BY <1>6, HistoryStep
   <2>2. UNCHANGED <<shape, run, operation, request, scope, office, attempted, gaveUp>>
      BY <1>6 DEF bundleVars, officeVars
   <2>3. Onward /\ Linking
      BY <2>2, RunsStand, LinksStand
   <2>4. HistoryKeeps
      BY <1>2, <1>6, CaptureKeeps
   <2>5. QED
      BY <1>1, <1>2, <1>3, <2>1, <2>2, <2>3, <2>4, OfficeHolds
<1>7. CASE UNCHANGED <<bundleVars, historyVars, officeVars>>
   <2>1. HistoryCore'
      BY <1>7, HistoryStill
   <2>2. UNCHANGED <<shape, run, operation, request, scope, office, attempted, gaveUp>>
      BY <1>7 DEF bundleVars, historyVars, officeVars
   <2>3. Onward /\ Linking
      BY <2>2, RunsStand, LinksStand
   <2>4. HistoryKeeps
      BY <1>7, HistoryStands
   <2>5. QED
      BY <1>1, <1>2, <1>3, <2>1, <2>2, <2>3, <2>4, OfficeHolds
<1>8. QED
   BY <1>4, <1>5, <1>6, <1>7 DEF Next, vars

LEMMA HistoryMeans == CapturesInv => HistoryIsHonest
<1> SUFFICES ASSUME CapturesInv
             PROVE  HistoryIsHonest
   OBVIOUS
<1>1. SyncInv /\ HistoryTyped /\ KeptInv /\ BriefIsDefensible /\ AccountInv /\ ToldInv
   BY DEF CapturesInv
<1>2. HistoryTypeOK
   BY <1>1 DEF HistoryTypeOK, SyncInv, UnitsStarted, HistoryTyped
<1>3. HistoryIsComplete
   <2>1. ASSUME NEW i \in told
         PROVE  LET kept == basis[i].stored
                    relied == basis[i].snapshot
                IN /\ Contains(kept, relied) \/ relied \in basis[i].pending \/ LeftUnstored(relied)
                   /\ \A at \in DOMAIN kept : kept[at] = relied =>
                        \A r \in basis[i].promised :
                            \E later \in at..Len(kept) : basis[i].inspections[r] = pulls[kept[later]][r]
      <3>1. PICK b : b = basis[i] /\ BasisKept(b) /\ i \in Cases
         BY <1>1 DEF KeptInv, HistoryTyped
      <3>2. Contains(b.stored, b.snapshot) \/ b.snapshot \in b.pending \/ LeftUnstored(b.snapshot)
         BY <1>1, <3>1 DEF AccountInv, Vouched, Relied
      <3>3. DOMAIN b.stored = 1..Len(b.stored)
         BY <3>1 DEF BasisKept
      <3>4. \A at \in DOMAIN b.stored : b.stored[at] = b.snapshot =>
               \A r \in b.promised : \E later \in at..Len(b.stored) : b.inspections[r] = pulls[b.stored[later]][r]
         BY <3>1, <3>3 DEF BasisKept, PulledAs
      <3>5. QED
         BY <3>1, <3>2, <3>4
   <2>2. QED
      BY <2>1 DEF HistoryIsComplete
<1>4. CaptureTellsTruth
   BY <1>1 DEF ToldInv, Told, CaptureTellsTruth
<1>5. QED
   BY <1>1, <1>2, <1>3, <1>4 DEF HistoryIsHonest

LEMMA AttemptMeans == CapturesInv => AttemptIsTrue
BY DEF CapturesInv, OfficeInv, Linked, AttemptIsTrue

\* A violation history is honest: a match is defensible, a run that reported success
\* had what its snapshot promised, unless it found that snapshot cached and not yet,
\* or never, stored, and statuses tell what was done: tasks/evidence_tasks.py,
\* capture_driver_violation_history, db/repo/fmcsa_inspections.py and
\* services/fmcsa_attribution.py, for every number of incidents, inspections,
\* vehicles and synchronisations, whatever the authority and the transport
\* management system answer.
THEOREM HistoryStaysHonest == Spec => []HistoryIsHonest
BY CapturesInvInit, CapturesInvStep, HistoryMeans, PTL DEF Spec

\* What the office's log says was attempted was begun: api/routes_incidents.py,
\* create_incident_endpoint, wherever its process is lost.
THEOREM AttemptStaysTrue == Spec => []AttemptIsTrue
BY CapturesInvInit, CapturesInvStep, AttemptMeans, PTL DEF Spec
-----------------------------------------------------------------------------
(* What a step never does.                                                 *)

\* What a bundle has recorded stays: a rendering's row is never written again,
\* and its object, which a later run may put once more, is that of the row, unless
\* two runs were under way at once.
RecordedEvidenceStays ==
   \A d \in Sets : \A k \in Renderings : row[d][k] # None =>
      /\ row'[d][k] = row[d][k]
      /\ ~overlapped' => object'[d][k] = object[d][k]

\* A capture of the violation history that has ended rests: whatever other
\* incidents store, a pull, a synchronisation or a lost worker changes neither its
\* statuses nor the matches of its incident, nor what those rest on.
EndedCaptureRests ==
   \A i \in Cases : capture[i] \in {"succeeded", "failed"} =>
      /\ capture'[i] = capture[i] /\ evidence'[i] = evidence[i]
      /\ link'[i] = link[i] /\ basis'[i] = basis[i]

RowsStay == \A d \in Sets : \A k \in Renderings : row[d][k] # None => row'[d][k] = row[d][k]

LEMMA SavedRowsStay ==
   ASSUME BundleTyped, NEW m \in Messages, SaveArtifact(m)
   PROVE  RowsStay /\ UNCHANGED overlapped
<1>1. PICK x \in RunRecords : x = run[m]
   BY RunFacts
<1>2. x.set \in Sets /\ x.rendering \in Renderings /\ row \in [Sets -> [Renderings -> Answers \cup {None}]]
   BY DEF RunRecords, BundleTyped, ArtifactsTyped
<1>3. row[x.set][x.rendering] = None /\ row' = [row EXCEPT ![x.set][x.rendering] = x.answer]
   BY <1>1 DEF SaveArtifact, Set, Rendering
<1>4. \A d \in Sets : \A k \in Renderings : d # x.set \/ k # x.rendering => row'[d][k] = row[d][k]
   BY <1>2, <1>3
<1>5. QED
   BY <1>3, <1>4 DEF RowsStay, SaveArtifact, history

LEMMA RunKeepsRows ==
   ASSUME BundleTyped, NEW m \in Messages, Work(m) \/ Interrupt(m)
   PROVE  RowsStay /\ (overlapped => overlapped')
<1>1. CASE SaveArtifact(m)
   BY <1>1, SavedRowsStay
<1>2. CASE ~SaveArtifact(m)
   <2>1. UNCHANGED row
      BY <1>2 DEF Work, Interrupt, SkipDuplicate, Start, OpenOperation, RefuseUnmapped, FindRequest, Fetch,
         DatasetFails, Put, Announce, SaveConflict, Fulfil, EmitUnavailable, DocumentGap, Succeed, Finalize,
         TimeLimitInDataset, TimeLimitInRequest, RunRaises, WorkerLost, artifacts
   <2>2. CASE Start(m)
      BY <2>1, <2>2 DEF Start, RowsStay
   <2>3. CASE ~Start(m)
      <3>1. UNCHANGED overlapped
         BY <1>2, <2>3 DEF Work, Interrupt, SkipDuplicate, OpenOperation, RefuseUnmapped, FindRequest, Fetch,
            DatasetFails, Put, Announce, SaveConflict, Fulfil, EmitUnavailable, DocumentGap, Succeed, Finalize,
            TimeLimitInDataset, TimeLimitInRequest, RunRaises, WorkerLost, history
      <3>2. QED
         BY <2>1, <3>1 DEF RowsStay
   <2>4. QED
      BY <2>2, <2>3
<1>3. QED
   BY <1>1, <1>2

LEMMA StepKeepsRows ==
   ASSUME BundleTyped, [Next]_vars
   PROVE  RowsStay /\ (overlapped => overlapped') /\ UNCHANGED shape
<1>1. ASSUME UNCHANGED <<shape, artifacts, history>>
      PROVE  RowsStay /\ (overlapped => overlapped') /\ UNCHANGED shape
   BY <1>1 DEF RowsStay, artifacts, history
<1>2. CASE OfficeNext
   <2>1. UNCHANGED <<shape, artifacts, history>>
      BY <1>2 DEF OfficeNext, BeginCaptures, OpenRequests, QueueBundle, LinkRequests, PublishBundle, QueueHistory,
         PublishHistory, EmitAttempted, OfficeGivesUp, bundleVars, artifacts, history
   <2>2. QED
      BY <1>1, <2>1
<1>3. CASE BundleNext
   <2>1. UNCHANGED shape
      BY <1>3 DEF BundleNext
   <2>2. CASE \E m \in Messages : Work(m) \/ Interrupt(m)
      BY <2>1, <2>2, RunKeepsRows
   <2>3. CASE ChooseRequests \/ Requeue
      <3>1. UNCHANGED <<artifacts, history>>
         BY <2>3 DEF ChooseRequests, Requeue, MoveRequests, PublishRetry
      <3>2. QED
         BY <1>1, <2>1, <3>1
   <2>4. QED
      BY <1>3, <2>2, <2>3 DEF BundleNext
<1>4. CASE UNCHANGED bundleVars
   <2>1. UNCHANGED <<shape, artifacts, history>>
      BY <1>4 DEF bundleVars, artifacts, history
   <2>2. QED
      BY <1>1, <2>1
<1>5. QED
   BY <1>2, <1>3, <1>4 DEF Next, vars

LEMMA EvidenceStaysStep == BundleInv /\ BundleInv' /\ [Next]_vars => RecordedEvidenceStays
<1> SUFFICES ASSUME BundleInv, BundleInv', [Next]_vars,
                    NEW d \in Sets, NEW k \in Renderings, row[d][k] # None
             PROVE  /\ row'[d][k] = row[d][k]
                    /\ ~overlapped' => object'[d][k] = object[d][k]
   BY DEF RecordedEvidenceStays
<1>1. RowsStay /\ (overlapped => overlapped') /\ UNCHANGED shape
   BY StepKeepsRows DEF BundleInv
<1>2. row'[d][k] = row[d][k]
   BY <1>1 DEF RowsStay
<1>3. Sets' = Sets /\ Renderings' = Renderings
   BY <1>1, SameShape
<1>4. ASSUME ~overlapped'
      PROVE  object'[d][k] = object[d][k]
   <2>1. ~overlapped
      BY <1>1, <1>4
   <2>2. object[d][k] = row[d][k]
      BY <2>1 DEF BundleInv, LoneInv
   <2>3. object'[d][k] = row'[d][k]
      BY <1>2, <1>3, <1>4 DEF BundleInv, LoneInv
   <2>4. QED
      BY <1>2, <2>2, <2>3
<1>5. QED
   BY <1>2, <1>4

\* Recorded evidence is not replaced: tasks/evidence_tasks.py,
\* capture_telematics_bundle, and the operator's retry, for every number of
\* datasets, renderings and faults.
THEOREM RecordedEvidenceIsKept == Spec => [][RecordedEvidenceStays]_vars
<1>1. Spec => []BundleInv
   BY BundleInvInit, BundleInvStep, PTL DEF Spec
<1>2. BundleInv /\ BundleInv' /\ [Next]_vars => [RecordedEvidenceStays]_vars
   BY EvidenceStaysStep
<1>3. QED
   BY <1>1, <1>2, PTL DEF Spec

\* A task changes the record of its own incident, and a task that is over takes
\* no step.
LEMMA TaskKeepsRecords ==
   ASSUME HistoryTyped, NEW i \in Cases, Capture(i) \/ CaptureLost(i), NEW j \in Cases, task[j].pc = "over"
   PROVE  capture'[j] = capture[j] /\ evidence'[j] = evidence[j] /\ link'[j] = link[j] /\ basis'[j] = basis[j]
<1>1. j # i
   BY DEF Capture, BeginCapture, UseCache, PullInspections, PullFails, StoreInspections, MatchInspections,
      TellCaptured, SettleEvidence, EndCapture, CaptureLost, TaskAt
<1>2. capture'[j] = capture[j]
   <2>1. CASE UNCHANGED capture
      BY <2>1
   <2>2. CASE BeginCapture(i) \/ EndCapture(i)
      BY <1>1, <2>2 DEF BeginCapture, EndCapture, HistoryTyped
   <2>3. QED
      BY <2>1, <2>2 DEF Capture, UseCache, PullInspections, PullFails, StoreInspections, MatchInspections,
         TellCaptured, SettleEvidence, CaptureLost
<1>3. evidence'[j] = evidence[j]
   <2>1. CASE UNCHANGED evidence
      BY <2>1
   <2>2. CASE SettleEvidence(i)
      BY <1>1, <2>2 DEF SettleEvidence, HistoryTyped
   <2>3. QED
      BY <2>1, <2>2 DEF Capture, BeginCapture, UseCache, PullInspections, PullFails, StoreInspections,
         MatchInspections, TellCaptured, EndCapture, CaptureLost
<1>4. link'[j] = link[j] /\ basis'[j] = basis[j]
   <2>1. CASE UNCHANGED <<link, basis>>
      BY <2>1
   <2>2. CASE MatchInspections(i)
      <3>1. PICK now, how : link' = [link EXCEPT ![i] = now] /\ basis' = [basis EXCEPT ![i] = how]
         BY <2>2 DEF MatchInspections
      <3>2. QED
         BY <1>1, <3>1 DEF HistoryTyped
   <2>3. QED
      BY <2>1, <2>2 DEF Capture, BeginCapture, UseCache, PullInspections, PullFails, StoreInspections,
         TellCaptured, SettleEvidence, EndCapture, CaptureLost
<1>5. QED
   BY <1>2, <1>3, <1>4

LEMMA EndedCaptureStep == CapturesInv /\ [Next]_vars => EndedCaptureRests
<1> SUFFICES ASSUME CapturesInv, [Next]_vars, NEW j \in Cases, capture[j] \in {"succeeded", "failed"}
             PROVE  capture'[j] = capture[j] /\ evidence'[j] = evidence[j]
                    /\ link'[j] = link[j] /\ basis'[j] = basis[j]
   BY DEF EndedCaptureRests
<1>1. HistoryTyped /\ ToldInv /\ OfficeInv
   BY DEF CapturesInv
<1>2. task[j].pc = "over"
   BY <1>1 DEF ToldInv, Told
<1>3. CASE UNCHANGED <<capture, evidence, link, basis>>
   BY <1>3
<1>4. CASE \E i \in Cases : Capture(i) \/ CaptureLost(i)
   BY <1>1, <1>2, <1>4, TaskKeepsRecords
<1>5. ~QueueHistory
   BY <1>1 DEF QueueHistory, Office, OfficeInv
<1>6. QED
   <2>1. CASE OfficeNext
      <3>1. UNCHANGED <<capture, evidence, link, basis>>
         BY <1>5, <2>1 DEF OfficeNext, BeginCaptures, OpenRequests, QueueBundle, LinkRequests, PublishBundle,
            PublishHistory, EmitAttempted, OfficeGivesUp, historyVars
      <3>2. QED
         BY <1>3, <3>1
   <2>2. CASE CaptureNext
      BY <1>3, <1>4, <2>2 DEF CaptureNext, RefreshCarrier, WarmCache, CacheExpires
   <2>3. CASE UNCHANGED historyVars
      BY <1>3, <2>3 DEF historyVars
   <2>4. QED
      BY <2>1, <2>2, <2>3 DEF Next, vars

\* A capture that has ended is not touched again: tasks/evidence_tasks.py,
\* capture_driver_violation_history, which replaces the matches of its own
\* incident only.
THEOREM EndedCapturesRest == Spec => [][EndedCaptureRests]_vars
<1>1. Spec => []CapturesInv
   BY CapturesInvInit, CapturesInvStep, PTL DEF Spec
<1>2. CapturesInv /\ [Next]_vars => [EndedCaptureRests]_vars
   BY EndedCaptureStep
<1>3. QED
   BY <1>1, <1>2, PTL DEF Spec
-----------------------------------------------------------------------------
(* The weather: which task is at what, and what it may still append.       *)

WeatherSteps == {"none", "queued", "over", "dead"} \cup WeatherRunning

\* A request is served with a number of its own, and queues a task that is new.
InitiationTyped ==
   /\ initiation \in [serves : 0..MaxAsks, due : SUBSET Kinds]
   /\ initiation.serves = 0 => initiation.due = {}
   /\ \A t \in WeatherTasks :
         t[2] > initiation.serves \/ (t[2] = initiation.serves /\ t[1] \in initiation.due)
            => weather[t] = "none"

\* Only a snapshot's run has its request apart from the rest, only a map's an
\* object to store.
TasksTyped ==
   /\ weather \in [WeatherTasks -> WeatherSteps]
   /\ \A t \in WeatherTasks :
         /\ weather[t] \in {"request", "refuse"} => Kind(t) = "snapshot"
         /\ weather[t] = "store" => Kind(t) = "map"

StoreTyped ==
   /\ setting \in [positioned : BOOLEAN, window : BOOLEAN]
   /\ requested \in [Kinds -> Nat] /\ outcomes \in [Kinds -> Seq({"captured", "failed"})]
   /\ mapRows \subseteq WeatherTasks /\ mapObjects \subseteq WeatherTasks
   /\ unlocked \subseteq WeatherTasks /\ met \in BOOLEAN /\ mishaps \in Nat

WeatherTyped == InitiationTyped /\ TasksTyped /\ StoreTyped

\* A map's run works under the lock, unless all it has left is a failure to
\* report; while the lock is held the incident has no map's outcome.
LockHeld ==
   /\ lock \in WeatherTasks \cup {NoTask}
   /\ lock # NoTask => Kind(lock) = "map" /\ weather[lock] \in WeatherRunning /\ outcomes["map"] = <<>>
   /\ \A t \in WeatherTasks : Kind(t) = "map" /\ weather[t] \in WeatherRunning =>
         lock = t \/ (weather[t] = "fail" /\ t \in unlocked)

CountIn(q, what) == Cardinality({at \in DOMAIN q : q[at] = what})

\* The failures reported without the lock, the snapshots that are asked for.
Reported == {t \in unlocked : weather[t] = "over"}
AskedFor == {t \in WeatherTasks : Kind(t) = "snapshot" /\ weather[t] \in {"ask", "tell"}}

MapInv ==
   /\ CountIn(outcomes["map"], "captured") = Cardinality(mapRows)
   /\ Cardinality(mapRows) =< 1 /\ Cardinality(mapRows) =< requested["map"]
   /\ Len(outcomes["map"]) =< 1 + Cardinality(Reported)
   /\ \A t \in mapRows : weather[t] = "over" /\ t \in mapObjects
   /\ \A t \in WeatherTasks : Kind(t) = "map" /\ weather[t] = "tell" => t \in mapObjects

SnapshotRuns == {t \in WeatherTasks : Kind(t) = "snapshot" /\ weather[t] \in WeatherRunning}

SnapshotInv ==
   /\ CountIn(outcomes["snapshot"], "captured") + Cardinality(AskedFor) =< requested["snapshot"]
   /\ ~met => /\ \A t, u \in SnapshotRuns : t = u
              /\ SnapshotRuns # {} => outcomes["snapshot"] = <<>>
              /\ Len(outcomes["snapshot"]) =< 1

WeatherInv == WeatherTyped /\ LockHeld /\ MapInv /\ SnapshotInv
-----------------------------------------------------------------------------

LEMMA WeatherNames ==
   /\ \A t \in WeatherTasks : t \in Kinds \X (1..MaxAsks) /\ Kind(t) \in Kinds /\ t[2] \in 1..MaxAsks
                              /\ t = <<Kind(t), t[2]>>
   /\ NoTask \notin WeatherTasks /\ Kinds = {"snapshot", "map"}
   /\ IsFiniteSet(WeatherTasks) /\ MaxAsks \in Nat
<1>1. MaxAsks \in Nat
   BY WeatherAssumption
<1>2. IsFiniteSet(1..MaxAsks)
   BY <1>1, FS_Interval
<1>3. IsFiniteSet({"snapshot"}) /\ IsFiniteSet({"map"})
   BY FS_Singleton
<1>4. {"snapshot"} \cup {"map"} = Kinds
   BY DEF Kinds
<1>5. IsFiniteSet(Kinds)
   BY <1>3, <1>4, FS_Union
<1>6. IsFiniteSet(WeatherTasks)
   BY <1>2, <1>5, FS_Product DEF WeatherTasks
<1>7. QED
   BY <1>1, <1>6 DEF WeatherTasks, Kind, Kinds, NoTask

LEMMA WeatherToEffect ==
   ASSUME TasksTyped, NEW t \in WeatherTasks, NEW s \in WeatherSteps, WeatherTo(t, s)
   PROVE  /\ weather' \in [WeatherTasks -> WeatherSteps]
          /\ weather'[t] = s
          /\ \A u \in WeatherTasks : u # t => weather'[u] = weather[u]
BY DEF TasksTyped, WeatherTo

TaskStep(t) == WeatherWork(t) \/ LockRefused(t) \/ WeatherBreaks(t) \/ WeatherLost(t)

\* What every step of a task does to the steps and leaves alone.
LEMMA TaskMoves ==
   ASSUME WeatherTyped, NEW t \in WeatherTasks, TaskStep(t)
   PROVE  /\ \E s \in WeatherSteps \ {"none"} :
                /\ WeatherTo(t, s)
                /\ s \in {"request", "refuse"} => Kind(t) = "snapshot"
                /\ s = "store" => Kind(t) = "map"
          /\ weather[t] \in {"queued"} \cup WeatherRunning
          /\ UNCHANGED <<initiation, setting>>
<1> USE DEF WeatherSteps, WeatherRunning
<1>1. CASE Look(t) \/ Locate(t) \/ Request(t) \/ AskWeather(t) \/ TellWeather(t)
   BY <1>1 DEF Look, Locate, Request, AskWeather, TellWeather, WeatherAt
<1>2. CASE Acquire(t) \/ LocateMap(t) \/ RenderMap(t) \/ StoreMap(t) \/ TellMap(t)
   BY <1>2 DEF Acquire, LocateMap, RenderMap, StoreMap, TellMap, WeatherAt
<1>3. CASE TellFailure(t) \/ LockRefused(t) \/ WeatherBreaks(t) \/ WeatherLost(t)
   BY <1>3 DEF TellFailure, LockRefused, WeatherBreaks, WeatherLost, WeatherAt
<1>4. QED
   BY <1>1, <1>2, <1>3 DEF TaskStep, WeatherWork

LEMMA StoreTypedStep ==
   ASSUME WeatherTyped, NEW t \in WeatherTasks, TaskStep(t)
   PROVE  StoreTyped'
<1> USE WeatherNames DEF WeatherTyped, StoreTyped
<1>1. CASE Locate(t) \/ AskWeather(t) \/ RenderMap(t) \/ Acquire(t) \/ WeatherBreaks(t) \/ WeatherLost(t)
   BY <1>1 DEF Locate, AskWeather, RenderMap, Acquire, WeatherBreaks, WeatherLost, weatherEvents, mapStore, Mishap
<1>2. CASE Look(t)
   BY <1>2 DEF Look, weatherEvents, mapStore
<1>3. CASE Request(t)
   BY <1>3 DEF Request, mapStore
<1>4. CASE LocateMap(t) \/ LockRefused(t)
   BY <1>4 DEF LocateMap, LockRefused, weatherEvents, mapStore, Mishap
<1>5. CASE StoreMap(t)
   BY <1>5 DEF StoreMap, weatherEvents, mapStore
<1>6. ASSUME NEW what \in {"captured", "failed"}, Outcome(t, what)
      PROVE  outcomes' \in [Kinds -> Seq({"captured", "failed"})]
   BY <1>6 DEF Outcome
<1>7. CASE TellWeather(t)
   BY <1>6, <1>7 DEF TellWeather, mapStore
<1>8. CASE TellMap(t)
   BY <1>6, <1>8 DEF TellMap, mapStore
<1>9. CASE TellFailure(t)
   BY <1>6, <1>9 DEF TellFailure, mapStore
<1>10. QED
   BY <1>1, <1>2, <1>3, <1>4, <1>5, <1>7, <1>8, <1>9 DEF TaskStep, WeatherWork

LEMMA WeatherTypedInit == WeatherInit => WeatherTyped
<1> SUFFICES ASSUME WeatherInit PROVE WeatherTyped
   OBVIOUS
<1>1. InitiationTyped
   BY WeatherNames, WeatherAssumption DEF WeatherInit, InitiationTyped
<1>2. TasksTyped
   BY DEF WeatherInit, TasksTyped, WeatherSteps
<1>3. StoreTyped
   <2>1. <<>> \in Seq({"captured", "failed"})
      OBVIOUS
   <2>2. outcomes \in [Kinds -> Seq({"captured", "failed"})]
      BY <2>1 DEF WeatherInit
   <2>3. QED
      BY <2>2 DEF WeatherInit, StoreTyped
<1>4. QED
   BY <1>1, <1>2, <1>3 DEF WeatherTyped

LEMMA WeatherTypedStep == WeatherTyped /\ [WeatherNext]_weatherVars => WeatherTyped'
<1> SUFFICES ASSUME WeatherTyped, [WeatherNext]_weatherVars PROVE WeatherTyped'
   OBVIOUS
<1> USE WeatherNames
<1>1. CASE Initiate
   <2>1. InitiationTyped'
      BY <1>1, WeatherAssumption DEF Initiate, WeatherTyped, InitiationTyped, Missing
   <2>2. TasksTyped' /\ StoreTyped'
      BY <1>1 DEF Initiate, WeatherTyped, TasksTyped, StoreTyped, weatherEvents, mapStore
   <2>3. QED
      BY <2>1, <2>2 DEF WeatherTyped
<1>2. ASSUME NEW k \in Kinds, Queue(k)
      PROVE  WeatherTyped'
   <2> DEFINE t == <<k, initiation.serves>>
   <2>1. t \in WeatherTasks
      BY <1>2 DEF Queue, WeatherTyped, InitiationTyped, WeatherTasks
   <2>2. t[1] = k /\ t[2] = initiation.serves
      OBVIOUS
   <2>3. WeatherTo(t, "queued")
      BY <1>2 DEF Queue, WeatherTo
   <2>. HIDE DEF t
   <2>4. /\ weather' \in [WeatherTasks -> WeatherSteps] /\ weather'[t] = "queued"
         /\ \A u \in WeatherTasks : u # t => weather'[u] = weather[u]
      BY <2>1, <2>3, WeatherToEffect DEF WeatherTyped, WeatherSteps
   <2>5. initiation' = [initiation EXCEPT !.due = @ \ {k}]
      BY <1>2 DEF Queue
   <2>6. InitiationTyped'
      BY <2>1, <2>2, <2>4, <2>5 DEF WeatherTyped, InitiationTyped
   <2>7. TasksTyped'
      BY <2>4 DEF WeatherTyped, TasksTyped
   <2>8. StoreTyped'
      BY <1>2 DEF Queue, WeatherTyped, StoreTyped, weatherEvents, mapStore
   <2>9. QED
      BY <2>6, <2>7, <2>8 DEF WeatherTyped
<1>3. ASSUME NEW k \in Kinds, QueueRefused(k)
      PROVE  WeatherTyped'
   BY <1>3 DEF QueueRefused, Mishap, WeatherTyped, InitiationTyped, TasksTyped, StoreTyped, weatherEvents, mapStore
<1>4. ASSUME NEW t \in WeatherTasks, TaskStep(t)
      PROVE  WeatherTyped'
   <2>1. PICK s \in WeatherSteps \ {"none"} :
               /\ WeatherTo(t, s)
               /\ s \in {"request", "refuse"} => Kind(t) = "snapshot"
               /\ s = "store" => Kind(t) = "map"
      BY <1>4, TaskMoves
   <2>2. weather[t] \in {"queued"} \cup WeatherRunning /\ UNCHANGED initiation
      BY <1>4, TaskMoves
   <2>3. /\ weather' \in [WeatherTasks -> WeatherSteps] /\ weather'[t] = s
         /\ \A u \in WeatherTasks : u # t => weather'[u] = weather[u]
      BY <2>1, WeatherToEffect DEF WeatherTyped
   <2>4. weather[t] # "none"
      BY <2>2 DEF WeatherRunning
   <2>5. InitiationTyped'
      BY <2>2, <2>3, <2>4 DEF WeatherTyped, InitiationTyped
   <2>6. TasksTyped'
      BY <2>1, <2>3 DEF WeatherTyped, TasksTyped
   <2>7. QED
      BY <2>5, <2>6, <1>4, StoreTypedStep DEF WeatherTyped
<1>5. CASE UNCHANGED weatherVars
   BY <1>5 DEF weatherVars, weatherEvents, mapStore, WeatherTyped, InitiationTyped, TasksTyped, StoreTyped
<1>6. QED
   BY <1>1, <1>2, <1>3, <1>4, <1>5 DEF WeatherNext, TaskStep
-----------------------------------------------------------------------------

LEMMA TasksKinds == ASSUME TasksTyped, NEW t \in WeatherTasks
                    PROVE  Kind(t) = "map" \/ Kind(t) = "snapshot"
BY WeatherNames

\* Nobody but the holder appends for the map, and whoever gives the lock away
\* without an outcome has at most a failure left to report.
LEMMA LockHeldStep ==
   ASSUME WeatherTyped, LockHeld, NEW t \in WeatherTasks, TaskStep(t)
   PROVE  LockHeld'
<1> USE WeatherNames DEF WeatherTyped, StoreTyped, WeatherAt, LockHeld
<1>1. PICK s \in WeatherSteps \ {"none"} : WeatherTo(t, s)
   BY TaskMoves
<1>2. /\ weather' \in [WeatherTasks -> WeatherSteps] /\ weather'[t] = s
      /\ \A u \in WeatherTasks : u # t => weather'[u] = weather[u]
   BY <1>1, WeatherToEffect DEF WeatherTyped
<1>3. ASSUME NEW k \in Kinds, NEW what, k # "map",
             outcomes' = [outcomes EXCEPT ![k] = Append(@, what)]
      PROVE  outcomes'["map"] = outcomes["map"]
   BY <1>3
<1> USE DEF WeatherRunning
<1>4. CASE Look(t)
   BY <1>2, <1>4 DEF Look, weatherEvents
<1>5. CASE Locate(t)
   BY <1>2, <1>5 DEF Locate, weatherEvents
<1>6. CASE Request(t)
   BY <1>2, <1>6 DEF Request, TasksTyped
<1>7. CASE AskWeather(t)
   BY <1>2, <1>7 DEF AskWeather, weatherEvents
<1>8. CASE TellWeather(t)
   BY <1>2, <1>3, <1>8 DEF TellWeather, Outcome
<1>9. CASE Acquire(t)
   BY <1>2, <1>9 DEF Acquire, weatherEvents, WeatherTo, TasksTyped
<1>10. CASE LocateMap(t)
   BY <1>2, <1>10 DEF LocateMap, weatherEvents, Unlock, WeatherTo, TasksTyped
<1>11. CASE RenderMap(t)
   BY <1>2, <1>11 DEF RenderMap, weatherEvents, WeatherTo, TasksTyped
<1>12. CASE StoreMap(t)
   BY <1>2, <1>12 DEF StoreMap, weatherEvents, WeatherTo, TasksTyped
<1>13. CASE TellMap(t)
   BY <1>2, <1>13 DEF TellMap, Unlock, WeatherTo, TasksTyped
<1>14. CASE TellFailure(t)
   <2>1. CASE lock = t
      BY <1>2, <1>14, <2>1 DEF TellFailure, Unlock, WeatherTo, TasksTyped
   <2>2. CASE lock # t
      BY <1>2, <1>14, <2>2 DEF TellFailure, Unlock, WeatherTo, TasksTyped, MayAppend
   <2>3. QED
      BY <2>1, <2>2
<1>15. CASE LockRefused(t)
   BY <1>2, <1>15 DEF LockRefused, weatherEvents, WeatherTo, TasksTyped
<1>16. CASE WeatherBreaks(t)
   BY <1>2, <1>16 DEF WeatherBreaks, weatherEvents, Unlock, WeatherTo, TasksTyped
<1>17. CASE WeatherLost(t)
   BY <1>2, <1>17 DEF WeatherLost, weatherEvents, Unlock, WeatherTo, TasksTyped
<1>18. QED
   BY <1>4, <1>5, <1>6, <1>7, <1>8, <1>9, <1>10, <1>11, <1>12, <1>13, <1>14, <1>15, <1>16, <1>17
      DEF TaskStep, WeatherWork

LEMMA CountFacts ==
   ASSUME NEW S, NEW q \in Seq(S), NEW what
   PROVE  CountIn(q, what) \in Nat /\ IsFiniteSet({at \in DOMAIN q : q[at] = what})
<1>1. DOMAIN q = 1..Len(q) /\ Len(q) \in Nat
   OBVIOUS
<1>2. IsFiniteSet(DOMAIN q)
   BY <1>1, FS_Interval
<1>3. IsFiniteSet({at \in DOMAIN q : q[at] = what})
   BY <1>2, FS_Subset
<1>4. QED
   BY <1>3, FS_CardinalityType DEF CountIn

LEMMA CountAppend ==
   ASSUME NEW S, NEW q \in Seq(S), NEW x \in S, NEW what
   PROVE  CountIn(Append(q, x), what) = IF x = what THEN CountIn(q, what) + 1 ELSE CountIn(q, what)
<1> DEFINE old == {at \in DOMAIN q : q[at] = what}
           new == {at \in DOMAIN Append(q, x) : Append(q, x)[at] = what}
<1>1. PICK n \in Nat : n = Len(q)
   OBVIOUS
<1>2. DOMAIN q = 1..n /\ DOMAIN Append(q, x) = 1..(n + 1) /\ Append(q, x)[n + 1] = x
      /\ \A at \in 1..n : Append(q, x)[at] = q[at]
   BY <1>1
<1>3. IsFiniteSet(old)
   BY CountFacts
<1>4. CASE x = what
   <2>1. new = old \cup {n + 1} /\ n + 1 \notin old
      BY <1>2, <1>4
   <2>2. Cardinality(old \cup {n + 1}) = IF n + 1 \in old THEN Cardinality(old) ELSE Cardinality(old) + 1
      BY <1>3, FS_AddElement
   <2>3. QED
      BY <1>4, <2>1, <2>2 DEF CountIn
<1>5. CASE x # what
   <2>1. new = old
      BY <1>2, <1>5
   <2>2. QED
      BY <1>5, <2>1 DEF CountIn
<1>6. QED
   BY <1>4, <1>5

LEMMA CountEmpty == CountIn(<<>>, "captured") = 0
<1>1. {at \in DOMAIN <<>> : <<>>[at] = "captured"} = {}
   OBVIOUS
<1>2. QED
   BY <1>1, FS_EmptySet DEF CountIn

\* Over is over; what was reported without the lock stays so.
LEMMA ReportedGrows ==
   ASSUME WeatherTyped, NEW t \in WeatherTasks, TaskStep(t)
   PROVE  /\ Reported \subseteq Reported' /\ unlocked \subseteq unlocked' /\ weather[t] # "over"
          /\ Cardinality(Reported) \in Nat /\ Cardinality(Reported') \in Nat
          /\ IsFiniteSet(Reported) /\ IsFiniteSet(Reported')
          /\ Cardinality(Reported) =< Cardinality(Reported')
<1>1. unlocked \subseteq unlocked' /\ unlocked' \subseteq WeatherTasks
   <2>1. StoreTyped'
      BY StoreTypedStep
   <2>2. unlocked \subseteq unlocked'
      BY DEF TaskStep, WeatherWork, Look, Locate, Request, AskWeather, TellWeather, Acquire, LocateMap,
             RenderMap, StoreMap, TellMap, TellFailure, LockRefused, WeatherBreaks, WeatherLost
   <2>3. QED
      BY <2>1, <2>2 DEF StoreTyped
<1>2. PICK s \in WeatherSteps \ {"none"} : WeatherTo(t, s)
   BY TaskMoves
<1>3. weather[t] # "over"
   BY TaskMoves DEF WeatherRunning
<1>4. \A u \in WeatherTasks : weather[u] = "over" => weather'[u] = "over"
   BY <1>2, <1>3, WeatherToEffect DEF WeatherTyped
<1>5. Reported \subseteq Reported'
   BY <1>1, <1>4 DEF Reported, WeatherTyped, StoreTyped
<1>6. IsFiniteSet(Reported')
   BY <1>1, WeatherNames, FS_Subset DEF Reported
<1>7. IsFiniteSet(Reported) /\ Cardinality(Reported) =< Cardinality(Reported')
   BY <1>5, <1>6, FS_Subset
<1>8. QED
   BY <1>1, <1>3, <1>5, <1>6, <1>7, FS_CardinalityType

LEMMA RowsFinite == StoreTyped => IsFiniteSet(mapRows) /\ Cardinality(mapRows) \in Nat
BY WeatherNames, FS_Subset, FS_CardinalityType DEF StoreTyped

LEMMA MapPlain ==
   ASSUME WeatherTyped, MapInv, NEW t \in WeatherTasks, TaskStep(t),
          outcomes'["map"] = outcomes["map"], requested'["map"] = requested["map"],
          mapRows' = mapRows, mapObjects \subseteq mapObjects',
          Kind(t) = "map" /\ weather'[t] = "tell" => t \in mapObjects'
   PROVE  MapInv'
<1>1. \A u \in WeatherTasks : u # t => weather'[u] = weather[u]
   BY TaskMoves, WeatherToEffect DEF WeatherTyped
<1>2. weather[t] # "over"
   BY ReportedGrows
<1>3. Len(outcomes["map"]) \in Nat
   BY WeatherNames DEF WeatherTyped, StoreTyped
<1>4. Len(outcomes["map"]) =< 1 + Cardinality(Reported)'
   BY <1>3, ReportedGrows DEF MapInv
<1>5. \A u \in mapRows : weather'[u] = "over" /\ u \in mapObjects'
   BY <1>1, <1>2 DEF MapInv, WeatherTyped, StoreTyped
<1>6. \A u \in WeatherTasks : Kind(u) = "map" /\ weather'[u] = "tell" => u \in mapObjects'
   BY <1>1 DEF MapInv
<1>7. QED
   BY <1>4, <1>5, <1>6 DEF MapInv

LEMMA MapInvStep ==
   ASSUME WeatherTyped, LockHeld, MapInv, NEW t \in WeatherTasks, TaskStep(t)
   PROVE  MapInv'
<1> USE WeatherNames
<1>1. PICK s \in WeatherSteps \ {"none"} : WeatherTo(t, s)
   BY TaskMoves
<1>2. /\ weather' \in [WeatherTasks -> WeatherSteps] /\ weather'[t] = s
      /\ \A u \in WeatherTasks : u # t => weather'[u] = weather[u]
   BY <1>1, WeatherToEffect DEF WeatherTyped
<1>3. StoreTyped' /\ StoreTyped /\ TasksTyped
   BY StoreTypedStep DEF WeatherTyped
<1>4. IsFiniteSet(mapRows) /\ Cardinality(mapRows) \in Nat
   BY <1>3, RowsFinite
<1>5. outcomes["map"] \in Seq({"captured", "failed"})
   BY <1>3 DEF StoreTyped
<1>6. CASE Look(t) \/ Locate(t) \/ Acquire(t) \/ LocateMap(t) \/ LockRefused(t) \/ WeatherBreaks(t) \/ WeatherLost(t)
   <2>1. UNCHANGED <<requested, outcomes, mapRows, mapObjects>>
      BY <1>6 DEF Look, Locate, Acquire, LocateMap, LockRefused, WeatherBreaks, WeatherLost,
                  weatherEvents, mapStore
   <2>2. weather'[t] # "tell"
      BY <1>3, <1>6 DEF Look, Locate, Acquire, LocateMap, LockRefused, WeatherBreaks, WeatherLost,
                  WeatherTo, TasksTyped
   <2>3. QED
      BY <2>1, <2>2, MapPlain
<1>7. CASE Request(t)
   <2>1. Kind(t) = "snapshot"
      BY <1>3, <1>7 DEF Request, TasksTyped
   <2>2. UNCHANGED <<outcomes, mapRows, mapObjects>> /\ requested'["map"] = requested["map"]
      BY <1>3, <1>7, <2>1 DEF Request, mapStore, StoreTyped
   <2>3. QED
      BY <2>1, <2>2, MapPlain
<1>8. CASE AskWeather(t)
   <2>1. UNCHANGED <<requested, outcomes, mapRows, mapObjects>> /\ Kind(t) = "snapshot"
      BY <1>8 DEF AskWeather, weatherEvents, mapStore
   <2>2. QED
      BY <2>1, MapPlain
<1>9. CASE TellWeather(t)
   <2>1. UNCHANGED <<requested, mapRows, mapObjects>> /\ Kind(t) = "snapshot"
         /\ outcomes'["map"] = outcomes["map"]
      BY <1>3, <1>9 DEF TellWeather, mapStore, Outcome, StoreTyped
   <2>2. QED
      BY <2>1, MapPlain
<1>10. CASE RenderMap(t)
   <2>1. UNCHANGED <<requested, outcomes, mapRows, mapObjects>> /\ weather'[t] # "tell"
      BY <1>3, <1>10 DEF RenderMap, weatherEvents, mapStore, WeatherTo, TasksTyped
   <2>2. QED
      BY <2>1, MapPlain
<1>11. CASE StoreMap(t)
   <2>1. UNCHANGED <<requested, outcomes, mapRows>> /\ mapObjects \subseteq mapObjects'
         /\ (weather'[t] = "tell" => t \in mapObjects')
      BY <1>3, <1>11 DEF StoreMap, weatherEvents, WeatherTo, TasksTyped
   <2>2. QED
      BY <2>1, MapPlain
<1>12. CASE TellMap(t)
   <2>1. /\ Kind(t) = "map" /\ weather[t] = "tell" /\ weather'[t] = "over" /\ UNCHANGED mapObjects
         /\ mapRows' = mapRows \cup {t} /\ requested' = [requested EXCEPT !["map"] = @ + 1]
         /\ Outcome(t, "captured")
      BY <1>3, <1>12 DEF TellMap, WeatherAt, WeatherTo, TasksTyped
   <2>2. lock = t /\ outcomes["map"] = <<>>
      BY <2>1 DEF LockHeld, WeatherRunning, NoTask, WeatherTasks
   <2>3. outcomes'["map"] = Append(<<>>, "captured")
      BY <1>3, <2>1, <2>2 DEF Outcome, StoreTyped
   <2>4. CountIn(outcomes'["map"], "captured") = 1
      <3>1. <<>> \in Seq({"captured", "failed"})
         OBVIOUS
      <3>2. "captured" \in {"captured", "failed"}
         OBVIOUS
      <3>3. CountIn(Append(<<>>, "captured"), "captured") = CountIn(<<>>, "captured") + 1
         BY <3>1, <3>2, CountAppend
      <3>4. QED
         BY <2>3, <3>3, CountEmpty
   <2>5. Cardinality(mapRows) = 0
      BY <2>2, CountEmpty DEF MapInv
   <2>6. mapRows' = {t}
      BY <1>4, <2>1, <2>5, FS_EmptySet
   <2>7. Cardinality(mapRows') = 1
      BY <2>6, FS_Singleton
   <2>8. requested'["map"] \in Nat /\ requested'["map"] >= 1
      BY <1>3, <2>1 DEF StoreTyped
   <2>9. Len(outcomes'["map"]) = 1
      BY <2>3
   <2>10. Len(outcomes'["map"]) =< 1 + Cardinality(Reported)'
      BY <2>9, ReportedGrows
   <2>11. t \in mapObjects
      BY <2>1 DEF MapInv
   <2>12. \A u \in WeatherTasks : Kind(u) = "map" /\ weather'[u] = "tell" => u \in mapObjects'
      BY <1>2, <2>1 DEF MapInv
   <2>13. QED
      BY <2>1, <2>4, <2>6, <2>7, <2>8, <2>10, <2>11, <2>12 DEF MapInv
<1>13. CASE TellFailure(t)
   <2>1. /\ weather[t] = "fail" /\ weather'[t] = "over" /\ UNCHANGED <<mapRows, mapObjects>>
         /\ requested' = IF lock = t THEN [requested EXCEPT !["map"] = @ + 1] ELSE requested
         /\ Outcome(t, "failed") /\ MayAppend(t)
      BY <1>3, <1>13 DEF TellFailure, WeatherAt, WeatherTo, TasksTyped, mapStore
   <2>2. CASE Kind(t) = "snapshot"
      <3>1. outcomes'["map"] = outcomes["map"] /\ UNCHANGED requested
         BY <1>3, <2>1, <2>2 DEF Outcome, StoreTyped, LockHeld
      <3>2. QED
         BY <2>1, <2>2, <3>1, MapPlain
   <2>3. CASE Kind(t) = "map"
      <3>1. outcomes'["map"] = Append(outcomes["map"], "failed")
         BY <1>3, <2>1, <2>3 DEF Outcome, StoreTyped
      <3>2. CountIn(outcomes'["map"], "captured") = CountIn(outcomes["map"], "captured")
         BY <1>5, <3>1, CountAppend
      <3>3. PICK n \in Nat : n = Len(outcomes["map"])
         BY <1>5
      <3>4. Len(outcomes'["map"]) = n + 1
         BY <1>5, <3>1, <3>3
      <3>5. n + 1 =< 1 + Cardinality(Reported)'
         <4>1. CASE lock = t
            <5>1. outcomes["map"] = <<>>
               BY <4>1 DEF LockHeld
            <5>2. n = 0
               BY <3>3, <5>1
            <5>3. QED
               BY <5>2, ReportedGrows
         <4>2. CASE lock # t
            <5>1. t \in unlocked
               BY <2>1, <2>3, <4>2 DEF LockHeld, WeatherRunning
            <5>2. t \in Reported' /\ t \notin Reported
               BY <2>1, <5>1, ReportedGrows DEF Reported
            <5>3. Reported \cup {t} \subseteq Reported'
               BY <5>2, ReportedGrows
            <5>4. Cardinality(Reported \cup {t}) = IF t \in Reported THEN Cardinality(Reported)
                                                   ELSE Cardinality(Reported) + 1
               BY ReportedGrows, FS_AddElement
            <5>5. Cardinality(Reported \cup {t}) =< Cardinality(Reported')
               BY <5>3, ReportedGrows, FS_Subset
            <5>6. n =< 1 + Cardinality(Reported)
               BY <3>3 DEF MapInv
            <5>7. QED
               BY <5>2, <5>4, <5>5, <5>6, ReportedGrows
         <4>3. QED
            BY <4>1, <4>2
      <3>6. requested["map"] \in Nat /\ (requested'["map"] = requested["map"] \/ requested'["map"] = requested["map"] + 1)
         BY <1>3, <2>1 DEF StoreTyped
      <3>7. Cardinality(mapRows) =< requested'["map"]
         BY <1>4, <3>6 DEF MapInv
      <3>8. \A u \in mapRows : weather'[u] = "over" /\ u \in mapObjects'
         BY <1>2, <1>3, <2>1 DEF MapInv, StoreTyped
      <3>9. \A u \in WeatherTasks : Kind(u) = "map" /\ weather'[u] = "tell" => u \in mapObjects'
         BY <1>2, <2>1 DEF MapInv
      <3>10. QED
         BY <2>1, <3>2, <3>4, <3>5, <3>7, <3>8, <3>9 DEF MapInv
   <2>4. QED
      BY <2>2, <2>3, <1>3, TasksKinds
<1>14. QED
   BY <1>6, <1>7, <1>8, <1>9, <1>10, <1>11, <1>12, <1>13 DEF TaskStep, WeatherWork

LEMMA AskedForFinite == IsFiniteSet(AskedFor) /\ Cardinality(AskedFor) \in Nat
BY WeatherNames, FS_Subset, FS_CardinalityType DEF AskedFor

\* A task that asks for nothing new leaves no more to tell.
LEMMA SnapshotCount ==
   ASSUME WeatherTyped, LockHeld, SnapshotInv, NEW t \in WeatherTasks, TaskStep(t)
   PROVE  CountIn(outcomes'["snapshot"], "captured") + Cardinality(AskedFor') =< requested'["snapshot"]
<1> USE WeatherNames
<1>1. PICK s \in WeatherSteps \ {"none"} : WeatherTo(t, s)
   BY TaskMoves
<1>2. /\ weather' \in [WeatherTasks -> WeatherSteps] /\ weather'[t] = s
      /\ \A u \in WeatherTasks : u # t => weather'[u] = weather[u]
   BY <1>1, WeatherToEffect DEF WeatherTyped
<1>3. StoreTyped /\ TasksTyped
   BY DEF WeatherTyped
<1>4. outcomes["snapshot"] \in Seq({"captured", "failed"}) /\ requested["snapshot"] \in Nat
   BY <1>3 DEF StoreTyped
<1>5. PICK c \in Nat : c = CountIn(outcomes["snapshot"], "captured")
   BY <1>4, CountFacts
<1>6. PICK a \in Nat : a = Cardinality(AskedFor)
   BY AskedForFinite
<1>7. PICK r \in Nat : r = requested["snapshot"]
   BY <1>4
<1>8. c + a =< r
   BY <1>5, <1>6, <1>7 DEF SnapshotInv
<1>9. AskedFor' \subseteq AskedFor \cup {t}
   BY <1>2 DEF AskedFor
<1>10. ASSUME s \notin {"ask", "tell"} \/ Kind(t) # "snapshot" \/ t \in AskedFor
       PROVE  AskedFor' \subseteq AskedFor
   BY <1>2, <1>10 DEF AskedFor
<1>11. ASSUME AskedFor' \subseteq AskedFor
       PROVE  Cardinality(AskedFor') \in Nat /\ Cardinality(AskedFor') =< a
   <2>1. IsFiniteSet(AskedFor') /\ Cardinality(AskedFor') =< Cardinality(AskedFor)
      BY <1>11, AskedForFinite, FS_Subset
   <2>2. QED
      BY <2>1, <1>6, FS_CardinalityType
<1>12. ASSUME AskedFor' \subseteq AskedFor, outcomes'["snapshot"] = outcomes["snapshot"],
              requested'["snapshot"] \in {r, r + 1}
       PROVE  CountIn(outcomes'["snapshot"], "captured") + Cardinality(AskedFor') =< requested'["snapshot"]
   BY <1>5, <1>8, <1>11, <1>12
<1>13. CASE Look(t) \/ Locate(t) \/ Acquire(t) \/ LocateMap(t) \/ LockRefused(t) \/ WeatherBreaks(t) \/ WeatherLost(t)
            \/ RenderMap(t) \/ StoreMap(t)
   <2>1. UNCHANGED <<requested, outcomes>>
      BY <1>13 DEF Look, Locate, Acquire, LocateMap, LockRefused, WeatherBreaks, WeatherLost, RenderMap, StoreMap,
                   weatherEvents
   <2>2. s \notin {"ask", "tell"} \/ Kind(t) # "snapshot"
      BY <1>1, <1>2, <1>3, <1>13 DEF Look, Locate, Acquire, LocateMap, LockRefused, WeatherBreaks, WeatherLost,
                   RenderMap, StoreMap, WeatherTo, TasksTyped
   <2>3. QED
      BY <2>1, <2>2, <1>7, <1>10, <1>12
<1>14. CASE Request(t)
   <2>1. Kind(t) = "snapshot" /\ UNCHANGED outcomes
      BY <1>3, <1>14 DEF Request, TasksTyped
   <2>2. requested'["snapshot"] = r + 1
      BY <1>3, <1>7, <1>14, <2>1 DEF Request, StoreTyped
   <2>3. Cardinality(AskedFor \cup {t}) = IF t \in AskedFor THEN Cardinality(AskedFor) ELSE Cardinality(AskedFor) + 1
      BY AskedForFinite, FS_AddElement
   <2>4. IsFiniteSet(AskedFor \cup {t})
      BY AskedForFinite, FS_AddElement
   <2>5. Cardinality(AskedFor') =< Cardinality(AskedFor \cup {t}) /\ Cardinality(AskedFor') \in Nat
      BY <1>9, <2>4, FS_Subset, FS_CardinalityType
   <2>6. Cardinality(AskedFor') =< a + 1
      BY <1>6, <2>3, <2>5
   <2>7. QED
      BY <1>5, <1>8, <2>1, <2>2, <2>5, <2>6
<1>15. CASE AskWeather(t)
   <2>1. UNCHANGED <<requested, outcomes>> /\ t \in AskedFor
      BY <1>15 DEF AskWeather, weatherEvents, AskedFor, WeatherAt
   <2>2. QED
      BY <2>1, <1>7, <1>10, <1>12
<1>16. CASE TellWeather(t)
   <2>1. Kind(t) = "snapshot" /\ weather[t] = "tell" /\ UNCHANGED requested /\ s = "over"
         /\ Outcome(t, "captured")
      BY <1>1, <1>2, <1>3, <1>16 DEF TellWeather, WeatherAt, WeatherTo, TasksTyped
   <2>2. outcomes'["snapshot"] = Append(outcomes["snapshot"], "captured")
      BY <1>3, <2>1 DEF Outcome, StoreTyped
   <2>3. "captured" \in {"captured", "failed"}
      OBVIOUS
   <2>4. CountIn(outcomes'["snapshot"], "captured") = c + 1
      BY <1>4, <1>5, <2>2, <2>3, CountAppend
   <2>5. t \in AskedFor /\ AskedFor' = AskedFor \ {t}
      BY <1>2, <2>1 DEF AskedFor
   <2>6. Cardinality(AskedFor \ {t}) = IF t \in AskedFor THEN Cardinality(AskedFor) - 1 ELSE Cardinality(AskedFor)
      BY AskedForFinite, FS_RemoveElement
   <2>7. Cardinality(AskedFor') = a - 1
      BY <1>6, <2>5, <2>6
   <2>8. (c + 1) + (a - 1) =< r
      BY <1>8
   <2>9. QED
      BY <1>7, <2>1, <2>4, <2>7, <2>8
<1>17. CASE TellMap(t)
   <2>1. Kind(t) = "map" /\ requested' = [requested EXCEPT !["map"] = @ + 1] /\ Outcome(t, "captured")
      BY <1>17 DEF TellMap
   <2>2. outcomes'["snapshot"] = outcomes["snapshot"] /\ requested'["snapshot"] = r
      BY <1>3, <1>7, <2>1 DEF Outcome, StoreTyped
   <2>3. QED
      BY <2>1, <2>2, <1>10, <1>12
<1>18. CASE TellFailure(t)
   <2>1. s = "over" /\ Outcome(t, "failed")
         /\ requested' = IF lock = t THEN [requested EXCEPT !["map"] = @ + 1] ELSE requested
      BY <1>1, <1>2, <1>3, <1>18 DEF TellFailure, WeatherTo, TasksTyped
   <2>2. requested'["snapshot"] = r
      BY <1>3, <1>7, <2>1 DEF StoreTyped
   <2>3. "failed" \in {"captured", "failed"} /\ "failed" # "captured"
      OBVIOUS
   <2>4. outcomes'["snapshot"] \in {outcomes["snapshot"], Append(outcomes["snapshot"], "failed")}
      BY <1>3, <2>1 DEF Outcome, StoreTyped
   <2>5. CountIn(outcomes'["snapshot"], "captured") = c
      <3>1. CountIn(Append(outcomes["snapshot"], "failed"), "captured") = CountIn(outcomes["snapshot"], "captured")
         BY <1>4, <2>3, CountAppend
      <3>2. QED
         BY <1>5, <2>4, <3>1
   <2>6. QED
      BY <1>8, <1>10, <1>11, <2>1, <2>2, <2>5
<1>19. QED
   BY <1>13, <1>14, <1>15, <1>16, <1>17, <1>18 DEF TaskStep, WeatherWork

\* Unless two have met, the one at work finds no outcome and leaves the only one.
LEMMA SnapshotAlone ==
   ASSUME WeatherTyped, SnapshotInv, NEW t \in WeatherTasks, TaskStep(t), ~met'
   PROVE  /\ \A u, v \in SnapshotRuns' : u = v
          /\ SnapshotRuns' # {} => outcomes'["snapshot"] = <<>>
          /\ Len(outcomes'["snapshot"]) =< 1
<1> USE WeatherNames
<1>1. PICK s \in WeatherSteps \ {"none"} : WeatherTo(t, s)
   BY TaskMoves
<1>2. /\ weather' \in [WeatherTasks -> WeatherSteps] /\ weather'[t] = s
      /\ \A u \in WeatherTasks : u # t => weather'[u] = weather[u]
   BY <1>1, WeatherToEffect DEF WeatherTyped
<1>3. StoreTyped /\ TasksTyped
   BY DEF WeatherTyped
<1>4. ~met
   BY DEF TaskStep, WeatherWork, Look, Locate, Request, AskWeather, TellWeather, Acquire, LocateMap,
          RenderMap, StoreMap, TellMap, TellFailure, LockRefused, WeatherBreaks, WeatherLost
<1>5. /\ \A u, v \in SnapshotRuns : u = v
      /\ SnapshotRuns # {} => outcomes["snapshot"] = <<>>
      /\ Len(outcomes["snapshot"]) =< 1
   BY <1>4 DEF SnapshotInv
<1>6. ASSUME t \in SnapshotRuns \/ Kind(t) = "map" \/ s \notin WeatherRunning
      PROVE  SnapshotRuns' \subseteq SnapshotRuns
   BY <1>2, <1>6 DEF SnapshotRuns
<1>7. CASE Look(t)
   <2>1. UNCHANGED outcomes /\ Kind(t) = "snapshot" /\ weather[t] = "queued"
         /\ (\A u \in WeatherTasks \ {t} : Kind(u) = Kind(t) => weather[u] \notin WeatherRunning)
         /\ s = IF outcomes["snapshot"] = <<>> THEN "locate" ELSE "over"
      BY <1>1, <1>2, <1>3, <1>7 DEF Look, weatherEvents, WeatherAt, WeatherTo, TasksTyped
   <2>2. SnapshotRuns = {}
      <3>1. weather[t] \notin WeatherRunning
         BY <2>1 DEF WeatherRunning
      <3>2. \A u \in WeatherTasks : u # t /\ Kind(u) = "snapshot" => weather[u] \notin WeatherRunning
         BY <2>1
      <3>3. QED
         BY <3>1, <3>2 DEF SnapshotRuns
   <2>3. SnapshotRuns' \subseteq {t} /\ (SnapshotRuns' # {} => outcomes["snapshot"] = <<>>)
      <3>1. SnapshotRuns' \subseteq {t} /\ (t \in SnapshotRuns' => s \in WeatherRunning)
         BY <1>2, <2>2 DEF SnapshotRuns
      <3>2. outcomes["snapshot"] = <<>> \/ s = "over"
         BY <2>1
      <3>3. s \in WeatherRunning => outcomes["snapshot"] = <<>>
         BY <3>2 DEF WeatherRunning
      <3>4. QED
         BY <3>1, <3>3
   <2>4. QED
      BY <1>5, <2>1, <2>3
<1>8. ASSUME t \in SnapshotRuns \/ Kind(t) = "map" \/ s \notin WeatherRunning, outcomes'["snapshot"] = outcomes["snapshot"]
      PROVE  /\ \A u, v \in SnapshotRuns' : u = v
             /\ SnapshotRuns' # {} => outcomes'["snapshot"] = <<>>
             /\ Len(outcomes'["snapshot"]) =< 1
   BY <1>5, <1>6, <1>8
<1>9. CASE Locate(t) \/ Request(t) \/ AskWeather(t)
   <2>1. UNCHANGED outcomes /\ t \in SnapshotRuns
      BY <1>3, <1>9 DEF Locate, Request, AskWeather, weatherEvents, SnapshotRuns, WeatherAt, WeatherRunning, TasksTyped
   <2>2. QED
      BY <2>1, <1>8
<1>10. CASE Acquire(t) \/ LocateMap(t) \/ RenderMap(t) \/ StoreMap(t) \/ LockRefused(t)
   <2>1. UNCHANGED outcomes /\ Kind(t) = "map"
      BY <1>10 DEF Acquire, LocateMap, RenderMap, StoreMap, LockRefused, weatherEvents
   <2>2. QED
      BY <2>1, <1>8
<1>11. CASE WeatherBreaks(t) \/ WeatherLost(t)
   <2>1. UNCHANGED outcomes /\ s \notin WeatherRunning
      BY <1>1, <1>2, <1>3, <1>11 DEF WeatherBreaks, WeatherLost, weatherEvents, WeatherTo, TasksTyped, WeatherRunning
   <2>2. QED
      BY <2>1, <1>8
<1>12. CASE TellWeather(t) \/ TellMap(t) \/ TellFailure(t)
   <2>1. s = "over" /\ weather[t] \in WeatherRunning /\ \E what \in {"captured", "failed"} : Outcome(t, what)
      BY <1>1, <1>2, <1>3, <1>12 DEF TellWeather, TellMap, TellFailure, WeatherAt, WeatherTo, TasksTyped, WeatherRunning
   <2>2. s \notin WeatherRunning
      BY <2>1 DEF WeatherRunning
   <2>3. CASE Kind(t) = "map"
      <3>1. outcomes'["snapshot"] = outcomes["snapshot"]
         BY <1>3, <2>1, <2>3 DEF Outcome, StoreTyped
      <3>2. QED
         BY <2>3, <3>1, <1>8
   <2>4. CASE Kind(t) = "snapshot"
      <3>1. t \in SnapshotRuns
         BY <2>1, <2>4 DEF SnapshotRuns
      <3>2. outcomes["snapshot"] = <<>> /\ SnapshotRuns' = {}
         BY <1>2, <1>5, <2>2, <3>1 DEF SnapshotRuns
      <3>3. PICK what \in {"captured", "failed"} : outcomes'["snapshot"] = Append(<<>>, what)
         BY <1>3, <2>1, <2>4, <3>2 DEF Outcome, StoreTyped
      <3>4. Len(outcomes'["snapshot"]) = 1
         BY <3>3
      <3>5. QED
         BY <3>2, <3>4
   <2>5. QED
      BY <2>3, <2>4, <1>3, TasksKinds
<1>13. QED
   BY <1>7, <1>9, <1>10, <1>11, <1>12 DEF TaskStep, WeatherWork

LEMMA WeatherInvInit == WeatherInit => WeatherInv
<1> SUFFICES ASSUME WeatherInit PROVE WeatherInv
   OBVIOUS
<1> USE WeatherNames
<1>1. WeatherTyped
   BY WeatherTypedInit
<1>2. outcomes["map"] = <<>> /\ outcomes["snapshot"] = <<>> /\ requested["map"] = 0 /\ requested["snapshot"] = 0
      /\ mapRows = {} /\ unlocked = {}
   BY DEF WeatherInit
<1>3. \A t \in WeatherTasks : weather[t] = "none"
   BY DEF WeatherInit
<1>4. LockHeld
   BY <1>3 DEF WeatherInit, LockHeld, WeatherRunning
<1>5. Reported = {} /\ AskedFor = {} /\ SnapshotRuns = {}
   BY <1>2, <1>3 DEF Reported, AskedFor, SnapshotRuns, WeatherRunning
<1>6. Len(<<>>) = 0
   OBVIOUS
<1>7. Cardinality({}) = 0
   BY FS_EmptySet
<1>8. MapInv
   BY <1>2, <1>3, <1>5, <1>6, <1>7, CountEmpty DEF MapInv
<1>9. SnapshotInv
   BY <1>2, <1>5, <1>6, <1>7, CountEmpty DEF SnapshotInv
<1>10. QED
   BY <1>1, <1>4, <1>8, <1>9 DEF WeatherInv

LEMMA WeatherInvStep == WeatherInv /\ [WeatherNext]_weatherVars => WeatherInv'
<1> SUFFICES ASSUME WeatherInv, [WeatherNext]_weatherVars PROVE WeatherInv'
   OBVIOUS
<1> USE DEF WeatherInv
<1>1. WeatherTyped'
   BY WeatherTypedStep
<1>2. ASSUME NEW t \in WeatherTasks, TaskStep(t)
      PROVE  LockHeld' /\ MapInv' /\ SnapshotInv'
   <2>1. SnapshotInv'
      BY <1>2, SnapshotCount, SnapshotAlone DEF SnapshotInv
   <2>2. QED
      BY <1>2, <2>1, LockHeldStep, MapInvStep
<1>3. ASSUME NEW k \in Kinds, Queue(k)
      PROVE  LockHeld' /\ MapInv' /\ SnapshotInv'
   <2> DEFINE t == <<k, initiation.serves>>
   <2>1. t \in WeatherTasks /\ weather[t] = "none"
      BY <1>3, WeatherNames DEF Queue, WeatherTyped, InitiationTyped, WeatherTasks
   <2>2. WeatherTo(t, "queued")
      BY <1>3 DEF Queue, WeatherTo
   <2>. HIDE DEF t
   <2>3. /\ weather'[t] = "queued"
         /\ \A u \in WeatherTasks : u # t => weather'[u] = weather[u]
      BY <2>1, <2>2, WeatherToEffect DEF WeatherTyped, WeatherSteps
   <2>4. UNCHANGED <<lock, requested, outcomes, mapRows, mapObjects, unlocked, met>>
      BY <1>3 DEF Queue, weatherEvents, mapStore
   <2>5. Reported' = Reported /\ AskedFor' = AskedFor /\ SnapshotRuns' = SnapshotRuns
      <3>1. \A u \in WeatherTasks : \A steps \in {{"over"}, {"ask", "tell"}, WeatherRunning} :
               weather'[u] \in steps <=> weather[u] \in steps
         BY <2>1, <2>3 DEF WeatherRunning
      <3>2. Reported' = Reported
         BY <2>1, <2>3, <2>4 DEF Reported, WeatherTyped, StoreTyped
      <3>3. QED
         BY <3>1, <3>2 DEF AskedFor, SnapshotRuns
   <2>6. LockHeld'
      BY <2>1, <2>3, <2>4 DEF LockHeld, WeatherRunning
   <2>7. MapInv'
      BY <2>1, <2>3, <2>4, <2>5 DEF MapInv, WeatherTyped, StoreTyped
   <2>8. SnapshotInv'
      BY <2>4, <2>5 DEF SnapshotInv
   <2>9. QED
      BY <2>6, <2>7, <2>8
<1>4. ASSUME UNCHANGED <<weather, lock, requested, outcomes, mapRows, mapObjects, unlocked, met>>
      PROVE  LockHeld' /\ MapInv' /\ SnapshotInv'
   <2>1. Reported' = Reported /\ AskedFor' = AskedFor /\ SnapshotRuns' = SnapshotRuns
      BY <1>4 DEF Reported, AskedFor, SnapshotRuns
   <2>2. LockHeld'
      BY <1>4 DEF LockHeld
   <2>3. MapInv' /\ SnapshotInv'
      BY <1>4, <2>1 DEF MapInv, SnapshotInv
   <2>4. QED
      BY <2>2, <2>3
<1>5. CASE Initiate \/ (\E k \in Kinds : QueueRefused(k)) \/ UNCHANGED weatherVars
   <2>1. UNCHANGED <<weather, lock, requested, outcomes, mapRows, mapObjects, unlocked, met>>
      BY <1>5 DEF Initiate, QueueRefused, weatherVars, weatherEvents, mapStore
   <2>2. QED
      BY <1>1, <1>4, <2>1
<1>6. QED
   BY <1>1, <1>2, <1>3, <1>5 DEF WeatherNext, TaskStep

LEMMA WeatherMeans == WeatherInv => WeatherIsHonest
<1> SUFFICES ASSUME WeatherInv PROVE WeatherIsHonest
   OBVIOUS
<1> USE WeatherNames DEF WeatherInv, WeatherTyped
<1>1. WeatherTypeOK
   BY DEF WeatherTypeOK, TasksTyped, StoreTyped, LockHeld, WeatherSteps
<1>2. outcomes["snapshot"] \in Seq({"captured", "failed"}) /\ requested["snapshot"] \in Nat /\ requested["map"] \in Nat
   BY DEF StoreTyped
<1>3. \A k \in Kinds : CountOutcomes(k, "captured") = CountIn(outcomes[k], "captured")
   BY DEF CountOutcomes, CountIn
<1>4. CountOutcomes("map", "captured") = Cardinality(mapRows) /\ Cardinality(mapRows) =< 1
      /\ Cardinality(mapRows) =< requested["map"]
   BY <1>3 DEF MapInv
<1>5. CountOutcomes("snapshot", "captured") =< requested["snapshot"]
   <2>1. PICK c \in Nat : c = CountIn(outcomes["snapshot"], "captured")
      BY <1>2, CountFacts
   <2>2. PICK a \in Nat : a = Cardinality(AskedFor)
      BY AskedForFinite
   <2>3. c + a =< requested["snapshot"]
      BY <2>1, <2>2 DEF SnapshotInv
   <2>4. c =< requested["snapshot"]
      BY <1>2, <2>3
   <2>5. QED
      BY <1>3, <2>1, <2>4
<1>6. MapIsKept
   <2>1. mapRows \subseteq mapObjects
      BY DEF MapInv
   <2>2. QED
      BY <1>4, <1>5, <2>1 DEF MapIsKept
<1>7. Len(outcomes["map"]) =< 1 + Cardinality(unlocked)
   <2>1. IsFiniteSet(unlocked) /\ Reported \subseteq unlocked
      BY FS_Subset DEF StoreTyped, Reported
   <2>2. Cardinality(Reported) =< Cardinality(unlocked) /\ Cardinality(unlocked) \in Nat /\ Cardinality(Reported) \in Nat
      BY <2>1, FS_Subset, FS_CardinalityType
   <2>3. PICK n \in Nat : n = Len(outcomes["map"])
      BY DEF StoreTyped
   <2>4. n =< 1 + Cardinality(Reported)
      BY <2>3 DEF MapInv
   <2>5. n =< 1 + Cardinality(unlocked)
      BY <2>2, <2>4
   <2>6. QED
      BY <2>3, <2>5
<1>8. OneOutcome
   BY <1>4, <1>7 DEF OneOutcome, SnapshotInv
<1>9. QED
   BY <1>1, <1>6, <1>8 DEF WeatherIsHonest

\* What the events of an incident tell of its weather is what was captured, once:
\* for any number of requests and of mishaps (services/weather_snapshot_service.py,
\* services/weather/map_snapshot_service.py).
THEOREM WeatherStaysHonest == WeatherSpec => []WeatherIsHonest
BY WeatherInvInit, WeatherInvStep, WeatherMeans, PTL DEF WeatherSpec
==============================================================================
